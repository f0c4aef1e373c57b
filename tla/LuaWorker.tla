------------------------------ MODULE LuaWorker ------------------------------
(***************************************************************************)
(* The threads that run plugins.  A worker owns an OS thread with a Lua VM; *)
(* callers send it commands over a bounded channel and wait for the reply   *)
(* on a oneshot, for no longer than a deadline.  A command can take for     *)
(* ever, and Lua offers no way to stop it: the caller then writes Wedged    *)
(* into the state it shares with the thread and goes away, while the thread *)
(* lives on.  At most MaxThreads threads exist in the process.              *)
(***************************************************************************)
EXTENDS Naturals, Sequences, FiniteSets, SequencesExt

CONSTANTS
  Workers,     \* the workers that may be spawned
  Clients,     \* tasks that send commands
  MaxThreads,  \* MAX_WORKER_THREADS
  QueueCap,    \* WORKER_QUEUE_CAP
  MaxCalls     \* bound on the number of commands of a client

ASSUME LuaWorkerAssumption ==
  /\ IsFiniteSet(Workers) /\ Workers # {}
  /\ MaxThreads \in Nat \ {0} /\ QueueCap \in Nat \ {0} /\ MaxCalls \in Nat

VARIABLES
  count,   \* WORKER_COUNT
  thread,  \* where spawn, and then the thread, of each worker is
  state,   \* LuaWorker.state
  open,    \* the receiver of the channel exists
  queue,   \* the channel
  job,     \* the command the thread handles, if any, as a sequence of one
  held,    \* some handle on the worker exists
  pc,      \* where each client is in request or request_terminal
  at,      \* the worker it talks to
  kind,    \* its command
  calls,   \* the number of its commands so far, which identifies this one
  result   \* what its request returned: a value or an error of the plugin, busy, or one
           \* of the errors that say the worker is dead

workers == <<count, thread, state, open, queue, job, held>>
requests == <<pc, at, kind, calls, result>>
workerVars == <<workers, requests>>

----------------------------------------------------------------------------
States == {"Starting", "Healthy", "Wedged", "Panicked", "Closing", "Closed"}
\* PluginHandle: a callback, close of a child, close of the root.
Kinds == {"run", "child", "close"}
Terminal(k) == k \in {"child", "close"}
Command == [from : Clients, no : 1..MaxCalls, kind : Kinds]
Asks(c) == [from |-> c, no |-> calls[c], kind |-> kind[c]]

\* Before the thread, in the thread, after it.
Spawning == {"over", "reserved"}
Running == {"building", "idle", "busy", "stuck", "unwinding", "breaking", "closing",
            "failed", "panicked"}
Threads == {"none", "dead", "gone"} \cup Spawning \cup Running

Live(w) == state[w] \in {"Starting", "Healthy"}
\* is_usable
Usable(w) == open[w] /\ Live(w)

Init ==
  /\ count = 0
  /\ thread = [w \in Workers |-> "none"] /\ state = [w \in Workers |-> "Starting"]
  /\ open = [w \in Workers |-> FALSE] /\ held = [w \in Workers |-> FALSE]
  /\ queue = [w \in Workers |-> <<>>] /\ job = [w \in Workers |-> <<>>]
  /\ pc = [c \in Clients |-> "idle"] /\ at = [c \in Clients |-> CHOOSE w \in Workers : TRUE]
  /\ kind = [c \in Clients |-> "run"] /\ calls = [c \in Clients |-> 0]
  /\ result = [c \in Clients |-> "none"]

----------------------------------------------------------------------------
(* spawn, in the caller.                                                    *)

\* fetch_add, and the comparison of what it returned.
Reserve(w) ==
  /\ thread[w] = "none"
  /\ count' = count + 1
  /\ thread' = [thread EXCEPT ![w] = IF count >= MaxThreads THEN "over" ELSE "reserved"]
  /\ UNCHANGED <<state, open, queue, job, held, requests>>

\* The limit is reached, or the OS refuses the thread: the slot is given back and
\* spawn_vm makes a dead worker.  RefuseKeepsSlot forgets to give it back.
RefuseKeepsSlot(w) ==
  /\ thread[w] \in Spawning
  /\ thread' = [thread EXCEPT ![w] = "dead"] /\ state' = [state EXCEPT ![w] = "Wedged"]
  /\ held' = [held EXCEPT ![w] = TRUE]
  /\ UNCHANGED <<count, open, queue, job, requests>>
Refuse(w) ==
  /\ thread[w] \in Spawning
  /\ count' = count - 1
  /\ thread' = [thread EXCEPT ![w] = "dead"] /\ state' = [state EXCEPT ![w] = "Wedged"]
  /\ held' = [held EXCEPT ![w] = TRUE]
  /\ UNCHANGED <<open, queue, job, requests>>

StartThread(w) ==
  /\ thread[w] = "reserved"
  /\ thread' = [thread EXCEPT ![w] = "building"]
  /\ open' = [open EXCEPT ![w] = TRUE] /\ held' = [held EXCEPT ![w] = TRUE]
  /\ UNCHANGED <<count, state, queue, job, requests>>

----------------------------------------------------------------------------
(* The thread.                                                              *)

Goto(w, place) == thread' = [thread EXCEPT ![w] = place]
Publish(w, s) == state' = [state EXCEPT ![w] = s]

Build(w) ==
  /\ thread[w] = "building"
  /\ Publish(w, "Healthy") /\ Goto(w, "idle")
  /\ UNCHANGED <<count, open, queue, job, held, requests>>

BuildFails(w) ==
  /\ thread[w] = "building"
  /\ Goto(w, "failed")
  /\ UNCHANGED <<count, state, open, queue, job, held, requests>>

\* The client that still waits for the reply to one of these commands gets it; one that
\* has gone away, or has gone on to another command, gets nothing.
Reaches(cmds, c) == pc[c] = "waiting" /\ \E cmd \in cmds : c = cmd.from /\ cmd.no = calls[c]
Reply(cmds, what) ==
  /\ pc' = [c \in Clients |-> IF Reaches(cmds, c) THEN "done" ELSE pc[c]]
  /\ result' = [c \in Clients |-> IF Reaches(cmds, c) THEN what ELSE result[c]]
DropOneshots(cmds) ==
  /\ pc' = [c \in Clients |-> IF Reaches(cmds, c) THEN "polling" ELSE pc[c]]
  /\ UNCHANGED result

TakeJob(w) ==
  /\ thread[w] = "idle" /\ queue[w] # <<>>
  /\ job' = [job EXCEPT ![w] = <<Head(queue[w])>>]
  /\ queue' = [queue EXCEPT ![w] = Tail(@)]
  /\ Goto(w, "busy")
  /\ UNCHANGED <<count, state, open, held, requests>>

\* The job sends its reply and says how the loop goes on; what it returns is the
\* plugin's: a value or an error.
Answer(w) ==
  /\ thread[w] = "busy"
  /\ \E what \in {"value", "error"} : Reply(ToSet(job[w]), what)
  /\ Goto(w, IF Head(job[w]).kind = "close" THEN "breaking" ELSE "idle")
  /\ job' = [job EXCEPT ![w] = <<>>]
  /\ UNCHANGED <<count, state, open, queue, held, at, kind, calls>>

\* A callback that catches the interruption of the deadline hook runs for ever.
Stick(w) ==
  /\ thread[w] = "busy"
  /\ Goto(w, "stuck")
  /\ UNCHANGED <<count, state, open, queue, job, held, requests>>

\* A panic drops the reply while it unwinds, and is published afterwards.
Panic(w) ==
  /\ thread[w] = "busy"
  /\ DropOneshots(ToSet(job[w]))
  /\ Goto(w, "unwinding")
  /\ job' = [job EXCEPT ![w] = <<>>]
  /\ UNCHANGED <<count, state, open, queue, held, at, kind, calls>>

PublishPanic(w) ==
  /\ thread[w] = "unwinding"
  /\ Publish(w, "Panicked") /\ Goto(w, "panicked")
  /\ UNCHANGED <<count, open, queue, job, held, requests>>

\* The last handle is gone and the channel is drained: blocking_recv is None.
\* HangupWhileLive leaves the loop only in a state that is not terminal.
HangupWhileLive(w) ==
  /\ thread[w] = "idle" /\ queue[w] = <<>> /\ ~held[w] /\ Live(w)
  /\ Goto(w, "breaking")
  /\ UNCHANGED <<count, state, open, queue, job, held, requests>>
Hangup(w) ==
  /\ thread[w] = "idle" /\ queue[w] = <<>> /\ ~held[w]
  /\ Goto(w, "breaking")
  /\ UNCHANGED <<count, state, open, queue, job, held, requests>>

PublishClosing(w) ==
  /\ thread[w] = "breaking"
  /\ Publish(w, "Closing") /\ Goto(w, "closing")
  /\ UNCHANGED <<count, open, queue, job, held, requests>>

\* The end of the thread: the receiver goes, and with it the commands still queued and
\* their oneshots; Closed is published, unless it panicked; WorkerSlot is dropped.
Exit(w) ==
  /\ thread[w] \in {"closing", "failed", "panicked"}
  /\ open' = [open EXCEPT ![w] = FALSE]
  /\ DropOneshots(ToSet(queue[w])) /\ queue' = [queue EXCEPT ![w] = <<>>]
  /\ IF thread[w] = "panicked" THEN UNCHANGED state ELSE Publish(w, "Closed")
  /\ count' = count - 1
  /\ Goto(w, "gone")
  /\ UNCHANGED <<job, held, at, kind, calls>>

----------------------------------------------------------------------------
(* request and request_terminal.                                            *)

Return(c, what) == pc' = [pc EXCEPT ![c] = "done"] /\ result' = [result EXCEPT ![c] = what]

\* The state is read before the command is sent.
Check(c, w, k) ==
  /\ pc[c] = "idle" /\ held[w] /\ calls[c] < MaxCalls
  /\ at' = [at EXCEPT ![c] = w] /\ kind' = [kind EXCEPT ![c] = k]
  /\ calls' = [calls EXCEPT ![c] = @ + 1]
  /\ IF Live(w) THEN pc' = [pc EXCEPT ![c] = "checked"] /\ UNCHANGED result
     ELSE Return(c, "dead")
  /\ UNCHANGED workers

\* Capacity. HasRoomForOneMore is the same, off by one.
HasRoomForOneMore(w) == Len(queue[w]) <= QueueCap
HasRoom(w) == Len(queue[w]) < QueueCap
Enqueue(c) ==
  /\ pc[c] = "checked" /\ open[at[c]] /\ HasRoom(at[c])
  /\ queue' = [queue EXCEPT ![at[c]] = Append(@, Asks(c))]
  /\ pc' = [pc EXCEPT ![c] = "waiting"]
  /\ UNCHANGED <<count, thread, state, open, job, held, at, kind, calls, result>>

\* try_send, Full; a terminal command waits for capacity instead.
Busy(c) ==
  /\ pc[c] = "checked" /\ ~Terminal(kind[c]) /\ open[at[c]] /\ ~HasRoom(at[c])
  /\ Return(c, "busy")
  /\ UNCHANGED <<workers, at, kind, calls>>

\* try_send, Closed, or send, SendError.
Closed(c) ==
  /\ pc[c] = "checked" /\ ~open[at[c]]
  /\ Publish(at[c], "Closed") /\ Return(c, "dead")
  /\ UNCHANGED <<count, thread, open, queue, job, held, at, kind, calls>>

\* The deadline: of a terminal command that waits for capacity, and of the reply.
\* CapacityOverdue waits for the reply for ever, TimeoutUnpublished tells only the caller,
\* and TimeoutIsBusy tells it to try again what may still be executed.
CapacityOverdue(c) ==
  pc[c] = "checked" /\ Terminal(kind[c]) /\ open[at[c]] /\ ~HasRoom(at[c])
Overdue(c) ==
  \/ CapacityOverdue(c)
  \/ pc[c] = "waiting"
TimeoutUnpublished(c) ==
  /\ Overdue(c) /\ Return(c, "dead")
  /\ UNCHANGED <<workers, at, kind, calls>>
TimeoutIsBusy(c) ==
  /\ Overdue(c)
  /\ Publish(at[c], "Wedged") /\ Return(c, "busy")
  /\ UNCHANGED <<count, thread, open, queue, job, held, at, kind, calls>>
Timeout(c) ==
  /\ Overdue(c)
  /\ Publish(at[c], "Wedged") /\ Return(c, "dead")
  /\ UNCHANGED <<count, thread, open, queue, job, held, at, kind, calls>>

\* dropped_reply_error, which looks for the panic before it gives up.
SeePanic(c) ==
  /\ pc[c] = "polling" /\ state[at[c]] = "Panicked"
  /\ Return(c, "dead")
  /\ UNCHANGED <<workers, at, kind, calls>>

\* The polls last 200 ms, which the thread needs to finish unwinding at most.
GivePollsUp(c) ==
  /\ pc[c] = "polling" /\ thread[at[c]] # "unwinding" /\ state[at[c]] # "Panicked"
  /\ Return(c, "dead")
  /\ UNCHANGED <<workers, at, kind, calls>>

\* What the caller does with the result is not this module's.
Finish(c) ==
  /\ pc[c] = "done"
  /\ pc' = [pc EXCEPT ![c] = "idle"] /\ result' = [result EXCEPT ![c] = "none"]
  /\ UNCHANGED <<workers, at, kind, calls>>

\* The last clone of the handle is dropped; a request in progress borrows one.
Release(w) ==
  /\ held[w] /\ \A c \in Clients : at[c] = w => pc[c] \in {"idle", "done"}
  /\ held' = [held EXCEPT ![w] = FALSE]
  /\ UNCHANGED <<count, thread, state, open, queue, job, requests>>

----------------------------------------------------------------------------
Spawn(w) == Reserve(w) \/ Refuse(w) \/ StartThread(w)
Handle(w) == Answer(w) \/ Stick(w) \/ Panic(w)
Loop(w) == Build(w) \/ BuildFails(w) \/ TakeJob(w) \/ Handle(w) \/ Hangup(w)
Leave(w) == PublishPanic(w) \/ PublishClosing(w) \/ Exit(w)
Thread(w) == Loop(w) \/ Leave(w)
Respond(c) == Enqueue(c) \/ Busy(c) \/ Closed(c) \/ Timeout(c) \/ SeePanic(c) \/ GivePollsUp(c)

WorkerStep(w) == Spawn(w) \/ Thread(w)
Next ==
  \/ \E w \in Workers : WorkerStep(w) \/ Release(w)
  \/ \E c \in Clients : Respond(c) \/ Finish(c) \/ \E w \in Workers, k \in Kinds : Check(c, w, k)

Spec == Init /\ [][Next]_workerVars

\* Threads run, tasks are polled, deadlines pass; a callback ends, unless it is stuck.
WorkerFair ==
  /\ \A w \in Workers : WF_workerVars(Refuse(w) \/ StartThread(w)) /\ WF_workerVars(Thread(w))
  /\ \A c \in Clients : WF_workerVars(Respond(c))
FairSpec == Spec /\ WorkerFair

----------------------------------------------------------------------------
(* Properties.                                                              *)

ThreadsOK ==
  /\ count \in Nat
  /\ thread \in [Workers -> Threads] /\ state \in [Workers -> States]
  /\ open \in [Workers -> BOOLEAN] /\ held \in [Workers -> BOOLEAN]
QueuesOK ==
  /\ queue \in [Workers -> Seq(Command)]
  /\ \A w \in Workers : Len(queue[w]) <= QueueCap
  /\ job \in [Workers -> Seq(Command)]
  /\ \A w \in Workers : IF thread[w] \in {"busy", "stuck"} THEN Len(job[w]) = 1 ELSE job[w] = <<>>
RequestsOK ==
  /\ pc \in [Clients -> {"idle", "checked", "waiting", "polling", "done"}]
  /\ at \in [Clients -> Workers] /\ kind \in [Clients -> Kinds]
  /\ calls \in [Clients -> 0..MaxCalls]
  /\ \A c \in Clients : pc[c] = "checked" => calls[c] \in 1..MaxCalls
  /\ result \in [Clients -> {"none", "value", "error", "busy", "dead"}]
WorkerTypeOK == ThreadsOK /\ QueuesOK /\ RequestsOK

\* WORKER_COUNT is the number of threads there are and of spawns that are not settled,
\* whatever spawns race and however threads end, and there are never more than
\* MAX_WORKER_THREADS threads.
Holding == {w \in Workers : thread[w] \in Spawning \cup Running}
SlotsMatchThreads ==
  /\ count = Cardinality(Holding)
  /\ Cardinality({w \in Workers : thread[w] \in Running}) <= MaxThreads

\* A request that ends with an error of the worker, and not of the plugin or for lack
\* of room, leaves a worker that is_usable denies: the callers that tell a dead plugin,
\* which they start again after a while, from a failing one, which they turn off, rely
\* on it (render_pixmap and led_colors in the lighting engine, render in the LCD's).
FailureShowsInState ==
  [][\A c \in Clients :
       (pc[c] # "done" /\ pc'[c] = "done" /\ result'[c] = "dead") => ~Usable(at[c])']_workerVars

\* Nobody waits for a worker for ever: whether its thread is stuck, panics, ends or never
\* existed, and whether the queue is full, every request returns.
EveryRequestReturns == \A c \in Clients : pc[c] = "checked" ~> pc[c] = "done"

\* A worker whose last handle is dropped ends its thread and gives the slot back, unless
\* its plugin is stuck: commands abandoned in the queue do not keep it.
UnheldThreadEnds ==
  \A w \in Workers : (thread[w] = "idle" /\ ~held[w]) ~> thread[w] \in {"stuck", "gone"}

\* The workers implement WorkerCalls: a command is executed at most once and alone, one
\* refused as busy never, and an answer goes to the call it answers or to nobody, however
\* timeouts, late answers, panics and the ends of threads cross.
CallOf(cmd) == [from |-> cmd.from, no |-> cmd.no]
Sent == [w \in Workers |-> {CallOf(cmd) : cmd \in ToSet(queue[w])}]
Runs == [w \in Workers |-> {CallOf(cmd) : cmd \in ToSet(job[w])}]
Made(k) == k.no < calls[k.from] \/ (k.no = calls[k.from] /\ pc[k.from] # "checked")
Over == {k \in [from : Clients, no : 1..MaxCalls] :
           Made(k) /\ \A w \in Workers : k \notin Sent[w] \cup Runs[w]}
Promise == INSTANCE WorkerCalls WITH sent <- Sent, runs <- Runs, over <- Over, returned <- result
ImplementsCalls == Promise!Spec
=============================================================================
