---------------------------- MODULE PluginDevice ----------------------------
(***************************************************************************)
(* A device driven by a plugin: LuaDevice over a LuaWorker, with the tasks  *)
(* that use it at the same time (callers of capabilities, the status poll,  *)
(* whoever closes it) and the kernel's fan control, which the plugin takes  *)
(* over and the daemon must give back.                                      *)
(*                                                                         *)
(* The fan has two modes, "auto" (the kernel's) and "manual" (the           *)
(* plugin's).  HwmonTransport remembers the mode a plugin found before it   *)
(* wrote the first one, and restore writes what was remembered.             *)
(***************************************************************************)
EXTENDS LuaWorker

CONSTANTS
  Root,       \* the worker of this device
  Users,      \* the tasks that call capabilities of the device
  Poller,     \* its status poll
  Closer,     \* whoever closes it
  Threshold   \* POLL_FAILURE_DEGRADE_THRESHOLD

ASSUME PluginDeviceAssumption ==
  /\ Workers = {Root} /\ Clients = Users \cup {Poller, Closer}
  /\ Poller # Closer /\ {Poller, Closer} \cap Users = {}
  /\ Threshold \in Nat \ {0}

VARIABLES
  runtime,        \* LuaDevice.runtime, RuntimeState
  closed,         \* LuaDevice.closed
  unrecoverable,  \* LuaDevice.unrecoverable
  callFailed,     \* LuaDevice.call_failed, the latch of an error episode
  initialized,    \* how far initialize came
  pollPaused,     \* LuaDevice.poll_paused
  polling,        \* poll_task runs
  failures,       \* its consecutive_failures
  broken,         \* the transport's unrecoverable error, external
  fan,            \* the mode of the fan, external
  original,       \* HwmonTransport.original_pwm_enable
  taken,          \* what each client's restore has taken out of original
  closing,        \* where Closer is in close
  disturbed       \* history: a callback wrote while a restore was under way or after
                  \* the last one, or the OS denied what it had allowed

device == <<runtime, closed, unrecoverable, callFailed, initialized, pollPaused,
            polling, failures, closing>>
fanVars == <<fan, original, taken, disturbed>>
external == <<broken>>
vars == <<workerVars, device, fanVars, external>>

----------------------------------------------------------------------------
RuntimeStates == {"Initializing", "Online", "Degraded", "Unrecoverable", "Closing", "Closed"}
Down == {"Closing", "Closed"}
Modes == {"none", "auto", "manual"}

\* LuaDevice::new, which spawns the worker; a device of an integration, on hwmon.
DeviceInit ==
  /\ Init
  /\ runtime = "Initializing" /\ closed = FALSE /\ unrecoverable = FALSE
  /\ callFailed = FALSE /\ initialized = "no"
  /\ pollPaused = TRUE /\ polling = TRUE /\ failures = 0
  /\ broken = FALSE
  /\ fan = "auto" /\ original = "none"
  /\ taken = [c \in Clients |-> "none"]
  /\ closing = "no" /\ disturbed = FALSE

----------------------------------------------------------------------------
(* The fan.                                                                 *)

\* What a callback does while it runs, and one that got stuck may still do.
InCallback == thread[Root] \in {"busy", "stuck"}
Restoring == \E c \in Clients : taken[c] # "none"
Released == closing \in {"restored", "done"}

\* HwmonTransport::write of a pwm_enable: the first write remembers what it found, whether
\* it then works or not; one that is denied is taken for never having worked, and
\* forgotten.  No write follows a disturbed one, which bounds the model.
WriteMode ==
  /\ InCallback /\ ~disturbed
  /\ \/ /\ fan' \in {"manual", fan} /\ disturbed' = (Restoring \/ Released)
        /\ original' = IF original = "none" THEN fan ELSE original
     \/ /\ original' = "none" /\ disturbed' = (Restoring \/ Released \/ fan = "manual")
        /\ UNCHANGED fan
  /\ UNCHANGED <<workerVars, device, external, taken>>

\* The callback asks for what its manifest does not allow, or the host denies access.
BreakTransport ==
  /\ InCallback /\ ~broken
  /\ broken' = TRUE
  /\ UNCHANGED <<workerVars, device, fanVars>>

\* restore: the map is emptied first, then each mode is written, and what could not be
\* written goes back into the map.
TakeOriginals(c) ==
  /\ taken' = [taken EXCEPT ![c] = original] /\ original' = "none"
  /\ UNCHANGED <<fan, disturbed>>
NoRestore == UNCHANGED fanVars

PutBack(c) ==
  /\ taken[c] # "none" /\ taken' = [taken EXCEPT ![c] = "none"]
  /\ \/ fan' = taken[c] /\ UNCHANGED <<original, disturbed>>
     \/ original' = taken[c] /\ disturbed' = TRUE /\ UNCHANGED fan
  /\ UNCHANGED <<workerVars, device, external>>

----------------------------------------------------------------------------
(* Outcomes of calls.                                                       *)

\* set_call_failure_state
Failed ==
  /\ unrecoverable' = (unrecoverable \/ broken)
  /\ runtime' = IF runtime \in Down THEN runtime
                ELSE IF broken THEN "Unrecoverable" ELSE "Degraded"

\* record_call_outcome(false). SucceededAnyway forgets the states of close.
SucceededAnyway ==
  /\ runtime' = IF runtime = "Unrecoverable" THEN runtime ELSE "Online"
  /\ UNCHANGED unrecoverable
Succeeded ==
  /\ runtime' = IF runtime \in Down \cup {"Unrecoverable"} THEN runtime ELSE "Online"
  /\ UNCHANGED unrecoverable

\* The first failure of an episode restores the fan, in the task of the caller.
Latch(c, failed) ==
  /\ callFailed' = failed
  /\ IF failed /\ ~callFailed THEN TakeOriginals(c) ELSE NoRestore

Done(c) == pc[c] = "done" /\ taken[c] = "none"

Initialize(u) ==
  /\ u \in Users /\ initialized = "no"
  /\ initialized' = "running"
  /\ Check(u, Root, "run")
  /\ UNCHANGED <<runtime, closed, unrecoverable, callFailed, pollPaused, polling, failures,
                 closing, fanVars, external>>

\* initialize: an error of the call, a transport broken meanwhile, refusal, success.
InitializeEnds(u) ==
  /\ initialized = "running" /\ u \in Users /\ Done(u) /\ Finish(u)
  /\ IF result[u] # "value" \/ broken
     THEN /\ Failed /\ Latch(u, TRUE)
          /\ initialized' = "failed" /\ UNCHANGED pollPaused
     ELSE /\ NoRestore /\ UNCHANGED callFailed
          /\ \/ Succeeded /\ initialized' = "ok" /\ pollPaused' = FALSE
             \/ Failed /\ initialized' = "failed" /\ UNCHANGED pollPaused
  /\ UNCHANGED <<closed, polling, failures, closing, external>>

\* worker(), and a capability call.
Call(u) ==
  /\ u \in Users /\ initialized = "ok" /\ ~closed /\ taken[u] = "none"
  /\ Check(u, Root, "run")
  /\ UNCHANGED <<device, fanVars, external>>

\* track
Track(u) ==
  /\ u \in Users /\ initialized = "ok" /\ Done(u) /\ Finish(u)
  /\ IF result[u] = "value" THEN Succeeded ELSE Failed
  /\ Latch(u, result[u] # "value")
  /\ UNCHANGED <<closed, initialized, pollPaused, polling, failures, closing, external>>

----------------------------------------------------------------------------
(* The status poll.                                                         *)

\* Without a look at Closing and Closed.
GiveUp == unrecoverable' = TRUE /\ runtime' = "Unrecoverable" /\ polling' = FALSE

PollTick ==
  /\ polling /\ pc[Poller] = "idle"
  /\ \/ broken /\ GiveUp /\ UNCHANGED workerVars
     \/ /\ ~broken /\ (closed \/ unrecoverable)
        /\ polling' = FALSE /\ UNCHANGED <<workerVars, runtime, unrecoverable>>
     \/ /\ ~broken /\ ~closed /\ ~unrecoverable /\ ~pollPaused
        /\ Check(Poller, Root, "run") /\ UNCHANGED <<runtime, unrecoverable, polling>>
  /\ UNCHANGED <<closed, callFailed, initialized, pollPaused, failures, closing, fanVars,
                 external>>

PollSucceeds ==
  /\ result[Poller] = "value"
  /\ failures' = 0
  /\ IF failures >= Threshold THEN Succeeded ELSE UNCHANGED <<runtime, unrecoverable>>
  /\ UNCHANGED polling

PollFails ==
  /\ result[Poller] # "value"
  /\ IF broken THEN GiveUp /\ UNCHANGED failures
     ELSE /\ failures' = IF failures > Threshold THEN failures ELSE failures + 1
          /\ runtime' = IF failures + 1 = Threshold /\ runtime \notin Down THEN "Degraded"
                        ELSE runtime
          /\ UNCHANGED <<unrecoverable, polling>>

PollEnds ==
  /\ pc[Poller] = "done" /\ Finish(Poller)
  /\ PollSucceeds \/ PollFails
  /\ UNCHANGED <<closed, callFailed, initialized, pollPaused, closing, fanVars, external>>

----------------------------------------------------------------------------
(* close, and the drop of the device.                                       *)

Close ==
  /\ ~closed /\ thread[Root] \notin {"none", "over", "reserved"}
  /\ closed' = TRUE /\ runtime' = "Closing" /\ closing' = "asked"
  /\ Check(Closer, Root, "close")
  /\ UNCHANGED <<unrecoverable, callFailed, initialized, pollPaused, polling, failures,
                 fanVars, external>>

\* restore_safety_state, whatever became of the plugin's hook. CloseTrustsHook leaves the
\* fan alone when the hook has failed.
CloseTrustsHook ==
  /\ closing = "asked" /\ Done(Closer) /\ Finish(Closer)
  /\ closing' = "restored"
  /\ IF result[Closer] = "value" THEN TakeOriginals(Closer) ELSE NoRestore
  /\ UNCHANGED <<runtime, closed, unrecoverable, callFailed, initialized, pollPaused,
                 polling, failures, external>>
CloseRestores ==
  /\ closing = "asked" /\ Done(Closer) /\ Finish(Closer)
  /\ closing' = "restored" /\ TakeOriginals(Closer)
  /\ UNCHANGED <<runtime, closed, unrecoverable, callFailed, initialized, pollPaused,
                 polling, failures, external>>

CloseEnds ==
  /\ closing = "restored" /\ taken[Closer] = "none"
  /\ closing' = "done" /\ runtime' = "Closed"
  /\ UNCHANGED <<workerVars, closed, unrecoverable, callFailed, initialized, pollPaused,
                 polling, failures, fanVars, external>>

\* The registry and the tasks let go of the device.
DropDevice ==
  /\ closing = "done" /\ ~polling /\ \A c \in Clients : pc[c] = "idle"
  /\ Release(Root)
  /\ UNCHANGED <<device, fanVars, external>>

----------------------------------------------------------------------------
Host == UNCHANGED <<device, fanVars, external>>
WorkerNext ==
  \/ WorkerStep(Root) /\ Host
  \/ \E c \in Clients : Respond(c) /\ Host
FanNext == WriteMode \/ BreakTransport \/ \E c \in Clients : PutBack(c)
CallNext == \E u \in Users : Initialize(u) \/ InitializeEnds(u) \/ Call(u) \/ Track(u)
PollNext == PollTick \/ PollEnds
CloseNext == Close \/ CloseRestores \/ CloseEnds \/ DropDevice

DeviceNext == WorkerNext \/ FanNext \/ CallNext \/ PollNext \/ CloseNext
DeviceSpec == DeviceInit /\ [][DeviceNext]_vars

\* Threads and tasks that can run do, timers fire, and a callback that is not stuck
\* comes to its end.
Fair ==
  /\ WF_vars((Refuse(Root) \/ StartThread(Root)) /\ Host)
  /\ WF_vars(Thread(Root) /\ Host)
  /\ \A c \in Clients : WF_vars(Respond(c) /\ Host) /\ WF_vars(PutBack(c))
  /\ WF_vars(PollNext)
  /\ WF_vars(CloseRestores) /\ WF_vars(CloseEnds) /\ WF_vars(DropDevice)
  /\ \A u \in Users : WF_vars(InitializeEnds(u)) /\ WF_vars(Track(u))
FairDeviceSpec == DeviceSpec /\ Fair

----------------------------------------------------------------------------
(* Properties.                                                              *)

DeviceOK ==
  /\ runtime \in RuntimeStates /\ initialized \in {"no", "running", "ok", "failed"}
  /\ closing \in {"no", "asked", "restored", "done"}
  /\ {closed, unrecoverable, callFailed, pollPaused, polling, broken, disturbed} \subseteq BOOLEAN
  /\ failures \in 0..(Threshold + 1)
FanOK == fan \in {"auto", "manual"} /\ original \in Modes /\ taken \in [Clients -> Modes]
TypeOK == WorkerTypeOK /\ DeviceOK /\ FanOK

\* Whatever calls are still in flight, none of their outcomes brings a device that is
\* being closed, or is closed, back into use: its state is shared with its children
\* (record_call_outcome, set_call_failure_state, the poll's recovery).
ClosedStaysDown ==
  [][(closed /\ runtime \in Down) => runtime' \in Down \cup {"Unrecoverable"}]_vars

\* The fan a plugin took over is the kernel's again once close is over, though calls
\* failed, timed out or were refused: the mode found first is what restore writes, unless
\* a callback wrote a mode in the middle of a restore or after the last one.
FanGivenBack == (closing = "done" /\ ~Restoring /\ ~disturbed) => fan = "auto"

\* close comes to its end even when the plugin's thread does not: it "is deliberately
\* independent of the Lua worker".
CloseCompletes == closed ~> closing = "done"

\* What docs/transports/hwmon.md says: "HaloDaemon restores fan-control modes when the
\* transport is closed, including after plugin failure".  It fails: see the README.
FanReleased == (closing = "done" /\ ~Restoring) => fan = "auto"
=============================================================================
