------------------------- MODULE PluginDeviceProofs -------------------------
(* A plugin device is a use of LuaWorker, so that what is proved of the worker *)
(* holds of the device's; and, for any users and limits, its types, that the    *)
(* fan is given back and that a closed device stays down.                       *)
EXTENDS PluginDevice, LuaWorkerProofs

USE DEF PluginDeviceAssumption

----------------------------------------------------------------------------
(* Every step of the device is a step of its worker, or none.                *)

LEMMA DeviceStepsWorker == [DeviceNext]_vars => [Next]_workerVars
<1> SUFFICES ASSUME [DeviceNext]_vars PROVE [Next]_workerVars
  OBVIOUS
<1>w. Root \in Workers /\ Users \subseteq Clients /\ {Poller, Closer} \subseteq Clients
  BY PluginDeviceAssumption
<1>k. {"run", "close"} \subseteq Kinds
  BY DEF Kinds
<1>s. WorkerStep(Root) => Next
  BY <1>w DEF Next
<1>r. \A c \in Clients : Respond(c) \/ Finish(c) => Next
  BY DEF Next
<1>c. \A c \in Clients : Check(c, Root, "run") \/ Check(c, Root, "close") => Next
  BY <1>w, <1>k DEF Next
<1>1. CASE WorkerNext
  BY <1>1, <1>s, <1>r DEF WorkerNext
<1>2. CASE FanNext
  BY <1>2 DEF FanNext, WriteMode, BreakTransport, PutBack
<1>3. ASSUME NEW u \in Users, Initialize(u) \/ InitializeEnds(u) \/ Call(u) \/ Track(u)
      PROVE  [Next]_workerVars
  BY <1>3, <1>w, <1>c, <1>r DEF Initialize, InitializeEnds, Call, Track
<1>4. CASE PollNext
  BY <1>4, <1>w, <1>c, <1>r DEF PollNext, PollTick, PollEnds
<1>5. CASE CloseNext
  <2>1. Release(Root) => Next
    BY <1>w DEF Next
  <2> QED
    BY <1>5, <2>1, <1>w, <1>c, <1>r DEF CloseNext, Close, CloseRestores, CloseEnds, DropDevice
<1>6. CASE UNCHANGED vars
  BY <1>6 DEF vars
<1> QED
  BY <1>1, <1>2, <1>3, <1>4, <1>5, <1>6 DEF DeviceNext, CallNext

\* The device uses its worker as LuaWorker says: what LuaWorkerProofs proves of the
\* workers, their slots and their requests is true of every plugin device.
THEOREM DeviceImplementsWorker == DeviceSpec => Spec
<1>1. DeviceInit => Init
  BY DEF DeviceInit
<1> QED
  BY <1>1, DeviceStepsWorker, PTL DEF DeviceSpec, Spec

----------------------------------------------------------------------------
(* Types.                                                                    *)

LEMMA FanTypeStep == DeviceOK /\ FanOK /\ [DeviceNext]_vars => FanOK'
<1> SUFFICES ASSUME DeviceOK, FanOK, [DeviceNext]_vars PROVE FanOK'
  OBVIOUS
<1> USE DEF FanOK, Modes
<1>w. Users \subseteq Clients /\ Closer \in Clients
  BY PluginDeviceAssumption
<1>n. UNCHANGED fanVars => FanOK'
  BY DEF fanVars
<1>t. ASSUME NEW c \in Clients, TakeOriginals(c) PROVE FanOK'
  BY <1>t DEF TakeOriginals
<1>1. CASE WorkerNext
  BY <1>1, <1>n DEF WorkerNext, Host
<1>2. CASE FanNext
  BY <1>2, <1>n DEF FanNext, WriteMode, BreakTransport, PutBack
<1>3. ASSUME NEW u \in Users, Initialize(u) \/ InitializeEnds(u) \/ Call(u) \/ Track(u)
      PROVE  FanOK'
  BY <1>3, <1>w, <1>n, <1>t DEF Initialize, InitializeEnds, Call, Track, Latch, NoRestore
<1>4. CASE PollNext
  BY <1>4, <1>n DEF PollNext, PollTick, PollEnds
<1>5. CASE CloseNext
  BY <1>5, <1>w, <1>n, <1>t DEF CloseNext, Close, CloseRestores, CloseEnds, DropDevice
<1>6. CASE UNCHANGED vars
  BY <1>6, <1>n DEF vars
<1> QED
  BY <1>1, <1>2, <1>3, <1>4, <1>5, <1>6 DEF DeviceNext, CallNext

LEMMA DeviceTypeStep == DeviceOK /\ FanOK /\ [DeviceNext]_vars => DeviceOK'
<1> SUFFICES ASSUME DeviceOK, FanOK, [DeviceNext]_vars PROVE DeviceOK'
  OBVIOUS
<1> USE DEF DeviceOK, RuntimeStates, Down
<1>n. UNCHANGED <<device, external, disturbed>> => DeviceOK'
  BY DEF device, external
<1>d. UNCHANGED fanVars => disturbed' = disturbed
  BY DEF fanVars
<1>t. \A c : TakeOriginals(c) => disturbed' = disturbed
  BY DEF TakeOriginals
<1>l. \A c, f : Latch(c, f) => disturbed' = disturbed /\ callFailed' = f
  BY <1>d, <1>t DEF Latch, NoRestore
<1>f. Failed => runtime' \in RuntimeStates /\ unrecoverable' \in BOOLEAN
  BY DEF Failed
<1>s. Succeeded => runtime' \in RuntimeStates /\ unrecoverable' \in BOOLEAN
  BY DEF Succeeded
<1>1. CASE WorkerNext
  BY <1>1, <1>n, <1>d DEF WorkerNext, Host
<1>2. CASE FanNext
  <2>1. CASE WriteMode
    BY <2>1 DEF WriteMode, device, external, InCallback
  <2>2. CASE BreakTransport
    BY <2>2, <1>d DEF BreakTransport, device
  <2>3. ASSUME NEW c \in Clients, PutBack(c) PROVE DeviceOK'
    BY <2>3, <1>n DEF PutBack, device, external
  <2> QED
    BY <1>2, <2>1, <2>2, <2>3 DEF FanNext
<1>3. ASSUME NEW u \in Users PROVE Initialize(u) => DeviceOK'
  BY <1>3, <1>d DEF Initialize, external
<1>4. ASSUME NEW u \in Users PROVE InitializeEnds(u) => DeviceOK'
  <2> SUFFICES ASSUME InitializeEnds(u) PROVE DeviceOK'
    OBVIOUS
  <2>1. callFailed' \in BOOLEAN /\ disturbed' = disturbed
    BY <1>l, <1>d DEF InitializeEnds, NoRestore
  <2>2. /\ runtime' \in RuntimeStates /\ unrecoverable' \in BOOLEAN
        /\ initialized' \in {"ok", "failed"} /\ pollPaused' \in BOOLEAN
    BY <1>f, <1>s DEF InitializeEnds
  <2>3. UNCHANGED <<closed, polling, failures, closing, external>>
    BY DEF InitializeEnds
  <2> QED
    BY <2>1, <2>2, <2>3 DEF external
<1>5. ASSUME NEW u \in Users PROVE Call(u) => DeviceOK'
  BY <1>5, <1>n, <1>d DEF Call
<1>6. ASSUME NEW u \in Users PROVE Track(u) => DeviceOK'
  <2> SUFFICES ASSUME Track(u) PROVE DeviceOK'
    OBVIOUS
  <2>1. callFailed' \in BOOLEAN /\ disturbed' = disturbed
    BY <1>l DEF Track
  <2>2. runtime' \in RuntimeStates /\ unrecoverable' \in BOOLEAN
    BY <1>f, <1>s DEF Track
  <2>3. UNCHANGED <<closed, initialized, pollPaused, polling, failures, closing, external>>
    BY DEF Track
  <2> QED
    BY <2>1, <2>2, <2>3 DEF external
<1>7. CASE PollTick
  BY <1>7, <1>d DEF PollTick, GiveUp, external
<1>8. CASE PollEnds
  <2>1. CASE PollSucceeds
    BY <1>8, <2>1, <1>s, <1>d, PluginDeviceAssumption DEF PollEnds, PollSucceeds, external
  <2>2. CASE PollFails
    <3>1. failures' \in 0..(Threshold + 1)
      BY <2>2, PluginDeviceAssumption DEF PollFails
    <3>2. runtime' \in RuntimeStates /\ unrecoverable' \in BOOLEAN /\ polling' \in BOOLEAN
      BY <2>2 DEF PollFails, GiveUp
    <3> QED
      BY <1>8, <3>1, <3>2, <1>d DEF PollEnds, external
  <2> QED
    BY <1>8, <2>1, <2>2 DEF PollEnds
<1>9. CASE Close
  BY <1>9, <1>d DEF Close, external
<1>10. CASE CloseRestores
  BY <1>10, <1>t DEF CloseRestores, external
<1>11. CASE CloseEnds
  BY <1>11, <1>d DEF CloseEnds, external
<1>12. CASE DropDevice
  BY <1>12, <1>n, <1>d DEF DropDevice
<1>13. CASE UNCHANGED vars
  BY <1>13, <1>n, <1>d DEF vars
<1> QED
  BY <1>1, <1>2, <1>3, <1>4, <1>5, <1>6, <1>7, <1>8, <1>9, <1>10, <1>11, <1>12, <1>13
     DEF DeviceNext, CallNext, PollNext, CloseNext

----------------------------------------------------------------------------
(* The fan.                                                                  *)

\* Unless writes crossed a restore, the mode to go back to is remembered, or is being
\* written, as long as the fan is the plugin's; after the last restore nothing is
\* remembered any more.
FanInv ==
  ~disturbed =>
    /\ original # "manual" /\ \A c \in Clients : taken[c] # "manual"
    /\ fan = "manual" => original = "auto" \/ \E c \in Clients : taken[c] = "auto"
    /\ Released => original = "none"

LEMMA FanStep == DeviceOK /\ FanOK /\ FanInv /\ [DeviceNext]_vars => FanInv'
<1> SUFFICES ASSUME DeviceOK, FanOK, FanInv, [DeviceNext]_vars PROVE FanInv'
  OBVIOUS
<1> USE DEF FanInv, FanOK, Modes, Released
<1>w. Users \subseteq Clients /\ Closer \in Clients
  BY PluginDeviceAssumption
<1>n. UNCHANGED fanVars /\ (Released' => Released) => FanInv'
  BY DEF fanVars
<1>t. ASSUME NEW c \in Clients, taken[c] = "none", TakeOriginals(c) PROVE FanInv'
  BY <1>t DEF TakeOriginals
<1>1. CASE WorkerNext
  BY <1>1, <1>n DEF WorkerNext, Host, device
<1>2. CASE WriteMode
  BY <1>2 DEF WriteMode, Restoring, device
<1>3. CASE BreakTransport
  BY <1>3, <1>n DEF BreakTransport, device
<1>4. ASSUME NEW c \in Clients, PutBack(c) PROVE FanInv'
  BY <1>4 DEF PutBack, device
<1>5. ASSUME NEW u \in Users, Initialize(u) \/ Call(u) PROVE FanInv'
  BY <1>5, <1>n DEF Initialize, Call, device
<1>6. ASSUME NEW u \in Users, InitializeEnds(u) \/ Track(u) PROVE FanInv'
  BY <1>6, <1>w, <1>n, <1>t DEF InitializeEnds, Track, Latch, NoRestore, Done
<1>7. CASE PollNext
  BY <1>7, <1>n DEF PollNext, PollTick, PollEnds
<1>8. CASE Close
  BY <1>8, <1>n DEF Close
<1>9. CASE CloseRestores
  BY <1>9, <1>w, <1>t DEF CloseRestores, Done
<1>10. CASE CloseEnds
  BY <1>10, <1>n DEF CloseEnds
<1>11. CASE DropDevice
  BY <1>11, <1>n DEF DropDevice, device
<1>12. CASE UNCHANGED vars
  BY <1>12, <1>n DEF vars, device
<1> QED
  BY <1>1, <1>2, <1>3, <1>4, <1>5, <1>6, <1>7, <1>8, <1>9, <1>10, <1>11, <1>12
     DEF DeviceNext, FanNext, CallNext, CloseNext

----------------------------------------------------------------------------
DeviceInv == Inv /\ DeviceOK /\ FanOK /\ FanInv

LEMMA InitDevice == DeviceInit => DeviceInv
<1> SUFFICES ASSUME DeviceInit PROVE DeviceInv
  OBVIOUS
<1>1. Inv
  BY InitInv DEF DeviceInit
<1>2. DeviceOK
  <2>1. failures \in 0..(Threshold + 1)
    BY PluginDeviceAssumption DEF DeviceInit
  <2> QED
    BY <2>1 DEF DeviceInit, DeviceOK, RuntimeStates
<1>3. FanOK /\ FanInv
  BY DEF DeviceInit, FanOK, FanInv, Modes
<1> QED
  BY <1>1, <1>2, <1>3 DEF DeviceInv

LEMMA StepDevice == DeviceInv /\ [DeviceNext]_vars => DeviceInv'
BY DeviceStepsWorker, StepInv, FanTypeStep, DeviceTypeStep, FanStep DEF DeviceInv

\* Every state of the device, its worker and its fan is well typed.
THEOREM DeviceTypeCorrect == DeviceSpec => []TypeOK
<1>1. DeviceInv => TypeOK
  BY DEF DeviceInv, Inv, TypeOK
<1> QED
  BY InitDevice, StepDevice, <1>1, PTL DEF DeviceSpec

\* The fan is the kernel's again once close is over, however many calls fail, time out or
\* are refused, unless a callback wrote across a restore or after the last one.
THEOREM FanIsGivenBack == DeviceSpec => []FanGivenBack
<1>1. DeviceInv => FanGivenBack
  <2> SUFFICES ASSUME DeviceInv, closing = "done", ~Restoring, ~disturbed PROVE fan = "auto"
    BY DEF FanGivenBack
  <2>1. original = "none"
    BY DEF DeviceInv, FanInv, Released
  <2> QED
    BY <2>1 DEF DeviceInv, FanInv, FanOK, Restoring
<1> QED
  BY InitDevice, StepDevice, <1>1, PTL DEF DeviceSpec

\* What one step does to a device that is being closed or is closed.
DownStep == (closed /\ runtime \in Down) => runtime' \in Down \cup {"Unrecoverable"}

LEMMA StaysDown == [DeviceNext]_vars => DownStep
<1> SUFFICES ASSUME [DeviceNext]_vars, closed, runtime \in Down
             PROVE  runtime' \in Down \cup {"Unrecoverable"}
  BY DEF DownStep
<1> USE DEF Down
<1>f. Failed \/ Succeeded => runtime' = runtime
  BY DEF Failed, Succeeded
<1>1. CASE WorkerNext
  BY <1>1 DEF WorkerNext, Host, device
<1>2. CASE FanNext
  BY <1>2 DEF FanNext, WriteMode, BreakTransport, PutBack, device
<1>3. ASSUME NEW u \in Users, Initialize(u) \/ InitializeEnds(u) \/ Call(u) \/ Track(u)
      PROVE  runtime' = runtime
  BY <1>3, <1>f DEF Initialize, InitializeEnds, Call, Track, device
<1>4. CASE PollTick
  BY <1>4 DEF PollTick, GiveUp
<1>5. CASE PollEnds
  BY <1>5, <1>f DEF PollEnds, PollSucceeds, PollFails, GiveUp
<1>6. CASE CloseNext
  BY <1>6 DEF CloseNext, Close, CloseRestores, CloseEnds, DropDevice, device
<1>7. CASE UNCHANGED vars
  BY <1>7 DEF vars, device
<1> QED
  BY <1>1, <1>2, <1>3, <1>4, <1>5, <1>6, <1>7 DEF DeviceNext, CallNext, PollNext

\* No outcome of a call or of the poll brings a device back that is being closed: at most
\* the poll finds out that it is beyond repair.
THEOREM ClosedIsFinal == DeviceSpec => ClosedStaysDown
<1>1. [DeviceNext]_vars => [DownStep]_vars
  BY StaysDown
<1>2. [][DownStep]_vars <=> ClosedStaysDown
  BY DEF DownStep, ClosedStaysDown
<1> QED
  BY <1>1, <1>2, PTL DEF DeviceSpec
=============================================================================
