----------------------------- MODULE ConfigSave -----------------------------
(***************************************************************************)
(* How the configuration reaches the disk: use cases change the in-memory  *)
(* Config and bump the save version; the save worker debounces, snapshots  *)
(* the config and writes it file by file; a write may fail, the daemon may *)
(* be told to stop, and it may die between any two steps, after which it   *)
(* loads whatever the files hold.                                          *)
(*                                                                         *)
(* Of the configuration the model keeps the active profile and the         *)
(* profiles.  A profile is an identity, which a rename carries along, and  *)
(* the number of the last edit to its content.                             *)
(***************************************************************************)
EXTENDS Naturals, FiniteSets

CONSTANTS
  Names,        \* profile names
  Default,      \* DEFAULT_PROFILE_NAME
  MaxUnasked,   \* use cases that may be between their change and request_save
  MaxEdits,     \* bound on the number of configuration changes
  MaxFailures,  \* bound on the number of file operations that fail
  MaxCrashes    \* bound on the number of daemon restarts

ASSUME NamesAssumption == Default \in Names
ASSUME BoundsAssumption ==
  {MaxUnasked, MaxEdits, MaxFailures, MaxCrashes} \subseteq Nat

VARIABLES
  cfg,        \* AppState.config
  unasked,    \* changes whose use case has yet to call request_config_save
  requested,  \* Persistence.save_tx, the save version
  shutdown,   \* Persistence.shutdown_tx
  saveState,  \* Persistence.save_state
  pc,         \* where the save worker is
  seen,       \* the version its receiver has seen
  noticed,    \* its receiver has seen shutdown
  saved,      \* saved_version
  version,    \* version, of the save in progress
  copy,       \* the config the save in progress writes
  todo,       \* profile files the save in progress still has to write
  final,      \* the save in progress is the shutdown flush
  disk,       \* the files: active of config.yaml and profiles/
  edits,      \* number of changes so far, the source of fresh values
  failures, crashes,
  early,      \* history: the version at the worker's first poll
  covered,    \* history: the version the last complete save covers
  covering,   \* history: the version the save in progress covers
  durable,    \* history: the profiles of the last complete save
  owed,       \* history: the version the shutdown flush was to reach
  holders,    \* history: the identities each name has had
  removed,    \* history: the identities the user removed, or a crash left twice
  kept,       \* history: names whose file could not be deleted
  auto        \* history: the active profile was switched without a save request

vars == <<cfg, unasked, requested, shutdown, saveState, pc, seen, noticed, saved,
          version, copy, todo, final, disk, edits, failures, crashes, early, covered,
          covering, durable, owed, holders, removed, kept, auto>>

memory == <<cfg, unasked, edits, holders, removed, auto>>
worker == <<seen, noticed, saved, version, copy, todo, final, owed>>
files == <<disk, failures, kept>>
ghosts == <<early, covered, covering, durable>>
daemon == <<shutdown, crashes>>

----------------------------------------------------------------------------
Profile == [id : Nat, rev : Nat]
None == [id |-> 0, rev |-> 0]
Has(profiles, n) == profiles[n] # None
NoProfiles == [n \in Names |-> None]
Config == [active : Names, profiles : [Names -> Profile]]

\* config::load: what is missing takes its default.
FirstProfile == [NoProfiles EXCEPT ![Default] = [id |-> 1, rev |-> 1]]
Loaded(d) ==
  [d EXCEPT !.profiles = IF d.profiles = NoProfiles THEN FirstProfile ELSE d.profiles]

FirstRun == [active |-> Default, profiles |-> NoProfiles]

Init ==
  /\ disk = FirstRun
  /\ cfg = Loaded(FirstRun)
  /\ unasked = 0 /\ requested = 0 /\ shutdown = FALSE /\ saveState = "Clean"
  /\ pc = "start" /\ seen = 0 /\ noticed = FALSE /\ saved = 0 /\ version = 0
  /\ copy = FirstRun /\ todo = {} /\ final = FALSE
  /\ edits = 1 /\ failures = 0 /\ crashes = 0
  /\ early = 0 /\ covered = 0 /\ covering = 0 /\ durable = NoProfiles /\ owed = 0
  /\ holders = [n \in Names |-> IF n = Default THEN {1} ELSE {}]
  /\ removed = {} /\ kept = {} /\ auto = FALSE

----------------------------------------------------------------------------
(* The use cases: one write of the config, then request_config_save.        *)

Fresh == edits + 1
Change(after) ==
  /\ edits <= MaxEdits /\ unasked < MaxUnasked
  /\ edits' = Fresh
  /\ cfg' = after
  /\ holders' = [n \in Names |-> holders[n] \cup ({after.profiles[n].id} \ {0})]

\* switch_profile
Switch(n) ==
  /\ Has(cfg.profiles, n)
  /\ Change([cfg EXCEPT !.active = n])
  /\ unasked' = unasked + 1 /\ auto' = FALSE
  /\ UNCHANGED <<requested, saveState, pc, worker, files, ghosts, daemon, removed>>

\* switch_profile_direct, the focus watcher's: no save is requested.
SwitchDirect(n) ==
  /\ Has(cfg.profiles, n) /\ cfg.active # n
  /\ Change([cfg EXCEPT !.active = n])
  /\ auto' = TRUE
  /\ UNCHANGED <<unasked, requested, saveState, pc, worker, files, ghosts, daemon,
                 removed>>

\* add_profile
Add(n) ==
  /\ ~Has(cfg.profiles, n)
  /\ Change([active |-> n,
             profiles |-> [cfg.profiles EXCEPT ![n] = [id |-> Fresh, rev |-> Fresh]]])
  /\ unasked' = unasked + 1 /\ auto' = FALSE
  /\ UNCHANGED <<requested, saveState, pc, worker, files, ghosts, daemon, removed>>

\* remove_profile
Remove(n) ==
  /\ n # Default /\ Has(cfg.profiles, n)
  /\ Change([active |-> IF cfg.active = n THEN Default ELSE cfg.active,
             profiles |-> [cfg.profiles EXCEPT ![n] = None]])
  /\ removed' = removed \cup {cfg.profiles[n].id}
  /\ unasked' = unasked + 1 /\ auto' = (auto /\ cfg.active # n)
  /\ UNCHANGED <<requested, saveState, pc, worker, files, ghosts, daemon>>

\* rename_profile
Rename(old, new) ==
  /\ old # new /\ old # Default
  /\ Has(cfg.profiles, old) /\ ~Has(cfg.profiles, new)
  /\ Change([active |-> IF cfg.active = old THEN new ELSE cfg.active,
             profiles |-> [cfg.profiles EXCEPT ![old] = None, ![new] = cfg.profiles[old]]])
  /\ unasked' = unasked + 1 /\ auto' = (auto /\ cfg.active # old)
  /\ UNCHANGED <<requested, saveState, pc, worker, files, ghosts, daemon, removed>>

\* persist_device_state, of a use case or of start_persist_worker: the active profile
\* records a device's state and `default` the baseline it lacks; both come into being
\* if they are not there.
Edited(n) ==
  IF Has(cfg.profiles, n) THEN [cfg.profiles[n] EXCEPT !.rev = Fresh]
  ELSE [id |-> IF n = Default THEN FirstProfile[n].id ELSE Fresh, rev |-> Fresh]
Edit ==
  /\ \E touched \in {{cfg.active}, {cfg.active, Default}} :
       /\ Default \in touched \/ Has(cfg.profiles, Default)
       /\ Change([cfg EXCEPT !.profiles =
            [n \in Names |-> IF n \in touched THEN Edited(n) ELSE @[n]]])
  /\ unasked' = unasked + 1
  /\ UNCHANGED <<requested, saveState, pc, worker, files, ghosts, daemon, removed, auto>>

\* request_save
RequestSave ==
  /\ unasked > 0
  /\ unasked' = unasked - 1
  /\ requested' = requested + 1
  /\ UNCHANGED <<cfg, edits, holders, removed, auto, saveState, pc, worker, files, ghosts,
                 daemon>>

----------------------------------------------------------------------------
(* start_config_save_worker.                                                *)

Goto(next, state) ==
  /\ pc' = next
  /\ saveState' = state
  /\ UNCHANGED <<memory, requested, daemon>>

\* The task's first poll: saved_version is the version it finds, the receiver was
\* subscribed before the task was spawned.
Start ==
  /\ pc = "start"
  /\ Goto("idle", saveState)
  /\ saved' = requested /\ early' = requested
  /\ UNCHANGED <<seen, noticed, version, copy, todo, final, owed, files, covered, covering,
                 durable>>

Asked == seen # requested
StopAsked == shutdown /\ ~noticed

\* The outer select!: a request, or shutdown.
WakeUp ==
  /\ pc = "idle" /\ Asked
  /\ Goto("debounce", "Debouncing")
  /\ seen' = requested
  /\ UNCHANGED <<noticed, saved, version, copy, todo, final, owed, files, ghosts>>
StopIdle ==
  /\ pc = "idle" /\ StopAsked
  /\ Goto("flush", "Stopping")
  /\ noticed' = TRUE
  /\ UNCHANGED <<seen, saved, version, copy, todo, final, owed, files, ghosts>>

\* The debounce: over when no request came for a while, or after two seconds, or on
\* shutdown, which leaves the save to the flush.
Debounced ==
  /\ pc = "debounce"
  /\ Goto(IF shutdown THEN "flush" ELSE "take", IF shutdown THEN "Stopping" ELSE saveState)
  /\ UNCHANGED <<worker, files, ghosts>>
DebounceMore ==
  /\ pc = "debounce" /\ Asked
  /\ Goto(IF shutdown THEN "flush" ELSE pc, IF shutdown THEN "Stopping" ELSE saveState)
  /\ seen' = requested
  /\ UNCHANGED <<noticed, saved, version, copy, todo, final, owed, files, ghosts>>
StopDebounce ==
  /\ pc = "debounce" /\ StopAsked
  /\ Goto("flush", "Stopping")
  /\ noticed' = TRUE
  /\ UNCHANGED <<seen, saved, version, copy, todo, final, owed, files, ghosts>>

\* borrow_and_update, before the config is read.
Take ==
  /\ pc = "take"
  /\ Goto("clone", "Saving")
  /\ seen' = requested /\ version' = requested
  /\ UNCHANGED <<noticed, saved, copy, todo, final, owed, files, ghosts>>

CloneConfig ==
  /\ pc = "clone"
  /\ Goto("main", saveState)
  /\ copy' = cfg /\ covering' = requested
  /\ UNCHANGED <<seen, noticed, saved, version, todo, final, owed, files, early, covered,
                 durable>>

\* config::save on the blocking pool, file by file. Each write replaces its file or
\* leaves it as it was; the order of the profiles is a HashMap's.
WriteMain ==
  /\ pc = "main"
  /\ Goto("profiles", saveState)
  /\ disk' = [disk EXCEPT !.active = copy.active]
  /\ todo' = {n \in Names : Has(copy.profiles, n)}
  /\ UNCHANGED <<seen, noticed, saved, version, copy, final, owed, failures, kept, ghosts>>
WriteProfile(n) ==
  /\ pc = "profiles" /\ n \in todo
  /\ Goto(pc, saveState)
  /\ disk' = [disk EXCEPT !.profiles[n] = copy.profiles[n]]
  /\ todo' = todo \ {n}
  /\ UNCHANGED <<seen, noticed, saved, version, copy, final, owed, failures, kept, ghosts>>

\* Then the files of other names are deleted, and an error that gives is ignored.
WrittenAll ==
  /\ pc = "profiles" /\ todo = {}
  /\ Goto("prune", saveState)
  /\ todo' = {n \in Names : Has(disk.profiles, n) /\ ~Has(copy.profiles, n)}
  /\ UNCHANGED <<seen, noticed, saved, version, copy, final, owed, files, ghosts>>
Prune(n) ==
  /\ pc = "prune" /\ n \in todo
  /\ Goto(pc, saveState)
  /\ disk' = [disk EXCEPT !.profiles[n] = None]
  /\ kept' = kept \ {n}
  /\ todo' = todo \ {n}
  /\ UNCHANGED <<seen, noticed, saved, version, copy, final, owed, failures, ghosts>>
FailPrune(n) ==
  /\ pc = "prune" /\ n \in todo /\ failures < MaxFailures
  /\ Goto(pc, saveState)
  /\ failures' = failures + 1
  /\ kept' = kept \cup {n}
  /\ todo' = todo \ {n}
  /\ UNCHANGED <<seen, noticed, saved, version, copy, final, owed, disk, ghosts>>

\* A write that fails, or panics, ends the save: the flush gives up, the worker waits
\* to retry. FailTorn is a write that is not atomic.
Failing(torn) ==
  /\ pc \in {"main", "profiles"} /\ (pc = "profiles" => todo # {})
  /\ failures < MaxFailures
  /\ failures' = failures + 1
  /\ \E next \in (IF final THEN {"done"} ELSE {"retry", "panicked"}) : Goto(next, "Failed")
  /\ disk' = [disk EXCEPT !.profiles = [n \in Names |-> IF n \in torn THEN None ELSE @[n]]]
  /\ todo' = {}
  /\ UNCHANGED <<seen, noticed, saved, version, copy, final, owed, kept, ghosts>>
FailTorn == \E n \in Names : Failing(todo \cap {n})
FailWrite == Failing({})

\* The save is complete. The loop goes round again if the version has moved on, unless
\* shutdown is set, which the outer select! is left to see. SavedAsLatest takes the
\* version of now for the version saved, and marks it seen.
SavedAsLatest ==
  /\ pc = "prune" /\ todo = {}
  /\ durable' = copy.profiles /\ covered' = covering
  /\ Goto(IF final THEN "done" ELSE "idle", "Clean")
  /\ saved' = requested /\ seen' = requested
  /\ UNCHANGED <<noticed, version, copy, todo, final, owed, files, early, covering>>
Saved ==
  /\ pc = "prune" /\ todo = {}
  /\ durable' = copy.profiles /\ covered' = covering
  /\ \/ /\ final
        /\ Goto("done", "Clean")
        /\ UNCHANGED saved
     \/ /\ ~final /\ requested = version
        /\ Goto("idle", "Clean")
        /\ saved' = version
     \/ /\ ~final /\ requested # version
        /\ Goto(IF shutdown THEN "idle" ELSE "take", "DirtyWhileSaving")
        /\ saved' = version
  /\ UNCHANGED <<seen, noticed, version, copy, todo, final, owed, files, early, covering>>

\* Failed: wait for a second, a request or shutdown, then go round again.
\* RetryGivesUp goes back to the outer select! instead.
AfterRetry == IF shutdown THEN "idle" ELSE "take"
RetryGivesUp ==
  /\ pc \in {"retry", "panicked"}
  /\ Goto("idle", saveState)
  /\ UNCHANGED <<worker, files, ghosts>>
RetryTimer ==
  /\ pc \in {"retry", "panicked"}
  /\ Goto(AfterRetry, saveState)
  /\ UNCHANGED <<worker, files, ghosts>>
RetryRequest ==
  /\ pc = "retry" /\ Asked
  /\ Goto(AfterRetry, saveState)
  /\ seen' = requested
  /\ UNCHANGED <<noticed, saved, version, copy, todo, final, owed, files, ghosts>>
RetryStop ==
  /\ pc = "retry" /\ StopAsked
  /\ Goto(AfterRetry, saveState)
  /\ noticed' = TRUE
  /\ UNCHANGED <<seen, saved, version, copy, todo, final, owed, files, ghosts>>

\* The shutdown flush, if the version has moved on since the last save.
FlushNothing ==
  /\ pc = "flush" /\ requested = saved
  /\ Goto("done", "Clean")
  /\ owed' = requested
  /\ UNCHANGED <<seen, noticed, saved, version, copy, todo, final, files, ghosts>>
Flush ==
  /\ pc = "flush" /\ requested # saved
  /\ Goto("clone", saveState)
  /\ owed' = requested /\ final' = TRUE
  /\ UNCHANGED <<seen, noticed, saved, version, copy, todo, files, ghosts>>

----------------------------------------------------------------------------
(* run_daemon: shutdown, and the end of the process, whenever it comes.     *)

Shutdown ==
  /\ ~shutdown
  /\ shutdown' = TRUE
  /\ UNCHANGED <<memory, requested, saveState, pc, worker, files, ghosts, crashes>>

\* A crash inside a save that renames leaves a profile under two names, which are two
\* profiles from then on.
Twins == {n \in Names : \E m \in Names \ {n} : disk.profiles[m].id = disk.profiles[n].id}
Reborn ==
  /\ crashes < MaxCrashes
  /\ crashes' = crashes + 1
  /\ cfg' = Loaded(disk)
  /\ holders' = [n \in Names |-> holders[n] \cup ({cfg'.profiles[n].id} \ {0})]
  /\ unasked' = 0 /\ requested' = 0 /\ shutdown' = FALSE /\ saveState' = "Clean"
  /\ pc' = "start" /\ seen' = 0 /\ noticed' = FALSE /\ version' = 0
  /\ copy' = FirstRun /\ todo' = {} /\ final' = FALSE
  /\ early' = 0 /\ covered' = 0 /\ covering' = 0 /\ owed' = 0
  /\ kept' = {} /\ auto' = FALSE
  /\ removed' = removed \cup ({disk.profiles[n].id : n \in Twins} \ {0})
  /\ UNCHANGED <<disk, edits, failures, durable>>

\* The process dies and is started again. RestartRemembers keeps saved_version.
RestartRemembers == Reborn /\ UNCHANGED saved
Restart == Reborn /\ saved' = 0

----------------------------------------------------------------------------
UseCase ==
  \/ \E n \in Names : Switch(n) \/ SwitchDirect(n) \/ Add(n) \/ Remove(n)
  \/ \E old, new \in Names : Rename(old, new)
  \/ Edit

Save ==
  \/ CloneConfig \/ WriteMain \/ WrittenAll \/ Saved
  \/ \E n \in Names : WriteProfile(n) \/ Prune(n)

SaveWorker ==
  \/ Start \/ WakeUp \/ StopIdle
  \/ Debounced \/ DebounceMore \/ StopDebounce
  \/ Take \/ Save
  \/ RetryTimer \/ RetryRequest \/ RetryStop
  \/ FlushNothing \/ Flush

Failure == FailWrite \/ \E n \in Names : FailPrune(n)

Next == UseCase \/ RequestSave \/ SaveWorker \/ Failure \/ Shutdown \/ Restart

Spec == Init /\ [][Next]_vars

\* A use case that changed the config goes on to request the save; the worker's task is
\* polled, its timers fire and the file system answers. Nothing obliges anybody to
\* change, to stop or to restart anything.
Fairness == WF_vars(RequestSave) /\ WF_vars(SaveWorker)
FairSpec == Spec /\ Fairness

----------------------------------------------------------------------------
(* Properties.                                                              *)

Places == {"start", "idle", "debounce", "take", "clone", "main", "profiles", "prune",
           "retry", "panicked", "flush", "done"}
SaveStates == {"Clean", "Debouncing", "Saving", "DirtyWhileSaving", "Failed", "Stopping"}

MemoryOK ==
  /\ cfg \in Config /\ unasked \in 0..MaxUnasked /\ edits \in Nat /\ auto \in BOOLEAN
  /\ holders \in [Names -> SUBSET (1..edits)] /\ removed \subseteq 1..edits
WorkerOK ==
  /\ saveState \in SaveStates /\ pc \in Places
  /\ shutdown \in BOOLEAN /\ noticed \in BOOLEAN /\ final \in BOOLEAN
VersionsOK ==
  /\ requested \in Nat
  /\ {seen, saved, version, early, covered, covering, owed} \subseteq 0..requested
FilesOK ==
  /\ copy \in Config /\ disk \in Config /\ durable \in [Names -> Profile]
  /\ todo \subseteq Names /\ kept \subseteq Names
  /\ failures \in 0..MaxFailures /\ crashes \in 0..MaxCrashes

\* Types, and the save versions: none the worker holds is ahead of the requests.
TypeOK == MemoryOK /\ WorkerOK /\ VersionsOK /\ FilesOK

\* A worker that exits saying Clean has put on disk every change whose save was
\* requested before its flush, but for requests older than its first poll.
NewestFlushed ==
  (pc = "done" /\ saveState = "Clean") => (owed <= covered \/ owed <= early)

\* When the worker rests in Clean and nobody is about to ask for a save, a restart
\* would load the very configuration in memory, up to profile files that could not be
\* deleted, the default profile that loading adds when there is none, and an active
\* profile the focus watcher chose.
CleanMeansSaved ==
  (pc = "idle" /\ saveState = "Clean" /\ ~Asked /\ unasked = 0) =>
    /\ \A n \in Names \ kept :
         cfg.profiles[n] \in {disk.profiles[n], Loaded(disk).profiles[n]}
    /\ auto \/ disk.active = cfg.active

\* The user took profile id out, or gave a name it had to another profile, or it became
\* two.
Forfeited(id) ==
  id \in removed \/ \E n \in Names : id \in holders[n] /\ holders[n] # {id}

\* Whatever write fails and whenever the process dies, a profile that was once saved is
\* on disk under some name, at least as recent as it was, unless it was forfeited.
SavedProfilesSurvive ==
  \A n \in Names : LET p == durable[n] IN
    \/ p = None \/ Forfeited(p.id)
    \/ \E m \in Names : disk.profiles[m].id = p.id /\ disk.profiles[m].rev >= p.rev

\* Every requested version is saved in the end, through failed saves and requests that
\* come during a save, unless the daemon stops.
EveryRequestSaved ==
  \A v \in 1..MaxEdits : (requested = v) ~> (saved >= v \/ shutdown \/ requested < v)

\* Told to stop, the worker flushes and exits, as run_daemon says it does.
ShutdownFlushes == shutdown ~> (pc = "done" \/ ~shutdown)
=============================================================================
