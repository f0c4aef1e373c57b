-------------------------- MODULE ConfigSaveProofs --------------------------
(* What holds of the configuration and its saves, for any profile names and    *)
(* any number of changes, failures and crashes: types, what the shutdown flush  *)
(* covers, that a worker at rest has saved, and that saved profiles survive.    *)
EXTENDS ConfigSave, TLAPS

Writing == {"main", "profiles", "prune"}

----------------------------------------------------------------------------
(* Identities: where they are, that they are not shared, and what becomes of  *)
(* them.                                                                     *)

\* The profiles at n are ones n has had, and not newer than the last change.
Known(P) ==
  \A n \in Names : /\ P[n].id \in holders[n] \cup {0} /\ P[n].rev <= edits
                   /\ P[n].id = 0 => P[n] = None
FirstAtDefault(P) == \A n \in Names : P[n].id = 1 => n = Default
Apart(P) == \A n, m \in Names : P[n].id = P[m].id => n = m \/ P[n].id \in removed \cup {0}

IdInv ==
  /\ edits >= 1
  /\ Known(cfg.profiles) /\ FirstAtDefault(cfg.profiles) /\ Apart(cfg.profiles)
  /\ Known(copy.profiles) /\ FirstAtDefault(copy.profiles) /\ Apart(copy.profiles)
  /\ Known(disk.profiles) /\ FirstAtDefault(disk.profiles)
  /\ \A n \in Names : durable[n].id = 0 => durable[n] = None

\* Histories only grow.
Grow ==
  /\ edits' \in Nat /\ edits' >= edits
  /\ removed \subseteq removed' /\ \A n \in Names : holders[n] \subseteq holders'[n]

\* The profiles of Q that are not forfeited by then are in R, as recent as in Q.
Moves(Q, R) ==
  \A n \in Names, id \in Nat : (id = Q[n].id /\ id # 0) =>
    Forfeited(id)' \/ \E m \in Names : R[m].id = id /\ R[m].rev >= Q[n].rev

\* What a use case does to the profiles.
Edits ==
  /\ Grow /\ edits' = edits + 1 /\ cfg' \in Config
  /\ \A n \in Names : cfg'.profiles[n].id # 0 => cfg'.profiles[n].id \in holders'[n]
  /\ Known(cfg.profiles)' /\ FirstAtDefault(cfg.profiles)' /\ Apart(cfg.profiles)'
  /\ Moves(cfg.profiles, cfg'.profiles)
  /\ holders' \in [Names -> SUBSET (1..edits')] /\ removed' \subseteq 1..edits'

LEMMA ConfigFacts ==
  ASSUME NEW d \in Config
  PROVE  /\ d.active \in Names /\ d.profiles \in [Names -> Profile]
         /\ \A n \in Names : d.profiles[n] \in Profile /\ d.profiles[n].id \in Nat
                             /\ d.profiles[n].rev \in Nat
BY DEF Config, Profile

\* The part of Edits that holds of whatever a use case makes of the profiles, once the
\* identities it uses are new or those of before.
LEMMA ChangeFacts ==
  ASSUME NEW after, Change(after), MemoryOK, IdInv, after \in Config,
         removed \subseteq removed', removed' \subseteq 1..edits,
         \A n \in Names :
           /\ after.profiles[n].id <= edits + 1 /\ after.profiles[n].rev <= edits + 1
           /\ after.profiles[n].id = 0 => after.profiles[n] = None
  PROVE  /\ Grow /\ edits' = edits + 1 /\ cfg' = after /\ cfg' \in Config
         /\ \A n \in Names : cfg'.profiles[n].id # 0 => cfg'.profiles[n].id \in holders'[n]
         /\ Known(cfg.profiles)'
         /\ holders' \in [Names -> SUBSET (1..edits')] /\ removed' \subseteq 1..edits'
<1>1. /\ edits' = edits + 1 /\ cfg' = after /\ edits \in Nat
      /\ holders' = [n \in Names |-> holders[n] \cup ({after.profiles[n].id} \ {0})]
  BY DEF Change, Fresh, MemoryOK
<1>2. \A n \in Names : after.profiles[n].id \in Nat /\ after.profiles[n].rev \in Nat
  BY ConfigFacts
<1>3. \A n \in Names : holders[n] \subseteq 1..edits
  BY DEF MemoryOK
<1>4. \A n \in Names : holders'[n] = holders[n] \cup ({after.profiles[n].id} \ {0})
  BY <1>1
<1>5. Grow
  BY <1>1, <1>4 DEF Grow
<1>6. holders' \in [Names -> SUBSET (1..edits')]
  <2>1. ASSUME NEW n \in Names PROVE holders[n] \cup ({after.profiles[n].id} \ {0}) \subseteq 1..edits'
    BY <1>1, <1>2, <1>3
  <2> QED
    BY <1>1, <2>1
<1>7. Known(cfg.profiles)'
  BY <1>1, <1>2, <1>4 DEF Known
<1>8. removed' \subseteq 1..edits'
  BY <1>1
<1> QED
  BY <1>1, <1>4, <1>5, <1>6, <1>7, <1>8

LEMMA KnownIds ==
  ASSUME MemoryOK, NEW P \in [Names -> Profile], Known(P)
  PROVE  \A n \in Names : P[n].id \in 0..edits /\ P[n].rev \in 0..edits
BY DEF MemoryOK, Known, Profile

LEMMA EditsMade == NamesAssumption /\ MemoryOK /\ IdInv /\ UseCase => Edits
<1> SUFFICES ASSUME NamesAssumption, MemoryOK, IdInv, UseCase PROVE Edits
  OBVIOUS
<1>c. cfg \in Config /\ edits \in Nat /\ edits >= 1
  BY DEF MemoryOK, IdInv
<1>p. /\ cfg.active \in Names /\ cfg.profiles \in [Names -> Profile]
      /\ \A n \in Names : /\ cfg.profiles[n].id \in 0..edits /\ cfg.profiles[n].rev \in 0..edits
                          /\ cfg.profiles[n].id = 0 => cfg.profiles[n] = None
  BY <1>c, ConfigFacts, KnownIds DEF IdInv, Known
<1>i. FirstAtDefault(cfg.profiles) /\ Apart(cfg.profiles)
  BY DEF IdInv
<1>r. removed \subseteq 1..edits
  BY DEF MemoryOK
<1>n. None \in Profile /\ None.id = 0 /\ None.rev = 0
  BY DEF None, Profile
<1>m. ASSUME cfg'.profiles = cfg.profiles PROVE Moves(cfg.profiles, cfg'.profiles)
  BY <1>m, <1>p DEF Moves
<1>1. ASSUME NEW n \in Names, Switch(n) \/ SwitchDirect(n) PROVE Edits
  <2> DEFINE after == [cfg EXCEPT !.active = n]
  <2>1. /\ Change(after) /\ removed' = removed
        /\ after \in Config /\ after.profiles = cfg.profiles
    BY <1>1, <1>c DEF Switch, SwitchDirect, Config
  <2> HIDE DEF after
  <2>2. /\ Grow /\ edits' = edits + 1 /\ cfg' = after /\ cfg' \in Config
        /\ \A m \in Names : cfg'.profiles[m].id # 0 => cfg'.profiles[m].id \in holders'[m]
        /\ Known(cfg.profiles)'
        /\ holders' \in [Names -> SUBSET (1..edits')] /\ removed' \subseteq 1..edits'
    BY <2>1, <1>c, <1>p, <1>r, ChangeFacts
  <2>3. cfg'.profiles = cfg.profiles
    BY <2>1, <2>2
  <2>4. FirstAtDefault(cfg.profiles)' /\ Apart(cfg.profiles)'
    BY <2>1, <2>3, <1>i DEF FirstAtDefault, Apart
  <2> QED
    BY <2>2, <2>3, <2>4, <1>m DEF Edits
<1>2. ASSUME NEW n \in Names, Add(n) PROVE Edits
  <2> DEFINE new == [id |-> Fresh, rev |-> Fresh]
             after == [active |-> n, profiles |-> [cfg.profiles EXCEPT ![n] = new]]
  <2>1. /\ Change(after) /\ removed' = removed /\ cfg.profiles[n] = None
        /\ new \in Profile /\ new.id = edits + 1 /\ new.rev = edits + 1
    BY <1>2, <1>c DEF Add, Has, Fresh, Profile
  <2>2. /\ after \in Config
        /\ \A m \in Names : after.profiles[m] = IF m = n THEN new ELSE cfg.profiles[m]
    BY <2>1, <1>p DEF Config
  <2> HIDE DEF after, new
  <2>3. /\ Grow /\ edits' = edits + 1 /\ cfg' = after /\ cfg' \in Config
        /\ \A m \in Names : cfg'.profiles[m].id # 0 => cfg'.profiles[m].id \in holders'[m]
        /\ Known(cfg.profiles)'
        /\ holders' \in [Names -> SUBSET (1..edits')] /\ removed' \subseteq 1..edits'
    BY <2>1, <2>2, <1>c, <1>p, <1>r, ChangeFacts
  <2>4. FirstAtDefault(cfg.profiles)' /\ Apart(cfg.profiles)'
    BY <2>1, <2>2, <2>3, <1>i, <1>p, <1>c DEF FirstAtDefault, Apart
  <2>5. Moves(cfg.profiles, cfg'.profiles)
    BY <2>1, <2>2, <2>3, <1>p, <1>n DEF Moves
  <2> QED
    BY <2>3, <2>4, <2>5 DEF Edits
<1>3. ASSUME NEW n \in Names, Remove(n) PROVE Edits
  <2> DEFINE after == [active |-> IF cfg.active = n THEN Default ELSE cfg.active,
                       profiles |-> [cfg.profiles EXCEPT ![n] = None]]
  <2>1. /\ Change(after) /\ removed' = removed \cup {cfg.profiles[n].id}
        /\ cfg.profiles[n].id # 0
    BY <1>3, <1>p DEF Remove, Has
  <2>2. /\ after \in Config
        /\ \A m \in Names : after.profiles[m] = IF m = n THEN None ELSE cfg.profiles[m]
    BY <1>p, <1>n, NamesAssumption DEF Config, NamesAssumption
  <2>r. removed \subseteq removed' /\ removed' \subseteq 1..edits
    <3>1. cfg.profiles[n].id \in 1..edits
      BY <2>1, <1>p, <1>c
    <3> QED
      BY <2>1, <3>1, <1>r
  <2> HIDE DEF after
  <2>3. /\ Grow /\ edits' = edits + 1 /\ cfg' = after /\ cfg' \in Config
        /\ \A m \in Names : cfg'.profiles[m].id # 0 => cfg'.profiles[m].id \in holders'[m]
        /\ Known(cfg.profiles)'
        /\ holders' \in [Names -> SUBSET (1..edits')] /\ removed' \subseteq 1..edits'
    BY <2>1, <2>2, <2>r, <1>c, <1>p, <1>n, ChangeFacts
  <2>4. FirstAtDefault(cfg.profiles)' /\ Apart(cfg.profiles)'
    BY <2>1, <2>2, <2>3, <1>i, <1>p, <1>n DEF FirstAtDefault, Apart
  <2>5. Moves(cfg.profiles, cfg'.profiles)
    BY <2>1, <2>2, <2>3, <1>p, <1>n DEF Moves, Forfeited
  <2> QED
    BY <2>3, <2>4, <2>5 DEF Edits
<1>4. ASSUME NEW old \in Names, NEW new \in Names, Rename(old, new) PROVE Edits
  <2> DEFINE after == [active |-> IF cfg.active = old THEN new ELSE cfg.active,
                       profiles |-> [cfg.profiles EXCEPT ![old] = None, ![new] = cfg.profiles[old]]]
  <2>1. /\ Change(after) /\ removed' = removed /\ old # new /\ old # Default
        /\ cfg.profiles[new] = None
    BY <1>4 DEF Rename, Has
  <2>2. /\ after \in Config
        /\ \A m \in Names : after.profiles[m] = IF m = new THEN cfg.profiles[old]
                                                ELSE IF m = old THEN None ELSE cfg.profiles[m]
    BY <2>1, <1>p, <1>n DEF Config
  <2> HIDE DEF after
  <2>3. /\ Grow /\ edits' = edits + 1 /\ cfg' = after /\ cfg' \in Config
        /\ \A m \in Names : cfg'.profiles[m].id # 0 => cfg'.profiles[m].id \in holders'[m]
        /\ Known(cfg.profiles)'
        /\ holders' \in [Names -> SUBSET (1..edits')] /\ removed' \subseteq 1..edits'
    BY <2>1, <2>2, <1>c, <1>p, <1>r, <1>n, ChangeFacts
  <2>4. FirstAtDefault(cfg.profiles)' /\ Apart(cfg.profiles)'
    BY <2>1, <2>2, <2>3, <1>i, <1>p, <1>n DEF FirstAtDefault, Apart
  <2>5. Moves(cfg.profiles, cfg'.profiles)
    BY <2>1, <2>2, <2>3, <1>p, <1>n DEF Moves
  <2> QED
    BY <2>3, <2>4, <2>5 DEF Edits
<1>5. ASSUME Edit PROVE Edits
  <2>1. PICK touched \in {{cfg.active}, {cfg.active, Default}} :
          Change([cfg EXCEPT !.profiles = [n \in Names |-> IF n \in touched THEN Edited(n) ELSE @[n]]])
    BY <1>5 DEF Edit
  <2> DEFINE after == [cfg EXCEPT !.profiles =
                        [n \in Names |-> IF n \in touched THEN Edited(n) ELSE @[n]]]
  <2>2. \A n \in Names :
          /\ Edited(n) \in Profile /\ Edited(n).rev = edits + 1
          /\ Edited(n).id = IF cfg.profiles[n] # None THEN cfg.profiles[n].id
                            ELSE IF n = Default THEN 1 ELSE edits + 1
    <3>1. FirstProfile[Default].id = 1
      BY NamesAssumption DEF FirstProfile, NoProfiles, NamesAssumption
    <3> QED
      BY <3>1, <1>p, <1>c DEF Edited, Has, Fresh, Profile
  <2>3. /\ after \in Config
        /\ \A m \in Names : after.profiles[m] = IF m \in touched THEN Edited(m) ELSE cfg.profiles[m]
    BY <2>2, <1>p, <1>c DEF Config
  <2>4. removed' = removed
    BY <1>5 DEF Edit
  <2> HIDE DEF after
  <2>5. \A m \in Names :
           /\ after.profiles[m].id <= edits + 1 /\ after.profiles[m].rev <= edits + 1
           /\ after.profiles[m].id = 0 => after.profiles[m] = None
    BY <2>2, <2>3, <1>p, <1>c
  <2>6. /\ Grow /\ edits' = edits + 1 /\ cfg' = after /\ cfg' \in Config
        /\ \A m \in Names : cfg'.profiles[m].id # 0 => cfg'.profiles[m].id \in holders'[m]
        /\ Known(cfg.profiles)'
        /\ holders' \in [Names -> SUBSET (1..edits')] /\ removed' \subseteq 1..edits'
    BY <2>1, <2>3, <2>4, <2>5, <1>r, ChangeFacts DEF after
  <2>7. FirstAtDefault(cfg.profiles)'
    BY <2>2, <2>3, <2>6, <1>i, <1>p, <1>c DEF FirstAtDefault
  <2>8. Apart(cfg.profiles)'
    BY <2>2, <2>3, <2>4, <2>6, <1>i, <1>p, <1>c, <1>n DEF FirstAtDefault, Apart
  <2>9. Moves(cfg.profiles, cfg'.profiles)
    <3>1. \A m \in Names : cfg.profiles[m].id # 0 =>
            cfg'.profiles[m].id = cfg.profiles[m].id /\ cfg'.profiles[m].rev >= cfg.profiles[m].rev
      BY <2>2, <2>3, <2>6, <1>p, <1>c, <1>n
    <3> QED
      BY <3>1 DEF Moves
  <2> QED
    BY <2>6, <2>7, <2>8, <2>9 DEF Edits
<1> QED
  BY <1>1, <1>2, <1>3, <1>4, <1>5 DEF UseCase

----------------------------------------------------------------------------
(* Types.                                                                    *)

LEMMA LoadedFacts ==
  ASSUME NamesAssumption, NEW d \in Config
  PROVE  /\ Loaded(d) \in Config /\ Loaded(d).active = d.active
         /\ \/ Loaded(d).profiles = d.profiles
            \/ /\ d.profiles = NoProfiles
               /\ \A n \in Names : Loaded(d).profiles[n] =
                    IF n = Default THEN [id |-> 1, rev |-> 1] ELSE None
BY DEF NamesAssumption, Loaded, Config, FirstProfile, NoProfiles, Profile, None

LEMMA FirstRunFacts ==
  NamesAssumption => /\ FirstRun \in Config /\ NoProfiles \in [Names -> Profile]
                     /\ \A n \in Names : FirstRun.profiles[n] = None
BY DEF NamesAssumption, FirstRun, NoProfiles, Config, Profile, None

\* A restart, which forgets what was twice on disk.
LEMMA RestartMemory ==
  NamesAssumption /\ BoundsAssumption /\ MemoryOK /\ FilesOK /\ IdInv /\ Restart
    => MemoryOK' /\ Grow /\ Moves(disk.profiles, cfg'.profiles)
       /\ Known(cfg.profiles)' /\ FirstAtDefault(cfg.profiles)' /\ Apart(cfg.profiles)'
<1> SUFFICES ASSUME NamesAssumption, BoundsAssumption, MemoryOK, FilesOK, IdInv, Restart
             PROVE  /\ MemoryOK' /\ Grow /\ Moves(disk.profiles, cfg'.profiles)
                    /\ Known(cfg.profiles)' /\ FirstAtDefault(cfg.profiles)' /\ Apart(cfg.profiles)'
  OBVIOUS
<1> DEFINE P == disk.profiles
<1>1. /\ cfg' = Loaded(disk) /\ edits' = edits /\ unasked' = 0 /\ auto' = FALSE
      /\ removed' = removed \cup ({P[n].id : n \in Twins} \ {0})
      /\ holders' = [n \in Names |-> holders[n] \cup ({cfg'.profiles[n].id} \ {0})]
  BY DEF Restart, Reborn
<1>2. /\ edits \in Nat /\ edits >= 1 /\ removed \subseteq 1..edits /\ disk \in Config
      /\ \A n \in Names : holders[n] \subseteq 1..edits
  BY DEF MemoryOK, FilesOK, IdInv
<1>3. /\ P \in [Names -> Profile]
      /\ \A n \in Names : /\ P[n].id \in 0..edits /\ P[n].rev \in 0..edits
                          /\ P[n].id = 0 => P[n] = None
  BY <1>2, ConfigFacts, KnownIds DEF IdInv, Known
<1>4. /\ cfg' \in Config
      /\ \/ cfg'.profiles = P
         \/ /\ P = NoProfiles
            /\ \A n \in Names : cfg'.profiles[n] = IF n = Default THEN [id |-> 1, rev |-> 1] ELSE None
  BY <1>1, <1>2, LoadedFacts
<1>n. None.id = 0 /\ None.rev = 0
  BY DEF None
<1>5. \A n \in Names : /\ cfg'.profiles[n].id \in 0..edits /\ cfg'.profiles[n].rev \in 0..edits
                       /\ cfg'.profiles[n].id = 0 => cfg'.profiles[n] = None
  BY <1>2, <1>3, <1>4, <1>n
<1>6. \A n \in Names : holders'[n] = holders[n] \cup ({cfg'.profiles[n].id} \ {0})
  BY <1>1
<1>7. holders' \in [Names -> SUBSET (1..edits)]
  <2>1. ASSUME NEW n \in Names PROVE holders[n] \cup ({cfg'.profiles[n].id} \ {0}) \subseteq 1..edits
    BY <1>2, <1>5
  <2> QED
    BY <1>1, <2>1
<1>8. removed' \subseteq 1..edits
  <2>1. Twins \subseteq Names
    BY DEF Twins
  <2>2. \A n \in Twins : P[n].id # 0 => P[n].id \in 1..edits
    BY <2>1, <1>2, <1>3
  <2> QED
    BY <1>1, <1>2, <2>2
<1>9. MemoryOK'
  <2>1. unasked' \in 0..MaxUnasked
    BY <1>1 DEF BoundsAssumption
  <2>2. auto' \in BOOLEAN
    BY <1>1
  <2>3. edits' \in Nat /\ holders' \in [Names -> SUBSET (1..edits')] /\ removed' \subseteq 1..edits'
    BY <1>1, <1>2, <1>7, <1>8
  <2> QED
    BY <2>1, <2>2, <2>3, <1>4 DEF MemoryOK
<1>10. Grow
  BY <1>1, <1>2, <1>6 DEF Grow
<1>11. Known(cfg.profiles)'
  BY <1>1, <1>5, <1>6 DEF Known
<1>12. FirstAtDefault(cfg.profiles)'
  BY <1>4, <1>n DEF IdInv, FirstAtDefault
<1>13. Apart(cfg.profiles)'
  <2>1. CASE cfg'.profiles = P
    <3>1. ASSUME NEW n \in Names, NEW m \in Names, P[n].id = P[m].id, n # m, P[n].id # 0
          PROVE  P[n].id \in removed'
      BY <3>1, <1>1 DEF Twins
    <3> QED
      BY <2>1, <3>1 DEF Apart
  <2>2. CASE ~(cfg'.profiles = P)
    BY <2>2, <1>4, <1>n DEF Apart
  <2> QED
    BY <2>1, <2>2
<1>14. Moves(P, cfg'.profiles)
  <2>1. CASE cfg'.profiles = P
    BY <2>1, <1>3 DEF Moves
  <2>2. CASE P = NoProfiles
    BY <2>2, <1>n DEF Moves, NoProfiles
  <2> QED
    BY <2>1, <2>2, <1>4
<1> QED
  BY <1>9, <1>10, <1>11, <1>12, <1>13, <1>14

LEMMA MemoryStep ==
  NamesAssumption /\ BoundsAssumption /\ TypeOK /\ IdInv /\ [Next]_vars => MemoryOK'
<1> SUFFICES ASSUME NamesAssumption, BoundsAssumption, TypeOK, IdInv, [Next]_vars PROVE MemoryOK'
  OBVIOUS
<1>b. MaxUnasked \in Nat /\ MemoryOK
  BY DEF BoundsAssumption, TypeOK
<1>n. UNCHANGED memory => MemoryOK'
  BY <1>b DEF MemoryOK, memory
<1>1. CASE UseCase
  <2>1. unasked' \in 0..MaxUnasked
    <3>1. unasked < MaxUnasked /\ unasked' \in {unasked, unasked + 1}
      BY <1>1 DEF UseCase, Switch, SwitchDirect, Add, Remove, Rename, Edit, Change
    <3> QED
      BY <3>1, <1>b DEF MemoryOK
  <2>2. auto' \in BOOLEAN
    BY <1>1, <1>b DEF MemoryOK, UseCase, Switch, SwitchDirect, Add, Remove, Rename, Edit
  <2>3. Edits
    BY <1>1, EditsMade DEF TypeOK
  <2> QED
    BY <2>1, <2>2, <2>3 DEF MemoryOK, Edits, Grow
<1>2. CASE RequestSave
  BY <1>2, <1>b DEF MemoryOK, RequestSave
<1>3. CASE SaveWorker
  BY <1>3, <1>n DEF SaveWorker, Start, WakeUp, StopIdle, Debounced, DebounceMore, StopDebounce, Take,
     Save, CloneConfig, WriteMain, WrittenAll, Saved, WriteProfile, Prune, RetryTimer, RetryRequest,
     RetryStop, FlushNothing, Flush, Goto
<1>4. CASE Failure
  BY <1>4, <1>n DEF Failure, FailWrite, Failing, FailPrune, Goto
<1>5. CASE Shutdown \/ UNCHANGED vars
  BY <1>5, <1>n DEF Shutdown, vars, memory
<1>6. CASE Restart
  BY <1>6, RestartMemory DEF TypeOK
<1> QED
  BY <1>1, <1>2, <1>3, <1>4, <1>5, <1>6 DEF Next

LEMMA WorkerStep == WorkerOK /\ [Next]_vars => WorkerOK'
<1> SUFFICES ASSUME WorkerOK, [Next]_vars PROVE WorkerOK'
  OBVIOUS
<1> USE DEF WorkerOK, Places, SaveStates
<1>1. CASE UseCase
  <2>1. UNCHANGED <<saveState, pc, worker, daemon>>
    BY <1>1 DEF UseCase, Switch, SwitchDirect, Add, Remove, Rename, Edit
  <2> QED
    BY <2>1 DEF worker, daemon
<1>2. CASE RequestSave
  BY <1>2 DEF RequestSave, worker, daemon
<1>3. CASE Start \/ WakeUp \/ StopIdle \/ Debounced \/ DebounceMore \/ StopDebounce \/ Take
  BY <1>3 DEF Start, WakeUp, StopIdle, Debounced, DebounceMore, StopDebounce, Take, Goto, daemon, worker
<1>4. CASE Save
  BY <1>4 DEF Save, CloneConfig, WriteMain, WrittenAll, Saved, WriteProfile, Prune, Goto, daemon
<1>5. CASE RetryTimer \/ RetryRequest \/ RetryStop \/ FlushNothing \/ Flush
  BY <1>5 DEF RetryTimer, RetryRequest, RetryStop, AfterRetry, FlushNothing, Flush, Goto, daemon, worker
<1>6. CASE Failure
  BY <1>6 DEF Failure, FailWrite, Failing, FailPrune, Goto, daemon
<1>7. CASE Shutdown \/ Restart
  BY <1>7 DEF Shutdown, Restart, Reborn, worker
<1>8. CASE UNCHANGED vars
  BY <1>8 DEF vars
<1> QED
  BY <1>1, <1>2, <1>3, <1>4, <1>5, <1>6, <1>7, <1>8 DEF Next, SaveWorker

LEMMA VersionsStep == VersionsOK /\ [Next]_vars => VersionsOK'
<1> SUFFICES ASSUME VersionsOK, [Next]_vars PROVE VersionsOK'
  OBVIOUS
<1> USE DEF VersionsOK
<1>n. UNCHANGED <<requested, seen, saved, version, early, covered, covering, owed>> => VersionsOK'
  OBVIOUS
<1>1. CASE UseCase
  <2>1. UNCHANGED <<requested, worker, ghosts>>
    BY <1>1 DEF UseCase, Switch, SwitchDirect, Add, Remove, Rename, Edit
  <2> QED
    BY <2>1, <1>n DEF worker, ghosts
<1>2. CASE RequestSave
  BY <1>2 DEF RequestSave, worker, ghosts
<1>3. CASE Start
  BY <1>3 DEF Start, Goto
<1>4. CASE WakeUp \/ StopIdle \/ Debounced \/ DebounceMore \/ StopDebounce
  BY <1>4 DEF WakeUp, StopIdle, Debounced, DebounceMore, StopDebounce, Goto, worker, ghosts
<1>5. CASE Take \/ CloneConfig
  BY <1>5 DEF Take, CloneConfig, Goto, ghosts
<1>6. CASE WriteMain \/ WrittenAll \/ \E n \in Names : WriteProfile(n) \/ Prune(n)
  BY <1>6, <1>n DEF WriteMain, WrittenAll, WriteProfile, Prune, Goto, ghosts
<1>7. CASE Saved
  <2>1. UNCHANGED <<requested, seen, version, early, covering, owed>> /\ covered' = covering
        /\ saved' \in {saved, version}
    BY <1>7 DEF Saved, Goto
  <2> QED
    BY <2>1
<1>8. CASE RetryTimer \/ RetryRequest \/ RetryStop \/ FlushNothing \/ Flush
  BY <1>8 DEF RetryTimer, RetryRequest, RetryStop, FlushNothing, Flush, Goto, worker, ghosts
<1>9. CASE Failure
  BY <1>9, <1>n DEF Failure, FailWrite, Failing, FailPrune, Goto, ghosts
<1>10. CASE Shutdown
  BY <1>10, <1>n DEF Shutdown, worker, ghosts
<1>11. CASE Restart
  BY <1>11 DEF Restart, Reborn
<1>12. CASE UNCHANGED vars
  BY <1>12, <1>n DEF vars
<1> QED
  BY <1>1, <1>2, <1>3, <1>4, <1>5, <1>6, <1>7, <1>8, <1>9, <1>10, <1>11, <1>12
     DEF Next, SaveWorker, Save

LEMMA FilesStep ==
  NamesAssumption /\ BoundsAssumption /\ TypeOK /\ [Next]_vars => FilesOK'
<1> SUFFICES ASSUME NamesAssumption, BoundsAssumption, TypeOK, [Next]_vars PROVE FilesOK'
  OBVIOUS
<1>b. FilesOK /\ MaxFailures \in Nat /\ MaxCrashes \in Nat /\ cfg \in Config
  BY DEF BoundsAssumption, TypeOK, MemoryOK
<1>n. UNCHANGED <<copy, todo, files, durable, crashes>> => FilesOK'
  BY <1>b DEF FilesOK, files
<1>p. \A d \in Config, n \in Names, q \in Profile : [d EXCEPT !.profiles[n] = q] \in Config
  BY DEF Config
<1>o. None \in Profile
  BY DEF None, Profile
<1>1. CASE UseCase
  <2>1. UNCHANGED <<worker, files, ghosts, daemon>>
    BY <1>1 DEF UseCase, Switch, SwitchDirect, Add, Remove, Rename, Edit
  <2> QED
    BY <2>1, <1>n DEF worker, ghosts, daemon
<1>2. CASE RequestSave
  BY <1>2, <1>n DEF RequestSave, worker, ghosts, daemon
<1>3. CASE Start \/ WakeUp \/ StopIdle \/ Debounced \/ DebounceMore \/ StopDebounce \/ Take
  BY <1>3, <1>n DEF Start, WakeUp, StopIdle, Debounced, DebounceMore, StopDebounce, Take, Goto,
     worker, ghosts, daemon
<1>4. CASE CloneConfig
  BY <1>4, <1>b DEF CloneConfig, FilesOK, Goto, files, daemon
<1>5. CASE WriteMain
  <2>1. disk' \in Config
    BY <1>5, <1>b DEF WriteMain, FilesOK, Config
  <2> QED
    BY <1>5, <2>1, <1>b DEF WriteMain, FilesOK, Goto, ghosts, daemon
<1>6. ASSUME NEW n \in Names, WriteProfile(n) PROVE FilesOK'
  <2>1. disk' \in Config
    <3>1. copy.profiles[n] \in Profile /\ disk \in Config
      BY <1>b DEF FilesOK, Config
    <3> QED
      BY <1>6, <3>1, <1>p DEF WriteProfile
  <2> QED
    BY <1>6, <2>1, <1>b DEF WriteProfile, FilesOK, Goto, ghosts, daemon
<1>7. CASE WrittenAll
  BY <1>7, <1>b DEF WrittenAll, FilesOK, Goto, files, ghosts, daemon
<1>8. ASSUME NEW n \in Names, Prune(n) PROVE FilesOK'
  <2>1. disk' \in Config
    BY <1>8, <1>b, <1>p, <1>o DEF Prune, FilesOK
  <2> QED
    BY <1>8, <2>1, <1>b DEF Prune, FilesOK, Goto, ghosts, daemon
<1>9. CASE Saved
  BY <1>9, <1>b DEF Saved, FilesOK, Goto, files, daemon, Config
<1>10. CASE RetryTimer \/ RetryRequest \/ RetryStop \/ FlushNothing \/ Flush
  BY <1>10, <1>n DEF RetryTimer, RetryRequest, RetryStop, FlushNothing, Flush, Goto, worker, ghosts,
     daemon
<1>11. CASE FailWrite
  <2>1. disk' = disk
    <3>1. disk' = [disk EXCEPT !.profiles = [n \in Names |-> IF n \in {} THEN None ELSE @[n]]]
      BY <1>11 DEF FailWrite, Failing
    <3> QED
      BY <3>1, <1>b DEF FilesOK, Config
  <2> QED
    BY <1>11, <2>1, <1>b DEF FailWrite, Failing, FilesOK, Goto, ghosts, daemon
<1>12. ASSUME NEW n \in Names, FailPrune(n) PROVE FilesOK'
  BY <1>12, <1>b DEF FailPrune, FilesOK, Goto, ghosts, daemon
<1>13. CASE Shutdown
  BY <1>13, <1>n DEF Shutdown, worker, ghosts
<1>14. CASE Restart
  BY <1>14, <1>b, FirstRunFacts DEF Restart, Reborn, FilesOK
<1>15. CASE UNCHANGED vars
  BY <1>15, <1>n DEF vars, files
<1> QED
  BY <1>1, <1>2, <1>3, <1>4, <1>5, <1>6, <1>7, <1>8, <1>9, <1>10, <1>11, <1>12, <1>13, <1>14, <1>15
     DEF Next, SaveWorker, Save, Failure

----------------------------------------------------------------------------
(* What the shutdown flush covers.                                           *)

\* A save covers what was requested before it copied the configuration, and what the
\* worker takes for saved is covered, or was requested before its first poll.
FlushInv ==
  /\ pc \in Writing => version <= covering /\ saved <= covering /\ (final => owed <= covering)
  /\ saved <= covered \/ saved <= early
  /\ NewestFlushed

LEMMA FlushStep == TypeOK /\ FlushInv /\ [Next]_vars => FlushInv'
<1> SUFFICES ASSUME TypeOK, FlushInv, [Next]_vars PROVE FlushInv'
  OBVIOUS
<1>v. /\ requested \in Nat
      /\ {seen, saved, version, early, covered, covering, owed} \subseteq 0..requested
  BY DEF TypeOK, VersionsOK
<1>f. final \in BOOLEAN
  BY DEF TypeOK, WorkerOK
<1> USE DEF FlushInv, NewestFlushed, Writing
<1>n. UNCHANGED <<pc, saveState, version, saved, final, owed, covering, covered, early>> => FlushInv'
  OBVIOUS
<1>o. (pc' \in {"idle", "debounce", "take", "clone", "flush", "retry", "panicked"}
         /\ UNCHANGED <<saved, covered, early>>) => FlushInv'
  OBVIOUS
<1>1. CASE UseCase
  <2>1. UNCHANGED <<pc, saveState, worker, ghosts>>
    BY <1>1 DEF UseCase, Switch, SwitchDirect, Add, Remove, Rename, Edit
  <2> QED
    BY <2>1, <1>n DEF worker, ghosts
<1>2. CASE RequestSave
  BY <1>2, <1>n DEF RequestSave, worker, ghosts
<1>3. CASE Start
  BY <1>3, <1>v DEF Start, Goto
<1>4. CASE WakeUp \/ StopIdle \/ Debounced \/ DebounceMore \/ StopDebounce \/ Take
  BY <1>4, <1>o DEF WakeUp, StopIdle, Debounced, DebounceMore, StopDebounce, Take, Goto, worker, ghosts
<1>5. CASE CloneConfig
  BY <1>5, <1>v DEF CloneConfig, Goto
<1>6. CASE WriteMain \/ WrittenAll \/ \E n \in Names : WriteProfile(n) \/ Prune(n) \/ FailPrune(n)
  BY <1>6 DEF WriteMain, WrittenAll, WriteProfile, Prune, FailPrune, Goto, ghosts
<1>7. CASE Saved
  <2>1. /\ pc = "prune" /\ covered' = covering /\ UNCHANGED <<version, final, owed, early, covering>>
        /\ \/ final /\ pc' = "done" /\ saved' = saved
           \/ pc' \in {"idle", "take"} /\ saved' = version
    BY <1>7 DEF Saved, Goto
  <2> QED
    BY <2>1, <1>v
<1>8. CASE RetryTimer \/ RetryRequest \/ RetryStop
  BY <1>8, <1>o DEF RetryTimer, RetryRequest, RetryStop, AfterRetry, Goto, worker, ghosts
<1>9. CASE FlushNothing
  BY <1>9, <1>v DEF FlushNothing, Goto, ghosts
<1>10. CASE Flush
  BY <1>10, <1>o DEF Flush, Goto, ghosts
<1>11. CASE FailWrite
  BY <1>11 DEF FailWrite, Failing, Goto, ghosts
<1>12. CASE Shutdown
  BY <1>12, <1>n DEF Shutdown, worker, ghosts
<1>13. CASE Restart
  BY <1>13 DEF Restart, Reborn
<1>14. CASE UNCHANGED vars
  BY <1>14, <1>n DEF vars
<1> QED
  BY <1>1, <1>2, <1>3, <1>4, <1>5, <1>6, <1>7, <1>8, <1>9, <1>10, <1>11, <1>12, <1>13, <1>14
     DEF Next, SaveWorker, Save, Failure

----------------------------------------------------------------------------
(* Identities, and what a save has written.                                  *)

\* Which files already are the copy's; in the end the others are gone or could not be
\* deleted.
WrittenInv ==
  /\ pc = "profiles" =>
       \A n \in Names : /\ n \in todo => copy.profiles[n] # None
                        /\ copy.profiles[n] # None => n \in todo \/ disk.profiles[n] = copy.profiles[n]
  /\ pc = "prune" =>
       \A n \in Names : IF copy.profiles[n] # None
                        THEN n \notin todo /\ disk.profiles[n] = copy.profiles[n]
                        ELSE n \in todo \cup kept \/ disk.profiles[n] = None
  /\ pc \in {"profiles", "prune"} => disk.active = copy.active

LEMMA DiskFacts ==
  ASSUME NEW d \in Config, NEW n \in Names, NEW q
  PROVE  /\ [d EXCEPT !.profiles[n] = q].active = d.active
         /\ \A m \in Names :
              [d EXCEPT !.profiles[n] = q].profiles[m] = IF m = n THEN q ELSE d.profiles[m]
BY DEF Config

LEMMA WrittenStep == TypeOK /\ WrittenInv /\ [Next]_vars => WrittenInv'
<1> SUFFICES ASSUME TypeOK, WrittenInv, [Next]_vars PROVE WrittenInv'
  OBVIOUS
<1>t. disk \in Config /\ copy \in Config /\ todo \subseteq Names
  BY DEF TypeOK, FilesOK
<1> USE DEF WrittenInv
<1>n. UNCHANGED <<pc, copy, todo, disk, kept>> => WrittenInv'
  OBVIOUS
<1>o. pc' \notin {"profiles", "prune"} => WrittenInv'
  OBVIOUS
<1>1. CASE UseCase
  <2>1. UNCHANGED <<pc, worker, files>>
    BY <1>1 DEF UseCase, Switch, SwitchDirect, Add, Remove, Rename, Edit
  <2> QED
    BY <2>1, <1>n DEF worker, files
<1>2. CASE RequestSave \/ Shutdown
  BY <1>2, <1>n DEF RequestSave, Shutdown, worker, files
<1>3. CASE Start \/ WakeUp \/ StopIdle \/ Debounced \/ DebounceMore \/ StopDebounce \/ Take
           \/ CloneConfig
  BY <1>3, <1>o DEF Start, WakeUp, StopIdle, Debounced, DebounceMore, StopDebounce, Take, CloneConfig,
     Goto
<1>4. CASE WriteMain
  BY <1>4, <1>t DEF WriteMain, Goto, Has, Config
<1>5. ASSUME NEW n \in Names, WriteProfile(n) PROVE WrittenInv'
  <2>1. /\ pc = "profiles" /\ pc' = pc /\ n \in todo /\ todo' = todo \ {n} /\ copy' = copy
        /\ disk'.active = disk.active
        /\ \A m \in Names : disk'.profiles[m] = IF m = n THEN copy.profiles[n] ELSE disk.profiles[m]
    <3> DEFINE q == copy.profiles[n]
    <3>1. disk' = [disk EXCEPT !.profiles[n] = q]
      BY <1>5 DEF WriteProfile
    <3> HIDE DEF q
    <3>2. disk'.active = disk.active /\ \A m \in Names :
            disk'.profiles[m] = IF m = n THEN q ELSE disk.profiles[m]
      BY <3>1, <1>t, DiskFacts
    <3> QED
      BY <1>5, <3>2 DEF WriteProfile, Goto, q
  <2> QED
    BY <2>1
<1>6. CASE WrittenAll
  BY <1>6 DEF WrittenAll, Goto, Has, files
<1>7. ASSUME NEW n \in Names, Prune(n) PROVE WrittenInv'
  <2>1. /\ pc = "prune" /\ pc' = pc /\ n \in todo /\ todo' = todo \ {n} /\ copy' = copy
        /\ kept' = kept \ {n} /\ disk'.active = disk.active
        /\ \A m \in Names : disk'.profiles[m] = IF m = n THEN None ELSE disk.profiles[m]
    BY <1>7, <1>t, DiskFacts DEF Prune, Goto
  <2> QED
    BY <2>1
<1>8. ASSUME NEW n \in Names, FailPrune(n) PROVE WrittenInv'
  BY <1>8 DEF FailPrune, Goto
<1>9. CASE Saved \/ RetryTimer \/ RetryRequest \/ RetryStop \/ FlushNothing \/ Flush \/ FailWrite
  BY <1>9, <1>o DEF Saved, RetryTimer, RetryRequest, RetryStop, AfterRetry, FlushNothing, Flush,
     FailWrite, Failing, Goto
<1>10. CASE Restart
  BY <1>10, <1>o DEF Restart, Reborn
<1>11. CASE UNCHANGED vars
  BY <1>11, <1>n DEF vars
<1> QED
  BY <1>1, <1>2, <1>3, <1>4, <1>5, <1>6, <1>7, <1>8, <1>9, <1>10, <1>11
     DEF Next, SaveWorker, Save, Failure

\* The disk and the copy keep their places when the histories grow.
LEMMA KnownStays ==
  ASSUME TypeOK, IdInv, Grow, UNCHANGED <<copy, disk, durable>>
  PROVE  /\ edits' >= 1
         /\ Known(copy.profiles)' /\ FirstAtDefault(copy.profiles)' /\ Apart(copy.profiles)'
         /\ Known(disk.profiles)' /\ FirstAtDefault(disk.profiles)'
         /\ \A n \in Names : durable'[n].id = 0 => durable'[n] = None
<1>1. /\ edits \in Nat /\ edits >= 1 /\ edits' \in Nat /\ edits' >= edits
      /\ removed \subseteq removed' /\ \A n \in Names : holders[n] \subseteq holders'[n]
  BY DEF TypeOK, MemoryOK, IdInv, Grow
<1>2. \A n \in Names : copy.profiles[n].rev \in Nat /\ disk.profiles[n].rev \in Nat
  BY ConfigFacts DEF TypeOK, FilesOK
<1>3. edits' >= 1
  BY <1>1
<1>4. Known(copy.profiles)'
  BY <1>1, <1>2 DEF IdInv, Known
<1>5. Known(disk.profiles)'
  BY <1>1, <1>2 DEF IdInv, Known
<1>6. FirstAtDefault(copy.profiles)' /\ FirstAtDefault(disk.profiles)'
  BY DEF IdInv, FirstAtDefault
<1>7. Apart(copy.profiles)'
  BY <1>1 DEF IdInv, Apart
<1>8. \A n \in Names : durable'[n].id = 0 => durable'[n] = None
  BY DEF IdInv
<1> QED
  BY <1>3, <1>4, <1>5, <1>6, <1>7, <1>8

LEMMA IdStep ==
  NamesAssumption /\ BoundsAssumption /\ TypeOK /\ IdInv /\ WrittenInv /\ [Next]_vars => IdInv'
<1> SUFFICES ASSUME NamesAssumption, BoundsAssumption, TypeOK, IdInv, WrittenInv, [Next]_vars
             PROVE  IdInv'
  OBVIOUS
<1>t. /\ MemoryOK /\ FilesOK /\ disk \in Config /\ copy \in Config /\ cfg \in Config
  BY DEF TypeOK, FilesOK, MemoryOK
<1>n. UNCHANGED <<edits, holders, removed, cfg, copy, disk, durable>> => IdInv'
  BY DEF IdInv, Known, FirstAtDefault, Apart
<1>o. None.id = 0 /\ None.rev = 0
  BY DEF None
<1>1. CASE UseCase
  <2>1. UNCHANGED <<worker, files, ghosts>>
    BY <1>1 DEF UseCase, Switch, SwitchDirect, Add, Remove, Rename, Edit
  <2>2. Edits
    BY <1>1, <1>t, EditsMade
  <2> QED
    BY <2>1, <2>2, KnownStays DEF Edits, IdInv, worker, files, ghosts
<1>2. CASE RequestSave \/ Shutdown
  BY <1>2, <1>n DEF RequestSave, Shutdown, memory, worker, files, ghosts
<1>3. CASE Start \/ WakeUp \/ StopIdle \/ Debounced \/ DebounceMore \/ StopDebounce \/ Take
           \/ WrittenAll \/ RetryTimer \/ RetryRequest \/ RetryStop \/ FlushNothing \/ Flush
           \/ \E n \in Names : FailPrune(n)
  BY <1>3, <1>n DEF Start, WakeUp, StopIdle, Debounced, DebounceMore, StopDebounce, Take, WrittenAll,
     RetryTimer, RetryRequest, RetryStop, FlushNothing, Flush, FailPrune, Goto, memory, worker, files,
     ghosts
<1>4. CASE CloneConfig
  BY <1>4 DEF CloneConfig, Goto, memory, files, IdInv, Known, FirstAtDefault, Apart
<1>5. CASE WriteMain
  <2>1. /\ disk'.profiles = disk.profiles
        /\ UNCHANGED <<edits, holders, removed, cfg, copy, durable>>
    BY <1>5, <1>t DEF WriteMain, Goto, memory, ghosts, Config
  <2> QED
    BY <2>1 DEF IdInv, Known, FirstAtDefault, Apart
<1>6. ASSUME NEW n \in Names, WriteProfile(n) PROVE IdInv'
  <2>1. /\ UNCHANGED <<edits, holders, removed, cfg, copy, durable>>
        /\ \A m \in Names : disk'.profiles[m] \in {copy.profiles[m], disk.profiles[m]}
    <3> DEFINE q == copy.profiles[n]
    <3>1. disk' = [disk EXCEPT !.profiles[n] = q]
      BY <1>6 DEF WriteProfile
    <3> HIDE DEF q
    <3>2. \A m \in Names : disk'.profiles[m] = IF m = n THEN q ELSE disk.profiles[m]
      BY <3>1, <1>t, DiskFacts
    <3> QED
      BY <1>6, <3>2 DEF WriteProfile, Goto, memory, ghosts, q
  <2>2. Known(disk.profiles)' /\ FirstAtDefault(disk.profiles)'
    BY <2>1 DEF IdInv, Known, FirstAtDefault
  <2> QED
    BY <2>1, <2>2 DEF IdInv, Known, FirstAtDefault, Apart
<1>7. ASSUME NEW n \in Names, Prune(n) PROVE IdInv'
  <2>1. /\ UNCHANGED <<edits, holders, removed, cfg, copy, durable>>
        /\ \A m \in Names : disk'.profiles[m] = IF m = n THEN None ELSE disk.profiles[m]
    BY <1>7, <1>t, DiskFacts DEF Prune, Goto, memory, ghosts
  <2>2. Known(disk.profiles)' /\ FirstAtDefault(disk.profiles)'
    BY <2>1, <1>t, <1>o DEF IdInv, Known, FirstAtDefault, MemoryOK
  <2> QED
    BY <2>1, <2>2 DEF IdInv, Known, FirstAtDefault, Apart
<1>8. CASE Saved
  <2>1. /\ UNCHANGED <<edits, holders, removed, cfg, copy, disk>> /\ durable' = copy.profiles
    BY <1>8 DEF Saved, Goto, memory, files
  <2> QED
    BY <2>1 DEF IdInv, Known, FirstAtDefault, Apart
<1>9. CASE FailWrite
  <2>1. disk' = [disk EXCEPT !.profiles = [n \in Names |-> IF n \in {} THEN None ELSE @[n]]]
    BY <1>9 DEF FailWrite, Failing
  <2>2. disk' = disk
    BY <2>1, <1>t DEF Config
  <2> QED
    BY <1>9, <2>2, <1>n DEF FailWrite, Failing, Goto, memory, ghosts
<1>10. CASE Restart
  <2>1. /\ Grow /\ Known(cfg.profiles)' /\ FirstAtDefault(cfg.profiles)' /\ Apart(cfg.profiles)'
    BY <1>10, <1>t, RestartMemory
  <2>2. UNCHANGED <<edits, disk, durable>> /\ copy' = FirstRun
    BY <1>10 DEF Restart, Reborn
  <2>3. \A n \in Names : copy'.profiles[n] = None
    BY <2>2, FirstRunFacts
  <2>4. Known(copy.profiles)' /\ FirstAtDefault(copy.profiles)' /\ Apart(copy.profiles)'
    BY <2>2, <2>3, <1>o, <1>t DEF Known, FirstAtDefault, Apart, MemoryOK, IdInv
  <2>5. Known(disk.profiles)' /\ FirstAtDefault(disk.profiles)'
    BY <2>1, <2>2 DEF IdInv, Known, FirstAtDefault, Grow
  <2> QED
    BY <2>1, <2>2, <2>4, <2>5 DEF IdInv
<1>11. CASE UNCHANGED vars
  BY <1>11, <1>n DEF vars
<1> QED
  BY <1>1, <1>2, <1>3, <1>4, <1>5, <1>6, <1>7, <1>8, <1>9, <1>10, <1>11
     DEF Next, SaveWorker, Save, Failure

----------------------------------------------------------------------------
(* Saved profiles survive.                                                   *)

\* The profiles of P that are not forfeited are in Q, as recent as in P.
Covers(P, Q) ==
  \A n \in Names, id \in Nat : (id = P[n].id /\ id # 0) =>
    Forfeited(id) \/ \E m \in Names : Q[m].id = id /\ Q[m].rev >= P[n].rev

\* What was saved is on disk, in memory, and in the copy a save is writing, whose
\* profiles are still in memory.
SurviveInv ==
  /\ Covers(durable, disk.profiles) /\ Covers(durable, cfg.profiles)
  /\ pc \in Writing => Covers(durable, copy.profiles) /\ Covers(copy.profiles, cfg.profiles)

LEMMA ForfeitsStay == Grow => \A id \in Nat : Forfeited(id) => Forfeited(id)'
BY DEF Grow, Forfeited

LEMMA Carry ==
  ASSUME Grow, NEW P \in [Names -> Profile], NEW Q \in [Names -> Profile],
         NEW R \in [Names -> Profile], Covers(P, Q), Moves(Q, R)
  PROVE  Moves(P, R)
<1> SUFFICES ASSUME NEW n \in Names, NEW id \in Nat, id = P[n].id, id # 0, ~Forfeited(id)'
             PROVE  \E k \in Names : R[k].id = id /\ R[k].rev >= P[n].rev
  BY DEF Moves
<1>1. PICK m \in Names : Q[m].id = id /\ Q[m].rev >= P[n].rev
  BY ForfeitsStay DEF Covers
<1>2. PICK k \in Names : R[k].id = id /\ R[k].rev >= Q[m].rev
  BY <1>1 DEF Moves
<1>3. P[n].rev \in Nat /\ Q[m].rev \in Nat /\ R[k].rev \in Nat
  BY DEF Profile
<1> QED
  BY <1>1, <1>2, <1>3

\* One step of memory, between two configurations and under the same files.
LEMMA MovedOn ==
  ASSUME TypeOK, Grow, SurviveInv, UNCHANGED <<copy, disk, durable>>, cfg' \in Config,
         Moves(cfg.profiles, cfg'.profiles), pc' \in Writing => pc \in Writing
  PROVE  SurviveInv'
<1>1. /\ durable \in [Names -> Profile] /\ disk.profiles \in [Names -> Profile]
      /\ copy.profiles \in [Names -> Profile] /\ cfg.profiles \in [Names -> Profile]
      /\ cfg'.profiles \in [Names -> Profile]
  BY ConfigFacts DEF TypeOK, MemoryOK, FilesOK
<1>2. Moves(disk.profiles, disk.profiles) /\ Moves(copy.profiles, copy.profiles)
  BY <1>1 DEF Moves, Profile
<1>3. Moves(durable, disk.profiles) /\ Moves(durable, cfg'.profiles)
  BY <1>1, <1>2, Carry DEF SurviveInv
<1>4. pc \in Writing => Moves(durable, copy.profiles) /\ Moves(copy.profiles, cfg'.profiles)
  BY <1>1, <1>2, Carry DEF SurviveInv
<1> QED
  BY <1>3, <1>4 DEF SurviveInv, Covers, Moves

LEMMA Steady ==
  ASSUME TypeOK, IdInv, SurviveInv, UNCHANGED <<edits, holders, removed, cfg, copy, disk, durable>>,
         pc' \in Writing => pc \in Writing
  PROVE  SurviveInv'
BY DEF SurviveInv, Covers, Forfeited

LEMMA SurviveStep ==
  NamesAssumption /\ BoundsAssumption /\ TypeOK /\ IdInv /\ WrittenInv /\ SurviveInv /\ [Next]_vars
    => SurviveInv'
<1> SUFFICES ASSUME NamesAssumption, BoundsAssumption, TypeOK, IdInv, WrittenInv, SurviveInv,
                    [Next]_vars
             PROVE  SurviveInv'
  OBVIOUS
<1>t. /\ MemoryOK /\ FilesOK /\ disk \in Config /\ copy \in Config /\ cfg \in Config
      /\ durable \in [Names -> Profile]
  BY DEF TypeOK, FilesOK, MemoryOK
<1>o. None.id = 0 /\ None.rev = 0
  BY DEF None
<1>1. CASE UseCase
  <2>1. UNCHANGED <<pc, worker, files, ghosts>>
    BY <1>1 DEF UseCase, Switch, SwitchDirect, Add, Remove, Rename, Edit
  <2>2. Edits
    BY <1>1, <1>t, EditsMade
  <2> QED
    BY <2>1, <2>2, MovedOn DEF Edits, worker, files, ghosts
<1>2. CASE RequestSave \/ Shutdown
  BY <1>2, Steady DEF RequestSave, Shutdown, memory, worker, files, ghosts
<1>3. CASE Start \/ WakeUp \/ StopIdle \/ Debounced \/ DebounceMore \/ StopDebounce \/ Take
           \/ RetryTimer \/ RetryRequest \/ RetryStop \/ FlushNothing \/ Flush
  <2>1. UNCHANGED <<edits, holders, removed, cfg, copy, disk, durable>>
    BY <1>3 DEF Start, WakeUp, StopIdle, Debounced, DebounceMore, StopDebounce, Take,
       RetryTimer, RetryRequest, RetryStop, FlushNothing, Flush, Goto, memory, worker, files, ghosts
  <2>2. pc' \in Writing => pc \in Writing
    BY <1>3 DEF Start, WakeUp, StopIdle, Debounced, DebounceMore, StopDebounce, Take,
       RetryTimer, RetryRequest, RetryStop, AfterRetry, FlushNothing, Flush, Goto, Writing
  <2> QED
    BY <2>1, <2>2, Steady
<1>4. CASE WrittenAll \/ \E n \in Names : FailPrune(n)
  BY <1>4, Steady DEF WrittenAll, FailPrune, Goto, memory, files, ghosts, Writing
<1>5. CASE CloneConfig
  <2>1. /\ UNCHANGED <<edits, holders, removed, cfg, disk, durable>> /\ copy' = cfg
    BY <1>5 DEF CloneConfig, Goto, memory, files
  <2>2. \A n \in Names : cfg.profiles[n].rev \in Nat
    BY <1>t, ConfigFacts
  <2> QED
    BY <2>1, <2>2 DEF SurviveInv, Covers, Forfeited
<1>6. CASE WriteMain
  <2>1. /\ disk'.profiles = disk.profiles /\ pc \in Writing
        /\ UNCHANGED <<edits, holders, removed, cfg, copy, durable>>
    BY <1>6, <1>t DEF WriteMain, Goto, memory, ghosts, Config, Writing
  <2> QED
    BY <2>1 DEF SurviveInv, Covers, Forfeited
<1>7. ASSUME NEW n \in Names, WriteProfile(n) PROVE SurviveInv'
  <2>1. /\ UNCHANGED <<edits, holders, removed, cfg, copy, durable>> /\ pc' = pc /\ pc = "profiles"
        /\ copy.profiles[n] # None
        /\ \A m \in Names : disk'.profiles[m] = IF m = n THEN copy.profiles[n] ELSE disk.profiles[m]
    <3> DEFINE q == copy.profiles[n]
    <3>1. disk' = [disk EXCEPT !.profiles[n] = q] /\ q # None
      BY <1>7 DEF WriteProfile, WrittenInv
    <3> HIDE DEF q
    <3>2. \A m \in Names : disk'.profiles[m] = IF m = n THEN q ELSE disk.profiles[m]
      BY <3>1, <1>t, DiskFacts
    <3> QED
      BY <1>7, <3>1, <3>2 DEF WriteProfile, Goto, memory, ghosts, q
  <2>2. ASSUME NEW k \in Names, NEW id \in Nat, id = durable[k].id, id # 0, ~Forfeited(id)
        PROVE  \E m \in Names : disk'.profiles[m].id = id /\ disk'.profiles[m].rev >= durable[k].rev
    <3>1. PICK m \in Names : disk.profiles[m].id = id /\ disk.profiles[m].rev >= durable[k].rev
      BY <2>2 DEF SurviveInv, Covers
    <3>2. CASE m # n
      BY <3>1, <3>2, <2>1
    <3>3. CASE m = n
      <4>1. copy.profiles[n].id \in holders[n] /\ id \in holders[n]
        BY <3>1, <3>3, <2>1, <2>2 DEF IdInv, Known
      <4>2. copy.profiles[n].id = id
        BY <4>1, <2>2 DEF Forfeited
      <4>3. PICK j \in Names : copy.profiles[j].id = id /\ copy.profiles[j].rev >= durable[k].rev
        BY <2>1, <2>2 DEF SurviveInv, Covers, Writing
      <4>4. j = n
        BY <4>2, <4>3, <2>2 DEF IdInv, Apart, Forfeited
      <4> QED
        BY <4>2, <4>3, <4>4, <2>1
    <3> QED
      BY <3>2, <3>3
  <2> QED
    BY <2>1, <2>2 DEF SurviveInv, Covers, Forfeited
<1>8. ASSUME NEW n \in Names, Prune(n) PROVE SurviveInv'
  <2>1. /\ UNCHANGED <<edits, holders, removed, cfg, copy, durable>> /\ pc' = pc /\ pc = "prune"
        /\ n \in todo
        /\ \A m \in Names : disk'.profiles[m] = IF m = n THEN None ELSE disk.profiles[m]
    BY <1>8, <1>t, DiskFacts DEF Prune, Goto, memory, ghosts
  <2>2. ASSUME NEW k \in Names, NEW id \in Nat, id = durable[k].id, id # 0, ~Forfeited(id)
        PROVE  \E m \in Names : disk'.profiles[m].id = id /\ disk'.profiles[m].rev >= durable[k].rev
    <3>1. PICK j \in Names : copy.profiles[j].id = id /\ copy.profiles[j].rev >= durable[k].rev
      BY <2>1, <2>2 DEF SurviveInv, Covers, Writing
    <3>2. j # n /\ disk.profiles[j] = copy.profiles[j]
      BY <3>1, <2>1, <2>2, <1>o DEF WrittenInv
    <3> QED
      BY <3>1, <3>2, <2>1
  <2> QED
    BY <2>1, <2>2 DEF SurviveInv, Covers, Forfeited
<1>9. CASE Saved
  <2>1. /\ UNCHANGED <<edits, holders, removed, cfg, copy, disk>> /\ durable' = copy.profiles
        /\ pc = "prune" /\ pc' \notin Writing /\ todo = {}
    BY <1>9 DEF Saved, Goto, memory, files, Writing
  <2>2. Covers(copy.profiles, disk.profiles)
    <3>1. \A m \in Names : copy.profiles[m].rev \in Nat
      BY <1>t, ConfigFacts
    <3>2. \A m \in Names : copy.profiles[m].id # 0 => disk.profiles[m] = copy.profiles[m]
      BY <2>1, <1>o DEF WrittenInv
    <3> QED
      BY <3>1, <3>2 DEF Covers
  <2>3. Covers(copy.profiles, cfg.profiles)
    BY <2>1 DEF SurviveInv, Writing
  <2> QED
    BY <2>1, <2>2, <2>3 DEF SurviveInv, Covers, Forfeited
<1>10. CASE FailWrite
  <2>1. disk' = [disk EXCEPT !.profiles = [n \in Names |-> IF n \in {} THEN None ELSE @[n]]]
    BY <1>10 DEF FailWrite, Failing
  <2>2. disk' = disk
    BY <2>1, <1>t DEF Config
  <2>3. pc' \in {"done", "retry", "panicked"}
    BY <1>10 DEF FailWrite, Failing, Goto
  <2> QED
    BY <1>10, <2>2, <2>3, Steady DEF FailWrite, Failing, Goto, memory, ghosts, Writing
<1>11. CASE Restart
  <2>1. Grow /\ Moves(disk.profiles, cfg'.profiles) /\ cfg' \in Config
    BY <1>11, <1>t, RestartMemory DEF MemoryOK
  <2>2. UNCHANGED <<disk, durable>> /\ pc' \notin Writing
    BY <1>11 DEF Restart, Reborn, Writing
  <2>3. /\ disk.profiles \in [Names -> Profile] /\ cfg'.profiles \in [Names -> Profile]
        /\ Moves(disk.profiles, disk.profiles)
    BY <1>t, <2>1, ConfigFacts DEF Moves
  <2>4. Moves(durable, disk.profiles) /\ Moves(durable, cfg'.profiles)
    BY <1>t, <2>1, <2>3, Carry DEF SurviveInv
  <2> QED
    BY <2>2, <2>4 DEF SurviveInv, Covers, Moves
<1>12. CASE UNCHANGED vars
  BY <1>12, Steady DEF vars
<1> QED
  BY <1>1, <1>2, <1>3, <1>4, <1>5, <1>6, <1>7, <1>8, <1>9, <1>10, <1>11, <1>12
     DEF Next, SaveWorker, Save, Failure

----------------------------------------------------------------------------
(* A worker at rest has saved.                                               *)

\* As long as no save has been asked for since, nor is about to be, the configuration is
\* the one being written, but for a switch of the focus watcher; and the one loaded, until
\* the worker starts.
CleanInv ==
  /\ (pc \in Writing /\ version = requested /\ unasked = 0) =>
       cfg.profiles = copy.profiles /\ (auto \/ cfg.active = copy.active)
  /\ pc = "start" =>
       /\ saveState = "Clean" /\ seen = 0
       /\ (requested = 0 /\ unasked = 0) =>
            cfg.profiles = Loaded(disk).profiles /\ (auto \/ cfg.active = disk.active)
  /\ pc \in {"retry", "panicked"} => saveState = "Failed"
  /\ CleanMeansSaved

LEMMA CleanStep ==
  NamesAssumption /\ TypeOK /\ WrittenInv /\ CleanInv /\ [Next]_vars => CleanInv'
<1> SUFFICES ASSUME NamesAssumption, TypeOK, WrittenInv, CleanInv, [Next]_vars PROVE CleanInv'
  OBVIOUS
<1>t. /\ disk \in Config /\ copy \in Config /\ cfg \in Config /\ unasked \in Nat /\ requested \in Nat
      /\ seen \in 0..requested /\ version \in 0..requested
  BY DEF TypeOK, MemoryOK, FilesOK, VersionsOK
<1> USE DEF CleanInv, CleanMeansSaved, Asked, Writing
<1>n. UNCHANGED <<cfg, copy, disk, kept, auto, pc, saveState, version, requested, unasked, seen>>
        => CleanInv'
  BY DEF Loaded
<1>o. /\ pc' \notin Writing \cup {"start"} /\ (pc' = "idle" => saveState' # "Clean")
      /\ pc' \in {"retry", "panicked"} => saveState' = "Failed"
      => CleanInv'
  OBVIOUS
<1>1. ASSUME UseCase, unasked' = unasked + 1 PROVE CleanInv'
  <2>1. UNCHANGED <<pc, saveState, worker>> /\ unasked' # 0
    <3>1. UNCHANGED <<pc, saveState, worker>>
      BY <1>1 DEF UseCase, Switch, SwitchDirect, Add, Remove, Rename, Edit
    <3> QED
      BY <1>1, <1>t, <3>1
  <2> QED
    BY <2>1 DEF worker
<1>2. ASSUME NEW n \in Names, SwitchDirect(n) PROVE CleanInv'
  <2>1. /\ cfg'.profiles = cfg.profiles /\ auto' = TRUE
        /\ UNCHANGED <<unasked, requested, saveState, pc, worker, files>>
    BY <1>2, <1>t DEF SwitchDirect, Change, Config
  <2> QED
    BY <2>1 DEF worker, files
<1>3. CASE RequestSave
  <2>1. /\ requested' = requested + 1
        /\ UNCHANGED <<saveState, pc, worker>>
    BY <1>3 DEF RequestSave
  <2>2. requested' # version' /\ requested' # seen' /\ requested' # 0
    BY <2>1, <1>t DEF worker
  <2> QED
    BY <2>1, <2>2 DEF worker
<1>4. CASE Start
  <2>1. /\ pc = "start" /\ pc' = "idle"
        /\ UNCHANGED <<saveState, seen, disk, kept, cfg, auto, unasked, requested>>
    BY <1>4 DEF Start, Goto, memory, files
  <2>2. \A n \in Names : Loaded(disk).profiles[n] \in {disk.profiles[n], Loaded(disk).profiles[n]}
    OBVIOUS
  <2> QED
    BY <2>1, <2>2 DEF Loaded
<1>5. CASE WakeUp \/ StopIdle \/ Debounced \/ DebounceMore \/ StopDebounce \/ Take
  BY <1>5, <1>o DEF WakeUp, StopIdle, Debounced, DebounceMore, StopDebounce, Take, Goto
<1>6. CASE CloneConfig
  BY <1>6 DEF CloneConfig, Goto, memory
<1>7. CASE WriteMain \/ WrittenAll \/ \E n \in Names : WriteProfile(n) \/ Prune(n) \/ FailPrune(n)
  <2>1. /\ pc \in Writing /\ pc' \in Writing
        /\ UNCHANGED <<cfg, copy, auto, version, requested, unasked>>
    BY <1>7 DEF WriteMain, WrittenAll, WriteProfile, Prune, FailPrune, Goto, memory
  <2> QED
    BY <2>1
<1>8. CASE Saved
  <2>1. /\ pc = "prune" /\ todo = {} /\ UNCHANGED <<cfg, auto, requested, unasked, seen, disk, kept>>
        /\ \/ pc' \in {"done", "take"}
           \/ pc' = "idle" /\ saveState' = "Clean" /\ requested = version
           \/ pc' = "idle" /\ saveState' = "DirtyWhileSaving"
    BY <1>8 DEF Saved, Goto, memory, files
  <2>2. ASSUME pc' = "idle", requested = version, unasked = 0
        PROVE  /\ \A n \in Names \ kept : cfg.profiles[n] = disk.profiles[n]
               /\ auto \/ disk.active = cfg.active
    BY <2>1, <2>2 DEF WrittenInv
  <2> QED
    BY <2>1, <2>2
<1>9. CASE RetryTimer \/ RetryRequest \/ RetryStop
  BY <1>9, <1>o DEF RetryTimer, RetryRequest, RetryStop, AfterRetry, Goto
<1>10. CASE FlushNothing \/ Flush
  BY <1>10, <1>o DEF FlushNothing, Flush, Goto
<1>11. CASE FailWrite
  BY <1>11, <1>o DEF FailWrite, Failing, Goto
<1>12. CASE Shutdown
  BY <1>12, <1>n DEF Shutdown, memory, worker, files
<1>13. CASE Restart
  <2>1. /\ pc' = "start" /\ saveState' = "Clean" /\ seen' = 0 /\ cfg' = Loaded(disk) /\ disk' = disk
    BY <1>13 DEF Restart, Reborn
  <2>2. Loaded(disk).active = disk.active
    BY <1>t, LoadedFacts
  <2> QED
    BY <2>1, <2>2 DEF Loaded
<1>14. CASE UNCHANGED vars
  BY <1>14, <1>n DEF vars
<1>15. UseCase => unasked' = unasked + 1 \/ \E n \in Names : SwitchDirect(n)
  BY DEF UseCase, Switch, Add, Remove, Rename, Edit
<1> QED
  BY <1>1, <1>2, <1>3, <1>4, <1>5, <1>6, <1>7, <1>8, <1>9, <1>10, <1>11, <1>12, <1>13, <1>14, <1>15
     DEF Next, SaveWorker, Save, Failure

----------------------------------------------------------------------------
Inv == TypeOK /\ IdInv /\ WrittenInv /\ FlushInv /\ SurviveInv /\ CleanInv

LEMMA InitInv == NamesAssumption /\ BoundsAssumption /\ Init => Inv
<1> SUFFICES ASSUME NamesAssumption, BoundsAssumption, Init PROVE Inv
  OBVIOUS
<1>o. None.id = 0 /\ None.rev = 0
  BY DEF None
<1>1. /\ FirstRun \in Config /\ Loaded(FirstRun) \in Config /\ NoProfiles \in [Names -> Profile]
      /\ FirstRun.profiles = NoProfiles /\ \A n \in Names : FirstRun.profiles[n] = None
      /\ \A n \in Names : NoProfiles[n] = None
      /\ \A n \in Names : Loaded(FirstRun).profiles[n] =
           IF n = Default THEN [id |-> 1, rev |-> 1] ELSE None
  BY FirstRunFacts DEF FirstRun, Loaded, FirstProfile, NoProfiles, NamesAssumption, Config, Profile
<1>2. \A n \in Names : holders[n] = IF n = Default THEN {1} ELSE {}
  BY DEF Init
<1>3. MemoryOK
  <2>1. unasked \in 0..MaxUnasked
    BY DEF Init, BoundsAssumption
  <2>2. auto \in BOOLEAN
    BY DEF Init
  <2>3. edits \in Nat /\ removed \subseteq 1..edits /\ holders \in [Names -> SUBSET (1..edits)]
    BY DEF Init
  <2> QED
    BY <2>1, <2>2, <2>3, <1>1 DEF MemoryOK, Init
<1>4. WorkerOK
  BY DEF Init, WorkerOK, Places, SaveStates
<1>5. VersionsOK
  BY DEF Init, VersionsOK
<1>6. FilesOK
  BY <1>1 DEF Init, FilesOK, BoundsAssumption
<1>7. IdInv
  BY <1>1, <1>2, <1>o DEF Init, IdInv, Known, FirstAtDefault, Apart
<1>8. WrittenInv /\ FlushInv
  BY DEF Init, WrittenInv, FlushInv, NewestFlushed, Writing
<1>9. SurviveInv
  BY <1>1, <1>o DEF Init, SurviveInv, Covers, Writing
<1>10. CleanInv
  BY <1>1, LoadedFacts DEF Init, CleanInv, CleanMeansSaved, Writing
<1> QED
  BY <1>3, <1>4, <1>5, <1>6, <1>7, <1>8, <1>9, <1>10 DEF Inv, TypeOK

LEMMA StepInv == NamesAssumption /\ BoundsAssumption /\ Inv /\ [Next]_vars => Inv'
BY MemoryStep, WorkerStep, VersionsStep, FilesStep, IdStep, WrittenStep, FlushStep, SurviveStep,
   CleanStep DEF Inv, TypeOK

LEMMA AlwaysInv == Spec => []Inv
BY NamesAssumption, BoundsAssumption, InitInv, StepInv, PTL DEF Spec

\* Every state of the configuration, the worker and the files is well typed, and no version
\* the worker holds is ahead of the requests.
THEOREM TypeCorrect == Spec => []TypeOK
<1>1. Inv => TypeOK
  BY DEF Inv
<1> QED
  BY AlwaysInv, <1>1, PTL

\* A worker that exits Clean has saved all that was requested before its flush, but for
\* requests older than its first poll.
THEOREM FlushIsComplete == Spec => []NewestFlushed
<1>1. Inv => NewestFlushed
  BY DEF Inv, FlushInv
<1> QED
  BY AlwaysInv, <1>1, PTL

\* When the worker rests in Clean, a restart would load the configuration in memory, but
\* for the exceptions the property names.
THEOREM RestIsSaved == Spec => []CleanMeansSaved
<1>1. Inv => CleanMeansSaved
  BY DEF Inv, CleanInv
<1> QED
  BY AlwaysInv, <1>1, PTL

\* Whatever write fails and whenever the process dies, the profiles of the last complete
\* save are on disk, unless they were forfeited.
THEOREM SavedIsKept == Spec => []SavedProfilesSurvive
<1>1. Inv => SavedProfilesSurvive
  <2> SUFFICES ASSUME Inv, NEW n \in Names, durable[n] # None, ~Forfeited(durable[n].id)
               PROVE  \E m \in Names : /\ disk.profiles[m].id = durable[n].id
                                       /\ disk.profiles[m].rev >= durable[n].rev
    BY DEF SavedProfilesSurvive
  <2>1. durable[n].id \in Nat /\ durable[n].id # 0
    BY DEF Inv, IdInv, TypeOK, FilesOK, Profile
  <2> QED
    BY <2>1 DEF Inv, SurviveInv, Covers
<1> QED
  BY AlwaysInv, <1>1, PTL
=============================================================================
