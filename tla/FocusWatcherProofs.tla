------------------------- MODULE FocusWatcherProofs -------------------------
(* Type correctness of FocusWatcher, and that the active profile exists       *)
(* whoever switches, removes and renames profiles, for any profiles, rules,   *)
(* users and capacities.                                                      *)
EXTENDS FocusWatcher, TLAPS

USE DEF FocusAssumption

Inv == TypeOK /\ ActiveExists

LEMMA InitInv == Init => Inv
<1> SUFFICES ASSUME Init PROVE Inv
  OBVIOUS
<1> USE FocusAssumption
<1>1. ConfigOK /\ ActiveExists
  BY DEF Init, Effective, ConfigOK, ActiveExists
<1>2. TasksOK
  BY DEF Init, TasksOK, Tasks
<1>3. ChannelsOK
  BY DEF Init, ChannelsOK
<1>4. WatcherOK
  BY DEF Init, WatcherOK
<1> QED
  BY <1>1, <1>2, <1>3, <1>4 DEF Inv, TypeOK

LEMMA StepInv == Inv /\ [Next]_vars => Inv'
<1> SUFFICES ASSUME Inv, [Next]_vars PROVE Inv'
  OBVIOUS
<1> USE FocusAssumption DEF Inv, TypeOK, ActiveExists, Goto, Begins, Tell, Start, Tasks,
        config, channels, watcher
<1>m. /\ \A p \in Names : Manual(p) \in Messages
      /\ RulesUpdated \in Messages /\ None \notin Messages
      /\ \A m \in Messages : m.kind = "ManualSwitch" => m.profile \in Names
  BY MessageAssumption DEF Messages, Manual, RulesUpdated
<1>e. \A p \in Names : Effective(p) \in Values
  BY DEF Effective, ConfigOK
<1>1. ASSUME NEW u \in Users, NEW p \in Names, SwitchProfile(u, p) PROVE Inv'
  <2>1. ConfigOK' /\ ActiveExists'
    BY <1>1 DEF ConfigOK, TasksOK, WatcherOK, SwitchProfile, Activate
  <2>2. TasksOK'
    BY <1>1, <1>m DEF TasksOK, ConfigOK, SwitchProfile, Activate
  <2>3. ChannelsOK'
    BY <1>1, <1>m DEF ChannelsOK, TasksOK, SwitchProfile, Activate
  <2>4. WatcherOK'
    BY <1>1, <1>m DEF WatcherOK, ConfigOK, ChannelsOK, SwitchProfile, Activate
  <2> QED
    BY <2>1, <2>2, <2>3, <2>4
<1>2. ASSUME NEW u \in Users, NEW p \in Names, AddProfile(u, p) PROVE Inv'
  <2>1. ConfigOK' /\ ActiveExists'
    BY <1>2 DEF ConfigOK, TasksOK, WatcherOK, AddProfile, Activate
  <2>2. TasksOK'
    BY <1>2, <1>m DEF TasksOK, ConfigOK, AddProfile, Activate
  <2>3. ChannelsOK'
    BY <1>2, <1>m DEF ChannelsOK, TasksOK, AddProfile, Activate
  <2>4. WatcherOK'
    BY <1>2, <1>m DEF WatcherOK, ConfigOK, ChannelsOK, AddProfile, Activate
  <2> QED
    BY <2>1, <2>2, <2>3, <2>4
<1>3. ASSUME NEW u \in Users, NEW p \in Names, RemoveProfile(u, p) PROVE Inv'
  <2>1. ConfigOK' /\ ActiveExists'
    BY <1>3 DEF ConfigOK, TasksOK, WatcherOK, RemoveProfile, Activate
  <2>2. TasksOK'
    <3>1. CASE active = p
      BY <1>3, <1>m, <3>1 DEF TasksOK, ConfigOK, RemoveProfile, Activate
    <3>2. CASE active # p
      BY <1>3, <3>2 DEF TasksOK, RemoveProfile
    <3> QED
      BY <3>1, <3>2
  <2>3. ChannelsOK'
    BY <1>3, <1>m DEF ChannelsOK, TasksOK, RemoveProfile, Activate
  <2>4. WatcherOK'
    BY <1>3, <1>m DEF WatcherOK, ConfigOK, ChannelsOK, RemoveProfile, Activate
  <2> QED
    BY <2>1, <2>2, <2>3, <2>4
<1>4. ASSUME NEW u \in Users, NEW p \in Names, NEW q \in Names, RenameProfile(u, p, q) PROVE Inv'
  <2>1. ConfigOK' /\ ActiveExists'
    BY <1>4 DEF ConfigOK, TasksOK, WatcherOK, RenameProfile
  <2>2. TasksOK'
    BY <1>4, <1>m DEF TasksOK, ConfigOK, RenameProfile
  <2>3. ChannelsOK'
    BY <1>4, <1>m DEF ChannelsOK, TasksOK, RenameProfile
  <2>4. WatcherOK'
    BY <1>4, <1>m DEF WatcherOK, ConfigOK, ChannelsOK, RenameProfile
  <2> QED
    BY <2>1, <2>2, <2>3, <2>4
<1>5. ASSUME NEW u \in Users, NEW a \in Apps, NEW p \in Names \cup {None}, SetRule(u, a, p) PROVE Inv'
  <2>1. ConfigOK' /\ ActiveExists'
    BY <1>5 DEF ConfigOK, TasksOK, WatcherOK, SetRule
  <2>2. TasksOK'
    BY <1>5, <1>m DEF TasksOK, ConfigOK, SetRule
  <2>3. ChannelsOK'
    BY <1>5, <1>m DEF ChannelsOK, TasksOK, SetRule
  <2>4. WatcherOK'
    BY <1>5, <1>m DEF WatcherOK, ConfigOK, ChannelsOK, SetRule
  <2> QED
    BY <2>1, <2>2, <2>3, <2>4
<1>6. ASSUME NEW u \in Users, NEW v \in Values, Edit(u, v) PROVE Inv'
  <2>1. ConfigOK' /\ ActiveExists'
    BY <1>6 DEF ConfigOK, TasksOK, WatcherOK, Edit
  <2>2. TasksOK'
    BY <1>6, <1>m DEF TasksOK, ConfigOK, Edit
  <2>3. ChannelsOK'
    BY <1>6, <1>m DEF ChannelsOK, TasksOK, Edit
  <2>4. WatcherOK'
    BY <1>6, <1>m DEF WatcherOK, ConfigOK, ChannelsOK, Edit
  <2> QED
    BY <2>1, <2>2, <2>3, <2>4
<1>7. ASSUME NEW t \in Tasks, ReadSaved(t) PROVE Inv'
  <2>1. ConfigOK' /\ ActiveExists'
    BY <1>7, <1>e DEF ConfigOK, TasksOK, WatcherOK, ReadSaved
  <2>2. TasksOK'
    BY <1>7, <1>m, <1>e DEF TasksOK, ConfigOK, ReadSaved
  <2>3. ChannelsOK'
    BY <1>7, <1>m DEF ChannelsOK, TasksOK, ReadSaved
  <2>4. WatcherOK'
    BY <1>7, <1>m DEF WatcherOK, ConfigOK, ChannelsOK, ReadSaved
  <2> QED
    BY <2>1, <2>2, <2>3, <2>4
<1>8. ASSUME NEW t \in Tasks, LoadState(t) PROVE Inv'
  <2>1. ConfigOK' /\ ActiveExists'
    BY <1>8 DEF ConfigOK, TasksOK, WatcherOK, LoadState
  <2>2. TasksOK'
    BY <1>8, <1>m DEF TasksOK, ConfigOK, LoadState
  <2>3. ChannelsOK'
    BY <1>8, <1>m DEF ChannelsOK, TasksOK, LoadState
  <2>4. WatcherOK'
    BY <1>8, <1>m DEF WatcherOK, ConfigOK, ChannelsOK, LoadState
  <2> QED
    BY <2>1, <2>2, <2>3, <2>4
<1>9. ASSUME NEW u \in Users, SaveState(u) PROVE Inv'
  <2>1. ConfigOK' /\ ActiveExists'
    BY <1>9 DEF ConfigOK, TasksOK, WatcherOK, SaveState
  <2>2. TasksOK'
    BY <1>9, <1>m DEF TasksOK, ConfigOK, SaveState
  <2>3. ChannelsOK'
    BY <1>9, <1>m DEF ChannelsOK, TasksOK, SaveState
  <2>4. WatcherOK'
    BY <1>9, <1>m DEF WatcherOK, ConfigOK, ChannelsOK, SaveState
  <2> QED
    BY <2>1, <2>2, <2>3, <2>4
<1>10. ASSUME NEW u \in Users, WriteState(u) PROVE Inv'
  <2>1. ConfigOK' /\ ActiveExists'
    BY <1>10 DEF ConfigOK, TasksOK, WatcherOK, WriteState
  <2>2. TasksOK'
    BY <1>10, <1>m DEF TasksOK, ConfigOK, WriteState
  <2>3. ChannelsOK'
    BY <1>10, <1>m DEF ChannelsOK, TasksOK, WriteState
  <2>4. WatcherOK'
    BY <1>10, <1>m DEF WatcherOK, ConfigOK, ChannelsOK, WriteState
  <2> QED
    BY <2>1, <2>2, <2>3, <2>4
<1>11. ASSUME NEW u \in Users, Notify(u) PROVE Inv'
  <2>1. ConfigOK' /\ ActiveExists'
    BY <1>11 DEF ConfigOK, TasksOK, WatcherOK, Notify
  <2>2. TasksOK'
    BY <1>11, <1>m DEF TasksOK, ConfigOK, Notify
  <2>3. ChannelsOK'
    BY <1>11, <1>m DEF ChannelsOK, TasksOK, Notify
  <2>4. WatcherOK'
    BY <1>11, <1>m DEF WatcherOK, ConfigOK, ChannelsOK, Notify
  <2> QED
    BY <2>1, <2>2, <2>3, <2>4
<1>12. ASSUME FocusChanges PROVE Inv'
  <2>1. ConfigOK' /\ ActiveExists'
    BY <1>12 DEF ConfigOK, TasksOK, WatcherOK, FocusChanges
  <2>2. TasksOK'
    BY <1>12, <1>m DEF TasksOK, ConfigOK, FocusChanges
  <2>3. ChannelsOK'
    BY <1>12, <1>m DEF ChannelsOK, TasksOK, FocusChanges
  <2>4. WatcherOK'
    BY <1>12, <1>m DEF WatcherOK, ConfigOK, ChannelsOK, FocusChanges
  <2> QED
    BY <2>1, <2>2, <2>3, <2>4
<1>13. ASSUME BackendDies PROVE Inv'
  <2>1. ConfigOK' /\ ActiveExists'
    BY <1>13 DEF ConfigOK, TasksOK, WatcherOK, BackendDies
  <2>2. TasksOK'
    BY <1>13, <1>m DEF TasksOK, ConfigOK, BackendDies
  <2>3. ChannelsOK'
    BY <1>13, <1>m DEF ChannelsOK, TasksOK, BackendDies
  <2>4. WatcherOK'
    BY <1>13, <1>m DEF WatcherOK, ConfigOK, ChannelsOK, BackendDies
  <2> QED
    BY <2>1, <2>2, <2>3, <2>4
<1>14. ASSUME TakeFocus PROVE Inv'
  <2>1. ConfigOK' /\ ActiveExists'
    BY <1>14 DEF ConfigOK, TasksOK, WatcherOK, TakeFocus
  <2>2. TasksOK'
    BY <1>14, <1>m DEF TasksOK, ConfigOK, TakeFocus
  <2>3. ChannelsOK'
    BY <1>14, <1>m DEF ChannelsOK, TasksOK, TakeFocus
  <2>4. WatcherOK'
    BY <1>14, <1>m DEF WatcherOK, ConfigOK, ChannelsOK, TakeFocus
  <2> QED
    BY <2>1, <2>2, <2>3, <2>4
<1>15. ASSUME TakeManual PROVE Inv'
  <2>1. ConfigOK' /\ ActiveExists'
    BY <1>15 DEF ConfigOK, TasksOK, WatcherOK, TakeManual
  <2>2. TasksOK'
    BY <1>15, <1>m DEF TasksOK, ConfigOK, TakeManual
  <2>3. ChannelsOK'
    BY <1>15, <1>m DEF ChannelsOK, TasksOK, TakeManual
  <2>4. WatcherOK'
    BY <1>15, <1>m DEF WatcherOK, ConfigOK, ChannelsOK, TakeManual
  <2> QED
    BY <2>1, <2>2, <2>3, <2>4
<1>16. ASSUME TakeRules PROVE Inv'
  <2>1. ConfigOK' /\ ActiveExists'
    BY <1>16 DEF ConfigOK, TasksOK, WatcherOK, TakeRules
  <2>2. TasksOK'
    BY <1>16, <1>m DEF TasksOK, ConfigOK, TakeRules
  <2>3. ChannelsOK'
    BY <1>16, <1>m DEF ChannelsOK, TasksOK, TakeRules
  <2>4. WatcherOK'
    BY <1>16, <1>m DEF WatcherOK, ConfigOK, ChannelsOK, TakeRules
  <2> QED
    BY <2>1, <2>2, <2>3, <2>4
<1>17. ASSUME Decide PROVE Inv'
  <2>1. ConfigOK' /\ ActiveExists'
    BY <1>17 DEF ConfigOK, TasksOK, WatcherOK, Decide, Matched
  <2>2. TasksOK'
    BY <1>17, <1>m DEF TasksOK, ConfigOK, Decide, Matched
  <2>3. ChannelsOK'
    BY <1>17, <1>m DEF ChannelsOK, TasksOK, Decide, Matched
  <2>4. WatcherOK'
    BY <1>17, <1>m DEF WatcherOK, ConfigOK, ChannelsOK, Decide, Matched
  <2> QED
    BY <2>1, <2>2, <2>3, <2>4
<1>18. ASSUME SwitchDirect PROVE Inv'
  <2>1. ConfigOK' /\ ActiveExists'
    BY <1>18 DEF ConfigOK, TasksOK, WatcherOK, SwitchDirect
  <2>2. TasksOK'
    BY <1>18, <1>m DEF TasksOK, ConfigOK, SwitchDirect
  <2>3. ChannelsOK'
    BY <1>18, <1>m DEF ChannelsOK, TasksOK, SwitchDirect
  <2>4. WatcherOK'
    BY <1>18, <1>m DEF WatcherOK, ConfigOK, ChannelsOK, SwitchDirect
  <2> QED
    BY <2>1, <2>2, <2>3, <2>4
<1>19. ASSUME Drain PROVE Inv'
  <2>1. ConfigOK' /\ ActiveExists'
    BY <1>19 DEF ConfigOK, TasksOK, WatcherOK, Drain
  <2>2. TasksOK'
    BY <1>19, <1>m DEF TasksOK, ConfigOK, Drain
  <2>3. ChannelsOK'
    BY <1>19, <1>m DEF ChannelsOK, TasksOK, Drain
  <2>4. WatcherOK'
    BY <1>19, <1>m DEF WatcherOK, ConfigOK, ChannelsOK, Drain
  <2> QED
    BY <2>1, <2>2, <2>3, <2>4
<1>20. ASSUME UNCHANGED vars PROVE Inv'
  BY <1>20 DEF vars, ConfigOK, TasksOK, ChannelsOK, WatcherOK
<1> QED
  BY <1>1, <1>2, <1>3, <1>4, <1>5, <1>6, <1>7, <1>8, <1>9, <1>10, <1>11, <1>12, <1>13, <1>14, <1>15, <1>16, <1>17, <1>18, <1>19, <1>20
     DEF Next, Begin, Continue, Load, Watch

\* The active profile exists, and so does Default, whatever the watcher and the users do.
THEOREM ActiveProfileExists == Spec => []ActiveExists
<1>1. Inv => ActiveExists
  BY DEF Inv
<1> QED
  BY InitInv, StepInv, <1>1, PTL DEF Spec

\* Every state of the configuration, the tasks, the channels and the watcher is well typed;
\* the control channel never holds more than its capacity.
THEOREM TypeCorrect == Spec => []TypeOK
<1>1. Inv => TypeOK
  BY DEF Inv
<1> QED
  BY InitInv, StepInv, <1>1, PTL DEF Spec

----------------------------------------------------------------------------
(* The baseline comes back: the watcher hears of every switch by hand, in    *)
(* ctrl or from a user who has yet to tell, before it takes its baseline for *)
(* the profile to go back to.                                                *)

IsManual(m) == m \in Messages /\ m.kind = "ManualSwitch"
Pending == (\E u \in Users : IsManual(message[u])) \/ (\E i \in 1..Len(ctrl) : IsManual(ctrl[i]))
BaselineInv ==
  (backend /\ lastRule = None /\ ~Pending) =>
    IF pc[Watcher] = "switch" THEN target = baseline ELSE strayed \/ active = baseline

LEMMA BaselineStep == Inv /\ BaselineInv /\ [Next]_vars => BaselineInv'
<1> SUFFICES ASSUME Inv, BaselineInv, [Next]_vars PROVE BaselineInv'
  OBVIOUS
<1> USE FocusAssumption DEF Inv, TypeOK, ConfigOK, TasksOK, ChannelsOK, WatcherOK, ActiveExists, Goto,
        Tell, Start, Tasks, config, channels, watcher,
        BaselineInv, Pending, IsManual, Messages, Manual, RulesUpdated
<1>1. ASSUME NEW u \in Users, NEW p \in Names, SwitchProfile(u, p) PROVE BaselineInv'
  BY <1>1 DEF SwitchProfile, Activate
<1>2. ASSUME NEW u \in Users, NEW p \in Names, AddProfile(u, p) PROVE BaselineInv'
  BY <1>2 DEF AddProfile, Activate
<1>3. ASSUME NEW u \in Users, NEW p \in Names, RemoveProfile(u, p) PROVE BaselineInv'
  BY <1>3 DEF RemoveProfile, Activate
<1>4. ASSUME NEW u \in Users, NEW p \in Names, NEW q \in Names, RenameProfile(u, p, q) PROVE BaselineInv'
  BY <1>4 DEF RenameProfile
<1>5. ASSUME NEW u \in Users, NEW a \in Apps, NEW p \in Names \cup {None}, SetRule(u, a, p) PROVE BaselineInv'
  BY <1>5, MessageAssumption DEF SetRule
<1>6. ASSUME NEW u \in Users, NEW v \in Values, Edit(u, v) PROVE BaselineInv'
  BY <1>6 DEF Edit
<1>7. ASSUME NEW t \in Tasks, ReadSaved(t) PROVE BaselineInv'
  BY <1>7 DEF ReadSaved
<1>8. ASSUME NEW t \in Tasks, LoadState(t) PROVE BaselineInv'
  BY <1>8 DEF LoadState
<1>9. ASSUME NEW u \in Users, SaveState(u) PROVE BaselineInv'
  BY <1>9 DEF SaveState
<1>10. ASSUME NEW u \in Users, WriteState(u) PROVE BaselineInv'
  BY <1>10 DEF WriteState
<1>11. ASSUME NEW u \in Users, Notify(u) PROVE BaselineInv'
  BY <1>11 DEF Notify
<1>12. ASSUME FocusChanges PROVE BaselineInv'
  BY <1>12 DEF FocusChanges
<1>13. ASSUME BackendDies PROVE BaselineInv'
  BY <1>13 DEF BackendDies
<1>14. ASSUME TakeFocus PROVE BaselineInv'
  BY <1>14 DEF TakeFocus
<1>15. ASSUME TakeManual PROVE BaselineInv'
  BY <1>15 DEF TakeManual
<1>16. ASSUME TakeRules PROVE BaselineInv'
  <2>1. Head(ctrl) = ctrl[1] /\ ~IsManual(ctrl[1])
    BY <1>16 DEF TakeRules
  <2>2. \A i \in 1..Len(ctrl) : i = 1 \/ (i - 1 \in 1..Len(ctrl') /\ ctrl'[i - 1] = ctrl[i])
    BY <1>16 DEF TakeRules
  <2>3. ASSUME NEW i \in 1..Len(ctrl), IsManual(ctrl[i])
        PROVE  \E j \in 1..Len(ctrl') : IsManual(ctrl'[j])
    <3>1. i # 1
      BY <2>1, <2>3
    <3> QED
      BY <2>2, <2>3, <3>1
  <2>4. Pending => Pending'
    BY <1>16, <2>3 DEF TakeRules
  <2> QED
    BY <1>16, <2>4 DEF TakeRules
<1>17. ASSUME Decide PROVE BaselineInv'
  BY <1>17 DEF Decide, Matched
<1>18. ASSUME SwitchDirect PROVE BaselineInv'
  BY <1>18 DEF SwitchDirect
<1>19. ASSUME Drain PROVE BaselineInv'
  BY <1>19 DEF Drain
<1>20. ASSUME UNCHANGED vars PROVE BaselineInv'
  BY <1>20 DEF vars
<1> QED
  BY <1>1, <1>2, <1>3, <1>4, <1>5, <1>6, <1>7, <1>8, <1>9, <1>10,
     <1>11, <1>12, <1>13, <1>14, <1>15, <1>16, <1>17, <1>18, <1>19, <1>20
     DEF Next, Begin, Continue, Load, Watch

\* A rule in force decides, until a user switches by hand.
RuleInv ==
  (lastRule # None /\ ~manual) =>
    IF pc[Watcher] = "switch" THEN target = lastRule ELSE strayed \/ active = lastRule

LEMMA RuleStep == Inv /\ RuleInv /\ [Next]_vars => RuleInv'
<1> SUFFICES ASSUME Inv, RuleInv, [Next]_vars PROVE RuleInv'
  OBVIOUS
<1> USE FocusAssumption DEF Inv, TypeOK, ConfigOK, TasksOK, ChannelsOK, WatcherOK, ActiveExists, Goto,
        Tell, Start, Tasks, config, channels, watcher, RuleInv
<1>1. ASSUME NEW u \in Users, NEW p \in Names, SwitchProfile(u, p) PROVE RuleInv'
  BY <1>1 DEF SwitchProfile, Activate
<1>2. ASSUME NEW u \in Users, NEW p \in Names, AddProfile(u, p) PROVE RuleInv'
  BY <1>2 DEF AddProfile, Activate
<1>3. ASSUME NEW u \in Users, NEW p \in Names, RemoveProfile(u, p) PROVE RuleInv'
  BY <1>3 DEF RemoveProfile, Activate
<1>4. ASSUME NEW u \in Users, NEW p \in Names, NEW q \in Names, RenameProfile(u, p, q) PROVE RuleInv'
  BY <1>4 DEF RenameProfile
<1>5. ASSUME NEW u \in Users, NEW a \in Apps, NEW p \in Names \cup {None}, SetRule(u, a, p) PROVE RuleInv'
  BY <1>5 DEF SetRule
<1>6. ASSUME NEW u \in Users, NEW v \in Values, Edit(u, v) PROVE RuleInv'
  BY <1>6 DEF Edit
<1>7. ASSUME NEW t \in Tasks, ReadSaved(t) PROVE RuleInv'
  BY <1>7 DEF ReadSaved
<1>8. ASSUME NEW t \in Tasks, LoadState(t) PROVE RuleInv'
  BY <1>8 DEF LoadState
<1>9. ASSUME NEW u \in Users, SaveState(u) PROVE RuleInv'
  BY <1>9 DEF SaveState
<1>10. ASSUME NEW u \in Users, WriteState(u) PROVE RuleInv'
  BY <1>10 DEF WriteState
<1>11. ASSUME NEW u \in Users, Notify(u) PROVE RuleInv'
  BY <1>11 DEF Notify
<1>12. ASSUME FocusChanges PROVE RuleInv'
  BY <1>12 DEF FocusChanges
<1>13. ASSUME BackendDies PROVE RuleInv'
  BY <1>13 DEF BackendDies
<1>14. ASSUME TakeFocus PROVE RuleInv'
  BY <1>14 DEF TakeFocus
<1>15. ASSUME TakeManual PROVE RuleInv'
  BY <1>15 DEF TakeManual
<1>16. ASSUME TakeRules PROVE RuleInv'
  BY <1>16 DEF TakeRules
<1>17. ASSUME Decide PROVE RuleInv'
  BY <1>17 DEF Decide, Matched
<1>18. ASSUME SwitchDirect PROVE RuleInv'
  BY <1>18 DEF SwitchDirect
<1>19. ASSUME Drain PROVE RuleInv'
  BY <1>19 DEF Drain
<1>20. ASSUME UNCHANGED vars PROVE RuleInv'
  BY <1>20 DEF vars
<1> QED
  BY <1>1, <1>2, <1>3, <1>4, <1>5, <1>6, <1>7, <1>8, <1>9, <1>10,
     <1>11, <1>12, <1>13, <1>14, <1>15, <1>16, <1>17, <1>18, <1>19, <1>20
     DEF Next, Begin, Continue, Load, Watch

\* As long as no switch or edit has begun beside another, there is one at a time, and it
\* loads the state of the active profile or writes the state that is shown.
ShownInv ==
  ~crossed =>
    /\ \A t, o \in Tasks : {pc[t], pc[o]} \subseteq Working => t = o
    /\ \A t \in Tasks : /\ pc[t] = "apply" => read[t] = Effective(active)
                        /\ pc[t] = "write" => read[t] = shown
    /\ (\A t \in Tasks : pc[t] \notin Working) => shown = Effective(active)

LEMMA ShownStep == Inv /\ ShownInv /\ [Next]_vars => ShownInv'
<1> SUFFICES ASSUME Inv, ShownInv, [Next]_vars PROVE ShownInv'
  OBVIOUS
<1> USE FocusAssumption DEF Inv, TypeOK, ConfigOK, TasksOK, ChannelsOK, WatcherOK, ActiveExists, Goto,
        Tell, Start, Tasks, config, channels, watcher,
        ShownInv, Working, Effective, Begins
<1>1. ASSUME NEW u \in Users, NEW p \in Names, SwitchProfile(u, p) PROVE ShownInv'
  BY <1>1 DEF SwitchProfile, Activate
<1>2. ASSUME NEW u \in Users, NEW p \in Names, AddProfile(u, p) PROVE ShownInv'
  BY <1>2 DEF AddProfile, Activate
<1>3. ASSUME NEW u \in Users, NEW p \in Names, RemoveProfile(u, p) PROVE ShownInv'
  <2>1. CASE active = p
    <3>1. pc'[u] = "load" /\ \A o \in Tasks \ {u} : pc'[o] = pc[o]
      BY <1>3, <2>1 DEF RemoveProfile, Activate
    <3>2. ~crossed' => \A o \in Tasks \ {u} : pc[o] \notin Working
      BY <1>3, <2>1 DEF RemoveProfile, Activate
    <3> QED
      BY <3>1, <3>2
  <2>2. CASE active # p
    BY <1>3, <2>2 DEF RemoveProfile
  <2> QED
    BY <2>1, <2>2
<1>4. ASSUME NEW u \in Users, NEW p \in Names, NEW q \in Names, RenameProfile(u, p, q) PROVE ShownInv'
  <2>1. Effective(active)' = Effective(active)
    BY <1>4 DEF RenameProfile
  <2>2. \A t \in Tasks : /\ pc'[t] \in Working <=> pc[t] \in Working
                         /\ pc'[t] = "apply" <=> pc[t] = "apply"
                         /\ pc'[t] = "write" <=> pc[t] = "write"
    BY <1>4 DEF RenameProfile
  <2>3. UNCHANGED <<shown, read, crossed>>
    BY <1>4 DEF RenameProfile
  <2> QED
    BY <2>1, <2>2, <2>3
<1>5. ASSUME NEW u \in Users, NEW a \in Apps, NEW p \in Names \cup {None}, SetRule(u, a, p) PROVE ShownInv'
  BY <1>5 DEF SetRule
<1>6. ASSUME NEW u \in Users, NEW v \in Values, Edit(u, v) PROVE ShownInv'
  BY <1>6 DEF Edit
<1>7. ASSUME NEW t \in Tasks, ReadSaved(t) PROVE ShownInv'
  BY <1>7 DEF ReadSaved
<1>8. ASSUME NEW t \in Tasks, LoadState(t) PROVE ShownInv'
  <2>1. pc[t] = "apply" /\ pc'[t] \notin Working /\ shown' = read[t] /\ UNCHANGED <<active, saved, crossed>>
    BY <1>8 DEF LoadState
  <2>2. \A o \in Tasks \ {t} : pc'[o] = pc[o] /\ read'[o] = read[o]
    BY <1>8 DEF LoadState
  <2>3. ASSUME ~crossed PROVE \A o \in Tasks : pc'[o] \notin Working
    BY <2>1, <2>2, <2>3
  <2>4. ~crossed => shown' = Effective(active)'
    <3>1. ~crossed => read[t] = Effective(active)
      BY <1>8, <2>1
    <3>2. Effective(active)' = Effective(active)
      BY <2>1
    <3> QED
      BY <2>1, <3>1, <3>2
  <2> QED
    BY <2>1, <2>3, <2>4
<1>9. ASSUME NEW u \in Users, SaveState(u) PROVE ShownInv'
  BY <1>9 DEF SaveState
<1>10. ASSUME NEW u \in Users, WriteState(u) PROVE ShownInv'
  BY <1>10 DEF WriteState
<1>11. ASSUME NEW u \in Users, Notify(u) PROVE ShownInv'
  BY <1>11 DEF Notify
<1>12. ASSUME FocusChanges PROVE ShownInv'
  BY <1>12 DEF FocusChanges
<1>13. ASSUME BackendDies PROVE ShownInv'
  BY <1>13 DEF BackendDies
<1>14. ASSUME TakeFocus PROVE ShownInv'
  BY <1>14 DEF TakeFocus
<1>15. ASSUME TakeManual PROVE ShownInv'
  BY <1>15 DEF TakeManual
<1>16. ASSUME TakeRules PROVE ShownInv'
  BY <1>16 DEF TakeRules
<1>17. ASSUME Decide PROVE ShownInv'
  BY <1>17 DEF Decide, Matched
<1>18. ASSUME SwitchDirect PROVE ShownInv'
  <2>1. CASE target \in profiles
    BY <1>18, <2>1 DEF SwitchDirect
  <2>2. CASE target \notin profiles
    BY <1>18, <2>2 DEF SwitchDirect
  <2> QED
    BY <2>1, <2>2
<1>19. ASSUME Drain PROVE ShownInv'
  BY <1>19 DEF Drain
<1>20. ASSUME UNCHANGED vars PROVE ShownInv'
  BY <1>20 DEF vars
<1> QED
  BY <1>1, <1>2, <1>3, <1>4, <1>5, <1>6, <1>7, <1>8, <1>9, <1>10,
     <1>11, <1>12, <1>13, <1>14, <1>15, <1>16, <1>17, <1>18, <1>19, <1>20
     DEF Next, Begin, Continue, Load, Watch

\* Once everybody has been heard and no rule is in force, the active profile is the baseline.
THEOREM BaselineIsRestored == Spec => []BaselineReturns
<1>1. Init => BaselineInv
  BY FocusAssumption DEF Init, BaselineInv, Tasks
<1>2. Inv /\ BaselineInv => BaselineReturns
  BY FocusAssumption, MessageAssumption
  DEF Inv, TypeOK, TasksOK, ChannelsOK, BaselineInv, BaselineReturns, Quiet, Pending, IsManual, Tasks
<1> QED
  BY InitInv, StepInv, BaselineStep, <1>1, <1>2, PTL DEF Spec

\* The rule of the application in the foreground decides, unless the user has switched by
\* hand since.
THEOREM RuleDecides == Spec => []RuleInForce
<1>1. Init => RuleInv
  BY DEF Init, RuleInv
<1>2. RuleInv => RuleInForce
  BY DEF RuleInv, RuleInForce, Quiet, Tasks
<1> QED
  BY InitInv, StepInv, RuleStep, <1>1, <1>2, PTL DEF Spec

\* The device shows the state of the active profile, unless two switches or edits overlapped.
THEOREM ShownFollowsActive == Spec => []ShownIsActive
<1>1. Init => ShownInv
  BY DEF Init, ShownInv, Working
<1>2. ShownInv => ShownIsActive
  BY DEF ShownInv, ShownIsActive, Quiet, Working
<1> QED
  BY InitInv, StepInv, ShownStep, <1>1, <1>2, PTL DEF Spec
=============================================================================
