---------------------------- MODULE FocusWatcher ----------------------------
(***************************************************************************)
(* Who decides which profile is active: the focus watcher, which follows    *)
(* the rules of the application in the foreground and goes back to its      *)
(* baseline when there is none, and the use cases of the GUI, which tell    *)
(* the watcher what they did over a bounded channel.  Whoever switches also *)
(* loads the state of the profile onto the device, and an edit of the       *)
(* device is written back into the profile that is active by then.          *)
(***************************************************************************)
EXTENDS Naturals, Sequences

CONSTANTS
  Names,        \* names of profiles
  Default,      \* DEFAULT_PROFILE_NAME
  Stored,       \* the device_states of the profiles that are loaded at start
  Apps,         \* applications
  Values,       \* states of the device
  Users,        \* tasks that run use cases
  Watcher,      \* the focus watcher
  None,         \* no application, no rule, no state of its own, no message
  ChannelCap,   \* capacity of the control channel
  MaxUseCases, MaxFocus  \* bounds on the use cases and on the changes of focus

ASSUME FocusAssumption ==
  /\ Default \in Names /\ None \notin Names \cup Apps \cup Values \cup Users
  /\ Watcher \notin Users /\ Values # {}
  /\ Default \in DOMAIN Stored /\ DOMAIN Stored \subseteq Names
  /\ \A p \in DOMAIN Stored : Stored[p] \in IF p = Default THEN Values ELSE Values \cup {None}
  /\ ChannelCap \in Nat \ {0} /\ MaxUseCases \in Nat /\ MaxFocus \in Nat

VARIABLES
  profiles,    \* the names in Config.profiles
  saved,       \* their device_states, None where nothing is recorded
  active,      \* Config.active_profile
  rule,        \* Config.app_rules: the profile of each application's enabled rule
  shown,       \* the state of the device
  pc, read,    \* where each task is, the state it has read
  message,     \* what a use case has to tell the watcher when it has loaded
  useCases,    \* the number of use cases so far
  focus,       \* the channel of the backend, one event long
  sent,        \* the number of its events so far
  backend,     \* it is open
  ctrl,        \* the control channel
  baseline, lastRule, foreground,  \* the watcher's variables
  target,      \* the profile it switches to, Default otherwise
  manual,      \* history: a use case changed the active profile since the rules were read
  strayed,     \* history: the profile the watcher last wanted was not there
  crossed      \* history: the last switch or edit began while another was under way

config == <<profiles, saved, active, rule>>
channels == <<focus, sent, backend, ctrl>>
watcher == <<baseline, lastRule, foreground, target>>
vars == <<config, shown, pc, read, message, useCases, channels, watcher, manual, strayed, crossed>>

----------------------------------------------------------------------------
Tasks == Users \cup {Watcher}
\* effective_device_state
Effective(p) == IF saved[p] # None THEN saved[p] ELSE saved[Default]
Manual(p) == [kind |-> "ManualSwitch", profile |-> p]
RulesUpdated == [kind |-> "RulesUpdated", profile |-> Default]
Messages == {Manual(p) : p \in Names} \cup {RulesUpdated}
ASSUME MessageAssumption == None \notin Messages

\* A rule for each application, some to a profile that does not exist.
Init ==
  /\ profiles = DOMAIN Stored /\ active \in profiles
  /\ saved = [p \in Names |-> IF p \in DOMAIN Stored THEN Stored[p] ELSE None]
  /\ rule \in [Apps -> Names]
  /\ shown = Effective(active)
  /\ pc = [t \in Tasks |-> "idle"] /\ read = [t \in Tasks |-> None]
  /\ message = [u \in Users |-> None] /\ useCases = 0
  /\ focus = None /\ sent = 0 /\ backend = TRUE /\ ctrl = <<>>
  /\ baseline = active /\ lastRule = None /\ foreground = None /\ target = Default
  /\ manual = FALSE /\ strayed = FALSE /\ crossed = FALSE

----------------------------------------------------------------------------
(* load_active_profile, by anyone: restore_pass reads the configuration     *)
(* first and writes to the device afterwards.                               *)

Goto(t, place) == pc' = [pc EXCEPT ![t] = place]
\* A switch or an edit begins; some other may be under way.
Working == {"load", "apply", "save", "write"}
Begins(t) == crossed' = (\E other \in Tasks \ {t} : pc[other] \in Working)

ReadSaved(t) ==
  /\ pc[t] = "load"
  /\ read' = [read EXCEPT ![t] = Effective(active)] /\ Goto(t, "apply")
  /\ UNCHANGED <<config, shown, message, useCases, channels, watcher, manual, strayed, crossed>>
LoadState(t) ==
  /\ pc[t] = "apply"
  /\ shown' = read[t] /\ read' = [read EXCEPT ![t] = None]
  /\ Goto(t, IF t \in Users THEN "notify" ELSE "idle")
  /\ UNCHANGED <<config, message, useCases, channels, watcher, manual, strayed, crossed>>
Load(t) == ReadSaved(t) \/ LoadState(t)

----------------------------------------------------------------------------
(* Use cases.                                                               *)

Start(u) == pc[u] = "idle" /\ useCases < MaxUseCases /\ useCases' = useCases + 1
Tell(u, m) == message' = [message EXCEPT ![u] = m]

\* The active profile becomes p: load it, then notify.
Activate(u, p) ==
  /\ active' = p /\ manual' = TRUE /\ Tell(u, Manual(p)) /\ Goto(u, "load") /\ Begins(u)

SwitchProfile(u, p) ==
  /\ Start(u) /\ p \in profiles
  /\ Activate(u, p)
  /\ UNCHANGED <<profiles, saved, rule, shown, read, channels, watcher, strayed>>

AddProfile(u, p) ==
  /\ Start(u) /\ p \notin profiles
  /\ profiles' = profiles \cup {p}
  /\ Activate(u, p)
  /\ UNCHANGED <<saved, rule, shown, read, channels, watcher, strayed>>

\* KeepActive is a removal that leaves the active profile dangling.
KeepActive(u, p) ==
  /\ Start(u) /\ p \in profiles \ {Default}
  /\ profiles' = profiles \ {p} /\ saved' = [saved EXCEPT ![p] = None]
  /\ UNCHANGED <<active, rule, shown, pc, read, message, channels, watcher, manual, strayed, crossed>>
RemoveProfile(u, p) ==
  /\ Start(u) /\ p \in profiles \ {Default}
  /\ profiles' = profiles \ {p} /\ saved' = [saved EXCEPT ![p] = None]
  /\ IF active = p THEN Activate(u, Default)
     ELSE UNCHANGED <<active, manual, message, pc, crossed>>
  /\ UNCHANGED <<rule, shown, read, channels, watcher, strayed>>

\* The profile keeps its states; nothing is loaded, and the rules keep the old name.
RenameProfile(u, p, q) ==
  /\ Start(u) /\ p \in profiles \ {Default} /\ q \notin profiles
  /\ profiles' = (profiles \ {p}) \cup {q}
  /\ saved' = [saved EXCEPT ![q] = saved[p], ![p] = None]
  /\ IF active = p
     THEN active' = q /\ manual' = TRUE /\ Tell(u, Manual(q)) /\ Goto(u, "notify")
     ELSE UNCHANGED <<active, manual, message, pc>>
  /\ UNCHANGED <<rule, shown, read, channels, watcher, strayed, crossed>>

\* app_rules::add, update, remove.
SetRule(u, a, p) ==
  /\ Start(u) /\ rule[a] # p
  /\ rule' = [rule EXCEPT ![a] = p]
  /\ Tell(u, RulesUpdated) /\ Goto(u, "notify")
  /\ UNCHANGED <<profiles, saved, active, shown, read, channels, watcher, manual, strayed, crossed>>

\* A capability of the device is set; persist_device_state reads it back and then locks
\* the configuration.
Edit(u, v) ==
  /\ Start(u) /\ v # shown
  /\ shown' = v /\ Goto(u, "save") /\ Begins(u)
  /\ UNCHANGED <<config, read, message, channels, watcher, manual, strayed>>
SaveState(u) ==
  /\ pc[u] = "save"
  /\ read' = [read EXCEPT ![u] = shown] /\ Goto(u, "write")
  /\ UNCHANGED <<config, shown, message, useCases, channels, watcher, manual, strayed, crossed>>
\* A profile other than Default records only what differs. WriteDefault forgets the
\* active profile.
WriteDefault(u) ==
  /\ pc[u] = "write"
  /\ saved' = [saved EXCEPT ![Default] = read[u]]
  /\ read' = [read EXCEPT ![u] = None] /\ Goto(u, "idle")
  /\ UNCHANGED <<profiles, active, rule, shown, message, useCases, channels, watcher, manual,
                 strayed, crossed>>
WriteState(u) ==
  /\ pc[u] = "write"
  /\ saved' = IF active # Default /\ Effective(active) = read[u] THEN saved
              ELSE [saved EXCEPT ![active] = read[u]]
  /\ read' = [read EXCEPT ![u] = None] /\ Goto(u, "idle")
  /\ UNCHANGED <<profiles, active, rule, shown, message, useCases, channels, watcher, manual,
                 strayed, crossed>>

\* FocusState::notify, which waits while the channel is full. NotifyAtOnce does not wait.
NotifyAtOnce(u) ==
  /\ pc[u] = "notify"
  /\ ctrl' = Append(ctrl, message[u]) /\ Tell(u, None) /\ Goto(u, "idle")
  /\ UNCHANGED <<config, shown, read, useCases, focus, sent, backend, watcher, manual, strayed,
                 crossed>>
Notify(u) ==
  /\ pc[u] = "notify" /\ Len(ctrl) < ChannelCap
  /\ ctrl' = Append(ctrl, message[u]) /\ Tell(u, None) /\ Goto(u, "idle")
  /\ UNCHANGED <<config, shown, read, useCases, focus, sent, backend, watcher, manual, strayed,
                 crossed>>

Begin(u) ==
  \/ \E p \in Names : SwitchProfile(u, p) \/ AddProfile(u, p) \/ RemoveProfile(u, p)
  \/ \E p, q \in Names : RenameProfile(u, p, q)
  \/ \E a \in Apps, p \in Names \cup {None} : SetRule(u, a, p)
  \/ \E v \in Values : Edit(u, v)
Continue(u) == Load(u) \/ SaveState(u) \/ WriteState(u) \/ Notify(u)

----------------------------------------------------------------------------
(* The watcher.                                                             *)

\* The window system.
FocusChanges ==
  /\ backend /\ focus = None /\ sent < MaxFocus
  /\ sent' = sent + 1 /\ focus' \in {[app |-> a] : a \in Apps \cup {None}}
  /\ UNCHANGED <<config, shown, pc, read, message, useCases, backend, ctrl, watcher, manual, strayed,
                 crossed>>
BackendDies ==
  /\ backend /\ focus = None /\ sent < MaxFocus
  /\ backend' = FALSE /\ sent' = MaxFocus
  /\ UNCHANGED <<config, shown, pc, read, message, useCases, focus, ctrl, watcher, manual, strayed,
                 crossed>>

\* select!, biased: the focus comes first.
TakeFocus ==
  /\ pc[Watcher] = "idle" /\ focus # None
  /\ foreground' = focus.app /\ focus' = None /\ Goto(Watcher, "decide")
  /\ UNCHANGED <<config, shown, read, message, useCases, sent, backend, ctrl, baseline, lastRule,
                 target, manual, strayed, crossed>>
TakeManual ==
  /\ pc[Watcher] = "idle" /\ focus = None /\ backend /\ ctrl # <<>>
  /\ Head(ctrl).kind = "ManualSwitch" /\ ctrl' = Tail(ctrl)
  /\ baseline' = Head(ctrl).profile /\ target' = Head(ctrl).profile /\ manual' = TRUE
  /\ Goto(Watcher, "switch")
  /\ UNCHANGED <<config, shown, read, message, useCases, focus, sent, backend, lastRule, foreground,
                 strayed, crossed>>
TakeRules ==
  /\ pc[Watcher] = "idle" /\ focus = None /\ backend /\ ctrl # <<>>
  /\ Head(ctrl).kind = "RulesUpdated" /\ ctrl' = Tail(ctrl)
  /\ Goto(Watcher, "decide")
  /\ UNCHANGED <<config, shown, read, message, useCases, focus, sent, backend, watcher, manual,
                 strayed, crossed>>

\* apply_focus: the configuration is read, and the decision follows. DecideLeaves
\* forgets that an application without a rule ends the one in force; DecideOnChange
\* switches only when the rule is another than the one in force.
Matched == IF foreground = None THEN None ELSE rule[foreground]
DecideLeaves ==
  LET obeyed == Matched # None /\ Matched \in profiles
  IN  /\ pc[Watcher] = "decide"
      /\ manual' = FALSE
      /\ lastRule' = IF obeyed THEN Matched ELSE None
      /\ IF obeyed /\ Matched # active
         THEN target' = Matched /\ Goto(Watcher, "switch")
         ELSE UNCHANGED target /\ Goto(Watcher, "idle")
      /\ UNCHANGED <<config, shown, read, message, useCases, channels, baseline, foreground,
                     strayed, crossed>>
DecideOnChange ==
  LET obeyed == Matched # None /\ Matched \in profiles
  IN  /\ pc[Watcher] = "decide"
      /\ manual' = FALSE
      /\ lastRule' = IF obeyed THEN Matched ELSE None
      /\ IF obeyed /\ Matched # lastRule
         THEN target' = Matched /\ Goto(Watcher, "switch")
         ELSE IF ~obeyed /\ lastRule # None
         THEN target' = baseline /\ Goto(Watcher, "switch")
         ELSE UNCHANGED target /\ Goto(Watcher, "idle")
      /\ UNCHANGED <<config, shown, read, message, useCases, channels, baseline, foreground,
                     strayed, crossed>>
Decide ==
  LET obeyed == Matched # None /\ Matched \in profiles
  IN  /\ pc[Watcher] = "decide"
      /\ manual' = FALSE
      /\ lastRule' = IF obeyed THEN Matched ELSE None
      /\ IF obeyed /\ Matched # active
         THEN target' = Matched /\ Goto(Watcher, "switch")
         ELSE IF ~obeyed /\ lastRule # None
         THEN target' = baseline /\ Goto(Watcher, "switch")
         ELSE UNCHANGED target /\ Goto(Watcher, "idle")
      /\ UNCHANGED <<config, shown, read, message, useCases, channels, baseline, foreground,
                     strayed, crossed>>

\* switch_profile_direct
SwitchDirect ==
  /\ pc[Watcher] = "switch"
  /\ strayed' = (target \notin profiles)
  /\ IF target \in profiles
     THEN active' = target /\ Goto(Watcher, "load") /\ Begins(Watcher)
     ELSE Goto(Watcher, "idle") /\ UNCHANGED <<active, crossed>>
  /\ target' = Default
  /\ UNCHANGED <<profiles, saved, rule, shown, read, message, useCases, channels, baseline,
                 lastRule, foreground, manual>>

\* run_idle_loop drops what it receives. DrainNothing keeps the channel but reads nothing.
DrainNothing == FALSE /\ UNCHANGED vars
Drain ==
  /\ pc[Watcher] = "idle" /\ ~backend /\ focus = None /\ ctrl # <<>>
  /\ ctrl' = Tail(ctrl)
  /\ UNCHANGED <<config, shown, pc, read, message, useCases, focus, sent, backend, watcher, manual,
                 strayed, crossed>>

Watch ==
  TakeFocus \/ TakeManual \/ TakeRules \/ Decide \/ SwitchDirect \/ Load(Watcher) \/ Drain

Next ==
  \/ \E u \in Users : Begin(u) \/ Continue(u)
  \/ Watch \/ FocusChanges \/ BackendDies

Spec == Init /\ [][Next]_vars
\* Tasks that can run are polled.
FairSpec == Spec /\ WF_vars(Watch) /\ \A u \in Users : SF_vars(Continue(u))

----------------------------------------------------------------------------
(* Properties.                                                              *)

ConfigOK ==
  /\ profiles \subseteq Names /\ active \in Names
  /\ saved \in [Names -> Values \cup {None}] /\ saved[Default] # None
  /\ rule \in [Apps -> Names \cup {None}] /\ shown \in Values
TasksOK ==
  /\ pc \in [Tasks -> {"idle", "load", "apply", "save", "write", "notify", "decide", "switch"}]
  /\ read \in [Tasks -> Values \cup {None}]
  /\ \A t \in Tasks : read[t] # None <=> pc[t] \in {"apply", "write"}
  /\ message \in [Users -> Messages \cup {None}] /\ useCases \in 0..MaxUseCases
  /\ \A u \in Users : message[u] # None <=> pc[u] \in {"load", "apply", "notify"}
ChannelsOK ==
  /\ focus \in {[app |-> a] : a \in Apps \cup {None}} \cup {None} /\ sent \in 0..MaxFocus
  /\ ctrl \in Seq(Messages) /\ Len(ctrl) <= ChannelCap
WatcherOK ==
  /\ baseline \in Names /\ lastRule \in Names \cup {None} /\ foreground \in Apps \cup {None}
  /\ target \in Names /\ {backend, manual, strayed, crossed} \subseteq BOOLEAN
TypeOK == ConfigOK /\ TasksOK /\ ChannelsOK /\ WatcherOK

\* The active profile exists, and so does Default, though the watcher decides on a
\* configuration it has read before and profiles are removed and renamed meanwhile.
ActiveExists == {active, Default} \subseteq profiles

Quiet == focus = None /\ ctrl = <<>> /\ \A t \in Tasks : pc[t] = "idle"

\* Once everybody has been heard and no rule is in force, the profile is the one the user
\* chose last: leaving an application restores the baseline, and a manual switch moves it.
\* Not so when the baseline was removed or renamed while a rule was in force.
BaselineReturns == (Quiet /\ backend /\ lastRule = None /\ ~strayed) => active = baseline

\* The rule of the application in the foreground decides, unless the user has switched
\* by hand since.
RuleInForce == (Quiet /\ backend /\ lastRule # None /\ ~manual /\ ~strayed) => active = lastRule

\* The device shows the state of the active profile, whoever switched last, unless two
\* switches or edits overlapped.
ShownIsActive == (Quiet /\ ~crossed) => shown = Effective(active)

\* No use case waits for the watcher for ever, though it is loading a profile itself or
\* its backend is gone.
UseCasesReturn == \A u \in Users : pc[u] # "idle" ~> pc[u] = "idle"
=============================================================================
