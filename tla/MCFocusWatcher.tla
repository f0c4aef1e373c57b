--------------------------- MODULE MCFocusWatcher ---------------------------
(* TLC's instance of FocusWatcher: three profiles, one application and two    *)
(* users, with a control channel that is full with one message.               *)
EXTENDS FocusWatcher, TLC

CONSTANTS default, work, game, app, x, y, u1, u2, watching, none

\* Default and one other profile exist; a third can be added.
StoredAtStart == default :> x @@ work :> y
=============================================================================
