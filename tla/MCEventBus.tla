----------------------------- MODULE MCEventBus -----------------------------
(* TLC's instance of EventBus: two notifiers that may race and one GUI.     *)
EXTENDS EventBus

CONSTANTS a, b, gui

MCPublishers == {a, b}
MCClients == {gui}
=============================================================================
