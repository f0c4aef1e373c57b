----------------------------- MODULE MCDataBus -----------------------------
(* TLC's instance of DataBus: a plugin's Lua worker, which runs outside the *)
(* tokio runtime, with two keys, and a host task inside it that publishes a *)
(* sensor and may disable the plugin.  Two records fit, by count and bytes. *)
EXTENDS DataBus

CONSTANTS worker, task, plugin, host, reading, extra, sensor

MCOwnerOf == [c \in {worker, task} |-> IF c = worker THEN plugin ELSE host]
MCDeclared == [c \in {worker, task} |-> IF c = worker THEN {reading, extra} ELSE {sensor}]
=============================================================================
