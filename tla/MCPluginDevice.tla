--------------------------- MODULE MCPluginDevice ---------------------------
(* TLC's instance of PluginDevice: one caller of the device's capabilities,   *)
(* the poll and whoever closes it.                                            *)
EXTENDS PluginDevice

CONSTANTS root, user, poller, closer
=============================================================================
