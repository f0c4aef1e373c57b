---------------------------- MODULE MCConfigSave ----------------------------
(* TLC's instance of ConfigSave: the default profile and two names the user *)
(* may give to profiles.                                                    *)
EXTENDS ConfigSave

CONSTANTS default, a, b
=============================================================================
