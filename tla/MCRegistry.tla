----------------------------- MODULE MCRegistry -----------------------------
(* TLC's instance of Registry: a receiver with one paired mouse, and the same *)
(* mouse on its cable.                                                        *)
EXTENDS Registry

CONSTANTS recv, wire, air, monitor, scanner, reconciler
=============================================================================
