----------------------------- MODULE MCLuaWorker -----------------------------
(* TLC's instance of LuaWorker: two plugins want the one thread there may   *)
(* be, and two clients send commands to both.                                 *)
EXTENDS LuaWorker

CONSTANTS v, w, a, b
=============================================================================
