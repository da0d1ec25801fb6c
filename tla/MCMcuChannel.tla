---------------------------- MODULE MCMcuChannel ----------------------------
(* McuChannel on small instances: a sequence space of three values, so that *)
(* the sequence wraps within a handful of commands.                         *)
EXTENDS McuChannel
=============================================================================
