------------------------------ MODULE MCMirror ------------------------------
(* Small values for Worlds: see Worlds.cfg.                                *)
EXTENDS Worlds

CONSTANTS o1, u1, r1, r2, r3

MCRestoreSets == {{r1}, {r2}, {r1, r3}}
=============================================================================
