---------------------------- MODULE MCConfigStore ----------------------------
(* Two requests of any body, in one run of the program or on either side   *)
(* of a restart, with and without -listen.                                 *)
EXTENDS ConfigStore

CONSTANTS r1, r2, default, override

MCRequest == {r1, r2}
=============================================================================
