---------------------------- MODULE MCInstaller ----------------------------
(* Two attempts, one mirror, two of the three data files. *)
EXTENDS Installer


MCHad == {"config.yaml"}
MCFiles == <<"config.yaml", "data.db">>
=============================================================================
