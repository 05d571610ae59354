---------------------------- MODULE MCInstallGate ----------------------------
(* Instances of InstallGate for TLC. *)
EXTENDS InstallGate, TLC
=============================================================================
