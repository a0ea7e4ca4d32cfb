---------------------------- MODULE MCRestartNet ----------------------------
(***************************************************************************)
(* Instances of RestartNet for TLC.                                        *)
(***************************************************************************)
EXTENDS RestartNet, MCRelayNet
=============================================================================
