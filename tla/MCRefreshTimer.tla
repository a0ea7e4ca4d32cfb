--------------------------- MODULE MCRefreshTimer ---------------------------
(***************************************************************************)
(* Instance of RefreshTimer for TLC: three minutes.                        *)
(***************************************************************************)
EXTENDS RefreshTimer

ThreeMinutes == 3 * Period * Second
=============================================================================
