----------------------------- MODULE MCVpnService -----------------------------
(* VpnService for TLC.                                                       *)
EXTENDS VpnService, TLC

\* The networks differ only in their names.
NetworkSymmetry == Permutations(Networks)
===============================================================================
