------------------------------ MODULE MCDhcpId ------------------------------
(***************************************************************************)
(* Small instances of DhcpId for TLC.                                      *)
(***************************************************************************)
EXTENDS DhcpId, TLC

\* Robots are interchangeable in every action and invariant.
MacSymmetry == Permutations(Macs)
=============================================================================
