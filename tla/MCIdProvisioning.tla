-------------------------- MODULE MCIdProvisioning --------------------------
(***************************************************************************)
(* Small instances of IdProvisioning for TLC: one team, since the team     *)
(* plays no part in the id.                                                *)
(***************************************************************************)
EXTENDS IdProvisioning, TLC

MCTeamOf == [m \in Macs |-> CHOOSE t \in Teams : TRUE]

MacSymmetry == Permutations(Macs)
=============================================================================
