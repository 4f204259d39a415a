-------------------------- MODULE MCRequiredTests --------------------------
(***************************************************************************)
(* RequiredTests with a short circle; ForceNow stands for 0xFFFFFFFF.      *)
(***************************************************************************)
EXTENDS RequiredTests
=============================================================================
