------------------------------ MODULE MCServices ------------------------------
(* Two networks' worth of links: one too weak, one fair, one so strong     *)
(* that its quality overflows.                                             *)
EXTENDS Services
MCLevels == {-90, -75, -33}
=============================================================================
