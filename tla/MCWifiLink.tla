----------------------------- MODULE MCWifiLink -----------------------------
(***************************************************************************)
(* Instances of WifiLink with three networks: the default, the backup and  *)
(* one for config.yml.                                                     *)
(***************************************************************************)
EXTENDS WifiLink
=============================================================================
