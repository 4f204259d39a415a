---------------------------- MODULE MCOnlineLock ----------------------------
(***************************************************************************)
(* OnlineLock has no parameters: its runs check the whole state space.     *)
(***************************************************************************)
EXTENDS OnlineLock
=============================================================================
