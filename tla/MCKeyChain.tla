----------------------------- MODULE MCKeyChain -----------------------------
(***************************************************************************)
(* The instance of KeyChain that TLC checks; its bounds are in the cfg.    *)
(***************************************************************************)
EXTENDS KeyChain
=============================================================================
