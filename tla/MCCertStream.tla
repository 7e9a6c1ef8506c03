---------------------------- MODULE MCCertStream ----------------------------
(***************************************************************************)
(* Instance for TLC.  Each RPC has at most three messages, so Window = 0   *)
(* lets the sender block on every one of them.                             *)
(***************************************************************************)
EXTENDS CertStreamInv
=============================================================================
