---------------------------- MODULE MCConfigSet ----------------------------
(***************************************************************************)
(* Instance for TLC: two configurations, so that a snapshot can tell what  *)
(* was there before a change; one abandoned Set beside the current one.    *)
(* The playbook is endless.                                                *)
(***************************************************************************)
EXTENDS ConfigSet

CONSTANTS a, b
MCValues == {a, b}
=============================================================================
