---------------------------- MODULE MCGnoiModule ----------------------------
(***************************************************************************)
(* Instance for TLC.  Two versions: one to run and one to boot into; two   *)
(* certificates, so that a revocation can be refused in part; one          *)
(* abandoned request beside the one of the current task.  The playbook is  *)
(* endless: what earlier tasks leave behind is in the device and in        *)
(* abandoned.  The options of a reset are left out where they tell         *)
(* nothing apart: in check mode and beside trust on first use, which is    *)
(* for operations every, some or no gate stops.                            *)
(***************************************************************************)
EXTENDS GnoiModuleInv

CONSTANTS v1, v2, c1, c2
MCVersions  == {v1, v2}
MCCertIds   == {c1, c2}
MCPlatforms == {"iosxe"}
MCPlaybook  ==
    {t \in Tasks :
        /\ t.tofu => t.op \in {"os/unknown", "cert/get", "factory_reset/start"}
        /\ t.tofu \/ t.check => ~t.flag /\ ~t.factoryOs}
=============================================================================
