--------------------------- MODULE InstallContract ---------------------------
(***************************************************************************)
(* What gNOI os/install promises to the playbook, whatever the device and  *)
(* the network do: one report, and which report the bytes offered so far   *)
(* allow.  OsInstall is shown to implement it.                             *)
(***************************************************************************)
EXTENDS Integers

CONSTANT PackageSize

VARIABLES offered,   \* bytes read from the image and offered to the device
          transfer,  \* "sending", "whole" (end of file) or "given_up"
          report     \* what the task reports

vars == <<offered, transfer, report>>

Init == offered = 0 /\ transfer = "sending" /\ report = "none"

Offer ==
    /\ transfer = "sending"
    /\ offered' \in Nat /\ offered' > offered
    /\ UNCHANGED <<transfer, report>>

EndTransfer ==
    /\ transfer = "sending"
    /\ transfer' \in {"whole", "given_up"}
    /\ UNCHANGED <<offered, report>>

Allowed(r) ==
    \/ r \in {"failed", "already_running", "transferred"}
    \/ r = "already_present" /\ offered = 0
    \/ r = "validated" /\ offered > 0
    \/ r = "transferred_unvalidated" /\ transfer = "whole" /\ offered = PackageSize

Report ==
    /\ report = "none"
    /\ Allowed(report')
    /\ UNCHANGED <<offered, transfer>>

Next == Offer \/ EndTransfer \/ Report

Spec == Init /\ [][Next]_vars
=============================================================================
