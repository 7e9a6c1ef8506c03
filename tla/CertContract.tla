---------------------------- MODULE CertContract ----------------------------
(***************************************************************************)
(* What gNOI cert/install and cert/rotate promise: the certificate changes *)
(* in one transaction between client and device.  A load is validated or   *)
(* lost, a rotation is committed once the client has confirmed the         *)
(* validated load, an end with OK reverts what is not committed, and an    *)
(* end with an error reverts all of it.  The one report calls it a success *)
(* only behind an end with OK, which no refused id gets.  CertStream is    *)
(* shown to implement it.                                                  *)
(***************************************************************************)

VARIABLES kind,        \* "install" or "rotate"
          refused,     \* the id exists (install) or does not (rotate)
          held,        \* "before", "provisional" or "committed"
          validated,   \* the device has answered the load
          confirmed,   \* the client has seen that answer
          ending,      \* how the device ended the transaction, "lost" if the
                       \* client had gone before
          report       \* what the task reports

vars == <<kind, refused, held, validated, confirmed, ending, report>>

Init ==
    /\ kind \in {"install", "rotate"} /\ refused \in BOOLEAN
    /\ held = "before" /\ validated = FALSE /\ confirmed = FALSE
    /\ ending = "none" /\ report = "none"

Load ==
    /\ ending = "none" /\ ~refused /\ held = "before" /\ ~validated
    /\ held' = "provisional"
    /\ UNCHANGED <<kind, refused, validated, confirmed, ending, report>>

Validate ==
    /\ ending = "none" /\ held = "provisional" /\ ~validated
    /\ validated' = TRUE
    /\ held' = IF kind = "install" THEN "committed" ELSE held
    /\ UNCHANGED <<kind, refused, confirmed, ending, report>>

Confirm ==
    /\ kind = "rotate" /\ validated /\ ~confirmed /\ report = "none"
    /\ confirmed' = TRUE
    /\ UNCHANGED <<kind, refused, held, validated, ending, report>>

Commit ==
    /\ ending = "none" /\ held = "provisional" /\ confirmed
    /\ held' = "committed"
    /\ UNCHANGED <<kind, refused, validated, confirmed, ending, report>>

End ==
    /\ ending = "none" /\ ending' \in {"OK", "error", "lost"}
    /\ ending' = "OK" => ~refused /\ held # "before"
    /\ held' \in {"before", held} \ {"provisional"}
    /\ ending' = "OK" /\ held = "committed" => held' = "committed"
    /\ ending' = "error" => held' = "before"
    /\ UNCHANGED <<kind, refused, validated, confirmed, report>>

Report ==
    /\ report = "none"
    /\ \/ report' = "failed"
       \/ report' = "succeeded" /\ ending = "OK"
    /\ UNCHANGED <<kind, refused, held, validated, confirmed, ending>>

Next == Load \/ Validate \/ Confirm \/ Commit \/ End \/ Report

Spec == Init /\ [][Next]_vars
=============================================================================
