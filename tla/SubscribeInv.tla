---------------------------- MODULE SubscribeInv ----------------------------
(***************************************************************************)
(* The inductive invariant behind the theorems of SubscribeProofs.         *)
(***************************************************************************)
EXTENDS Subscribe

\* The responses under way are those behind what the loop took.
QueueInv ==
    /\ taken <= Len(sent)
    /\ resp # <<>> \/ code = "none" =>
          /\ Len(resp) = Len(sent) - taken
          /\ \A i \in 1..Len(resp) : resp[i] = taken + i

\* A status is the last word of the device.
StatusInv == status # "none" => ~devOpen

\* An OK is the device's, and it comes behind everything the device sent.
CodeInv == code = "OK" => status = "OK" /\ taken = Len(sent) /\ ~devOpen

\* While the loop runs the list holds the updates of what was taken.
CollectInv == outcome = "none" => IsUpTo(updates, taken)

\* What a success rested on.
VerdictInv ==
    outcome = "succeeded" =>
        /\ IsUpTo(report, taken)
        /\ \/ /\ task.mode = "once" /\ taken \in DOMAIN sent
              /\ sent[taken] = "sync_response"
           \/ code = "OK"

AllowedOrWarned ==
    /\ {task.mode} \ ListModes(task.platform) \subseteq warned \ {"poll"}
    /\ \A i \in DOMAIN task.subscriptions :
           task.subscriptions[i].mode \in ItemModes(task.platform) \cup warned

\* Only a task that passed the restrictions has a sender.
RestrictInv ==
    /\ phase \in {"connect", "restrict", "build"} => spc = "idle"
    /\ phase = "build" \/ spc # "idle" => AllowedOrWarned
    /\ request \/ asked => spc # "idle"
    /\ outcome = "none" <=> phase \notin {"done", "disconnected"}

IInv ==
    /\ TypeOK /\ QueueInv /\ StatusInv /\ CodeInv /\ CollectInv /\ VerdictInv /\ RestrictInv
=============================================================================
