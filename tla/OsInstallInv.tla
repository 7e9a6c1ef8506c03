---------------------------- MODULE OsInstallInv ----------------------------
(***************************************************************************)
(* The inductive invariant behind the theorems of OsInstallProofs.  The    *)
(* safety properties of OsInstall follow from it but are not inductive:    *)
(* they say nothing of what is in flight or of where the sender is.        *)
(***************************************************************************)
EXTENDS OsInstall

ContentAt(i) == wire[i].kind = "transfer_content"
EndAt(i) == wire[i].kind = "transfer_end"

\* send_state is what the sender's position in the file says.
AccountingInv ==
    /\ bytesSent = pos
    /\ pos <= fileLen
    /\ ended => pos = fileLen
    /\ pos > 0 => readyEvent

\* What the sender's program counter implies.
SenderInv ==
    /\ spc \in {"end", "sent_end"} => ended
    /\ ended => spc \in {"end", "sent_end", "returning", "stopped"}
    /\ spc \in {"read", "content", "sent_content", "end", "sent_end"} => readyEvent
    /\ spc = "content" => pos > 0
    /\ sendError # "none" => ~ended /\ spc \in {"returning", "stopped"}
    /\ spc = "returning" => ended \/ sendError # "none"
    /\ halfClosed => spc = "stopped" /\ (ended \/ sendError # "none")

\* ready_event is set by TransferReady or by the end of the loop.
ReadyInv ==
    /\ readyEvent /\ mpc = "loop" => devReadySent
    /\ \A i \in DOMAIN resp : resp[i].kind = "transfer_ready" => devReadySent
    /\ devReadySent => devPhase \notin {"idle", "asked"}

\* The content in flight is an increasing run of positions between what the
\* device has and what was read, and TransferEnd is behind all of it.
WireInv ==
    /\ devBytes <= pos
    /\ \A i \in DOMAIN wire : ContentAt(i) => /\ devBytes <= wire[i].upto
                              /\ wire[i].upto <= pos
                              /\ 0 < wire[i].upto
    /\ \A i, j \in DOMAIN wire : ContentAt(i) /\ ContentAt(j) /\ i < j => wire[i].upto <= wire[j].upto
    /\ \A i \in DOMAIN wire : EndAt(i) => i = Len(wire)

\* The device has, or is about to get, everything read so far.
Reaches == devBytes = pos \/ \E i \in DOMAIN wire : ContentAt(i) /\ wire[i].upto = pos

EndInv ==
    /\ code = "none" /\ devPhase # "closed" /\ spc # "content" => Reaches
    /\ \A i \in DOMAIN wire : EndAt(i) =>
          /\ ended /\ spc \in {"sent_end", "returning", "stopped"}
          /\ devPhase # "closed" => Reaches
    /\ devComplete =>
          /\ ended /\ spc \in {"sent_end", "returning", "stopped"}
          /\ wire = <<>>
          /\ devBytes = fileLen

\* A Validated comes without any TransferReady or after TransferEnd; a
\* TransferProgress never exceeds what was read.
VerdictInv ==
    /\ \/ validated # "none"
       \/ \E i \in DOMAIN resp : resp[i].kind = "validated"
       => /\ devPhase \in {"verdict", "closed"}
          /\ devReadySent => devComplete
    /\ \A i \in DOMAIN resp : resp[i].kind = "transfer_progress" => resp[i].bytes <= devBytes
    /\ lastProgress <= devBytes

Succeeded == outcome \in {"already_present", "validated", "transferred",
                         "transferred_unvalidated"}

\* What each report was based on still holds after it.
ReportInv ==
    /\ outcome = "none" <=> mpc \in {"loop", "closed", "count"}
    /\ mpc \in {"closed", "count"} => code = "OK"
    /\ mpc = "count" /\ halfClosed => ended
    /\ Succeeded => code # "none" /\ (halfClosed => ended)
    /\ outcome = "transferred_unvalidated" => ended /\ bytesSent = PackageSize
    /\ outcome = "already_present" => devBytes = 0 /\ \A i \in DOMAIN wire : ~ContentAt(i)
    /\ outcome = "validated" => validated # "none"
    /\ outcome = "validated" /\ devReadySent => devComplete /\ reported = fileLen
    /\ Succeeded => lastProgress <= reported

IInv ==
    /\ TypeOK /\ AccountingInv /\ SenderInv /\ ReadyInv /\ WireInv
    /\ EndInv /\ VerdictInv /\ ReportInv
=============================================================================
