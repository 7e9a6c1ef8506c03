--------------------------- MODULE GnoiModuleInv ---------------------------
(***************************************************************************)
(* The inductive invariant of GnoiModule: what each phase of a task knows  *)
(* about the gates it passed, the call under way and the device.           *)
(***************************************************************************)
EXTENDS GnoiModule

\* A call is under way only while a handler runs, behind every gate, and the
\* verdict and the closed channel come after it.
PhaseInv ==
    /\ call # "none" <=> phase \in {"verify", "call"}
    /\ phase = "verify" => task.op = "os/activate"
    /\ phase \in {"verify", "call"} =>
          /\ task.op \in Registered
          /\ task.op \in Mutating => Licensed(task)
          /\ ~ArgumentsMissing(task)
    /\ phase \notin {"idle", "leave"} => verdict = "none"
    /\ phase = "idle" => ~channel

\* The device is touched by accepting the task's own request, and no earlier
\* than the handler's last call.
TouchInv ==
    /\ touched => accepted
    /\ accepted => Licensed(task)
    /\ accepted => \/ phase \in {"idle", "leave"}
                   \/ phase = "call" /\ call = "answered"
    /\ \A t \in abandoned : Licensed(t) /\ ~ArgumentsMissing(t)

\* Whoever contacts the device otherwise than for its certificate has passed
\* the gates.
ContactInv ==
    contacted /\ ~task.tofu =>
        task.op \in Registered /\ (task.op \in Mutating => Licensed(task))

\* What an answer says of the device.
ReplyInv ==
    /\ phase = "call" /\ call = "answered" /\ task.op \in Mutating =>
          /\ reply.ok \/ reply.value # {} => accepted
          /\ task.op = "cert/revoke" /\ reply.value = {} => ~touched
    /\ phase = "verify" /\ call = "answered" =>
          \E v \in ran : reply.value = {v} /\ (v = running \/ booted)

\* What the verdict rests on.
VerdictInv ==
    /\ verdict \in {"unchanged", "already_active"} => ~touched
    /\ verdict = "changed" => accepted
    /\ AlreadyActiveRan

RunningInv ==
    /\ running \in ran
    /\ ReactivatesOnlyUnverified

IInv ==
    /\ TypeOK
    /\ PhaseInv
    /\ TouchInv
    /\ ContactInv
    /\ ReplyInv
    /\ VerdictInv
    /\ RunningInv
=============================================================================
