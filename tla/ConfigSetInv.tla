---------------------------- MODULE ConfigSetInv ----------------------------
(***************************************************************************)
(* The inductive invariant of ConfigSet: which checks a phase of           *)
(* execute_set has behind it, and what the history of the current task     *)
(* says of a reply under way.                                              *)
(***************************************************************************)
EXTENDS ConfigSet

\* A call is under way in the phases of an RPC only, and every phase is
\* reached by the tasks that want it.
PhaseInv ==
    /\ call # "none" <=> phase \in {"backup", "before", "set", "after"}
    /\ call # "none" => task.items # "invalid" /\ verdict = "none"
    /\ phase = "connect" => verdict = "none"
    /\ phase = "backup" => WantsBackup(task)
    /\ phase \in {"before", "after"} => WantsDiff(task)
    /\ phase \in {"set", "after"} => ~task.check
    /\ phase = "idle" => ~channel

\* The device accepts the Set while it is the call under way.
AcceptInv ==
    /\ accepted => /\ ~task.check /\ task.items # "invalid"
                   /\ \/ phase \in {"after", "leave", "idle"}
                      \/ phase = "set" /\ call = "answered"
    /\ phase = "after" => accepted
    /\ phase = "set" /\ call = "answered" => accepted
    /\ verdict = "changed" => accepted
    /\ \A r \in abandoned : ~r.check /\ r.items # "invalid"

\* The history follows the configuration until the task is over.
HistoryInv ==
    phase # "idle" =>
        IF accepted
        THEN config["default"] \in heldAfter
        ELSE \A o \in Origins : config[o] \in heldBefore[o]

\* What a Get saw, and what was made of it.
ReadInv ==
    /\ phase \in {"backup", "before"} /\ call = "answered" =>
          reply \in heldBefore["default"]
    /\ phase = "after" /\ call = "answered" => reply \in heldAfter
    /\ before \in heldBefore["default"] \cup {Nothing}
    /\ after \in heldAfter \cup {Nothing}
    /\ ~accepted => after = Nothing

\* No phase behind the backup is reached without it or the warning.
BackupInv ==
    /\ phase \in {"before", "set", "after"} \/ accepted =>
          (WantsBackup(task) => backupFile \/ warned)
    /\ file # Nothing => ~task.check /\ task.items # "invalid"
    /\ BackupIsPreChange

\* Each snapshot is taken once, ahead of its phase there is none.
FreshInv ==
    /\ phase \in {"connect", "backup"} => ~warned /\ ~backupFile
    /\ phase \in {"connect", "backup", "before"} => before = Nothing
    /\ phase \notin {"leave", "idle"} => after = Nothing

IInv ==
    /\ TypeOK
    /\ PhaseInv
    /\ AcceptInv
    /\ HistoryInv
    /\ ReadInv
    /\ BackupInv
    /\ FreshInv
=============================================================================
