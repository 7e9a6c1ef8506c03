--------------------------- MODULE ConfigContract ---------------------------
(***************************************************************************)
(* What cisco.gnmi.config promises to the playbook, whatever the device,   *)
(* the network and other clients do: a task is at most four steps on the   *)
(* configuration, each of them atomic and none taken twice: a snapshot for *)
(* the backup, one for the diff, one change, another snapshot.  The change *)
(* waits for the backup that was asked for or for the warning that there   *)
(* is none, and the one report says whether it took place.  Only a task    *)
(* that failed may still change the configuration behind its report.       *)
(* ConfigSet is shown to implement it.                                     *)
(***************************************************************************)
CONSTANTS Values, Nothing, Origins, Tasks

VARIABLES task,
          running,
          report,                  \* what the task reports
          warned,                  \* it goes on without the backup
          changed,                 \* its change took place
          backup, before, after,   \* the snapshots, or Nothing
          config,                  \* per origin, what is configured
          late                     \* changes of failed tasks, not yet made

vars == <<task, running, report, warned, changed, backup, before, after, config, late>>

Change(t) == [items |-> t.items, want |-> t.want, origin |-> t.origin, check |-> t.check]

MayChange(t) == ~t.check /\ t.items # "invalid"
BacksUp(t)   == t.backup /\ ~t.check /\ t.items = "some"
Compares(t)  == t.diff /\ t.items = "some"

Init ==
    /\ task \in Tasks /\ running = FALSE /\ report = "none"
    /\ warned = FALSE /\ changed = FALSE
    /\ backup = Nothing /\ before = Nothing /\ after = Nothing
    /\ config \in [Origins -> Values] /\ late = {}

Start ==
    /\ ~running /\ running' = TRUE /\ task' \in Tasks
    /\ report' = "none" /\ warned' = FALSE /\ changed' = FALSE
    /\ backup' = Nothing /\ before' = Nothing /\ after' = Nothing
    /\ UNCHANGED <<config, late>>

Ahead   == running /\ ~changed
Secured == BacksUp(task) => backup # Nothing \/ warned

TakeBackup ==
    /\ Ahead /\ ~Secured /\ BacksUp(task) /\ before = Nothing
    /\ backup' = config["default"]
    /\ UNCHANGED <<task, running, report, warned, changed, before, after, config, late>>

\* The snapshot failed, was lost, or could not be written.
GiveUpBackup ==
    /\ Ahead /\ ~warned /\ BacksUp(task) /\ before = Nothing
    /\ warned' = TRUE /\ backup' = Nothing
    /\ UNCHANGED <<task, running, report, changed, before, after, config, late>>

TakeBefore ==
    /\ Ahead /\ Secured /\ Compares(task) /\ before = Nothing
    /\ before' = config["default"]
    /\ UNCHANGED <<task, running, report, warned, changed, backup, after, config, late>>

LoseBefore ==
    /\ Ahead /\ before' = Nothing
    /\ UNCHANGED <<task, running, report, warned, changed, backup, after, config, late>>

Made(c) == IF c.items = "some" THEN [config EXCEPT ![c.origin] = c.want] ELSE config

MakeChange ==
    /\ Ahead /\ Secured /\ MayChange(task)
    /\ config' = Made(Change(task)) /\ changed' = TRUE
    /\ UNCHANGED <<task, running, report, warned, backup, before, after, late>>

TakeAfter ==
    /\ running /\ changed /\ Compares(task) /\ after = Nothing
    /\ after' = config["default"]
    /\ UNCHANGED <<task, running, report, warned, changed, backup, before, config, late>>

Report ==
    /\ running /\ running' = FALSE
    /\ \/ report' = "changed" /\ changed /\ UNCHANGED late
       \/ report' = "skipped" /\ task.check /\ UNCHANGED late
       \/ report' = "failed" /\ UNCHANGED late
       \/ /\ report' = "failed" /\ ~changed /\ Secured /\ MayChange(task)
          /\ late' = late \cup {Change(task)}
    /\ before' \in {before, Nothing} /\ after' \in {after, Nothing}
    /\ UNCHANGED <<task, warned, changed, backup, config>>

MakeLateChange ==
    /\ \E c \in late : config' = Made(c) /\ late' = late \ {c}
    /\ UNCHANGED <<task, running, report, warned, changed, backup, before, after>>

Others ==
    /\ \E o \in Origins, v \in Values : config' = [config EXCEPT ![o] = v]
    /\ UNCHANGED <<task, running, report, warned, changed, backup, before, after, late>>

Next ==
    \/ Start \/ TakeBackup \/ GiveUpBackup \/ TakeBefore \/ LoseBefore \/ MakeChange
    \/ TakeAfter \/ Report \/ MakeLateChange \/ Others

Spec == Init /\ [][Next]_vars
=============================================================================
