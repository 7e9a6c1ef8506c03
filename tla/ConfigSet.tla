------------------------------ MODULE ConfigSet ------------------------------
(***************************************************************************)
(* The tasks of a playbook that use cisco.gnmi.config: run and execute_set *)
(* of plugins/module_utils/module_helper.py (lines 425-463, 252-318), over *)
(* get and set of gnmi_client.py, against a device that other clients      *)
(* configure too.                                                          *)
(*                                                                         *)
(* One task is up to four RPCs: a Get for the backup, a Get for the diff,  *)
(* the Set, and another Get for the diff.  All paths of a task are one     *)
(* place in the configuration of the device, which has one tree per        *)
(* origin.  An origin written into a path reaches every RPC and is not     *)
(* told apart from the default; the origin of the module reaches the Set   *)
(* alone.                                                                  *)
(***************************************************************************)
EXTENDS Naturals, FiniteSets

CONSTANTS
    Values,        \* what the affected paths may hold
    Nothing,       \* {}, the snapshot of a Get that failed
    MaxAbandoned   \* bound: Sets the device still works on after their call

ASSUME ConstantsAssumption == Nothing \notin Values /\ MaxAbandoned \in Nat

VARIABLES
    \* module
    task,          \* parameters of the task that runs, or ran last
    phase,         \* where execute_set is
    channel,       \* the gRPC channel is open
    verdict,       \* what exit_json or fail_json says
    warned,        \* the backup failed, the task went on
    backupFile,    \* the result names a backup file
    before, after, \* the snapshots of the diff
    call,          \* the unary RPC: "none", "waiting", "answered"
    reply,         \* its response
    \* controller
    file,          \* content of the file the task wrote
    \* device
    config,        \* per origin, what the affected paths hold
    abandoned,     \* Sets whose call failed and which may still be applied
    \* history of the current task
    accepted,      \* the device accepted its Set
    heldBefore,    \* per origin, what was configured before its Set
    heldAfter      \* what a Get could see behind it

moduleVars  == <<task, phase, channel, verdict, warned, backupFile, before, after>>
historyVars == <<accepted, heldBefore, heldAfter>>
vars == <<moduleVars, call, reply, file, config, abandoned, historyVars>>

Origins == {"default", "other"}

\* items: "none" for empty lists, "invalid" if one of them is malformed.
Tasks ==
    {t \in [items : {"none", "some", "invalid"}, want : Values, origin : Origins,
            backup : BOOLEAN, diff : BOOLEAN, check : BOOLEAN] :
        t.items # "some" => t.origin = "default"}

\* The SetRequest of a task, and whether the task was entitled to it.
SetRequests == [items : {"none", "some", "invalid"}, want : Values, origin : Origins,
                check : BOOLEAN]

SetRequest(t) ==
    [items |-> t.items, want |-> t.want, origin |-> t.origin, check |-> t.check]

Snapshots == Values \cup {Nothing}

-----------------------------------------------------------------------------
Init ==
    /\ task \in Tasks
    /\ phase = "idle" /\ channel = FALSE
    /\ verdict = "none" /\ warned = FALSE /\ backupFile = FALSE
    /\ before = Nothing /\ after = Nothing
    /\ call = "none" /\ reply = Nothing
    /\ file = Nothing
    /\ config \in [Origins -> Values] /\ abandoned = {}
    /\ accepted = FALSE
    /\ heldBefore = [o \in Origins |-> {config[o]}] /\ heldAfter = {}

-----------------------------------------------------------------------------
(***************************************************************************)
(* The steps of execute_set and their order.                               *)
(***************************************************************************)
\* Seeded fault: check mode is not looked at before the backup.
WantsBackupInCheckMode(t) == t.backup /\ t.items = "some"

WantsBackup(t) == t.backup /\ ~t.check /\ t.items = "some"
WantsDiff(t)   == t.diff /\ t.items = "some"

\* The check-mode return comes behind the first Get of the diff.
AfterBefore(t) == IF t.check THEN "leave" ELSE "set"
AfterBackup(t) == IF WantsDiff(t) THEN "before" ELSE AfterBefore(t)
FirstStep(t)   == IF WantsBackup(t) THEN "backup" ELSE AfterBackup(t)
AfterSet(t)    == IF WantsDiff(t) THEN "after" ELSE "leave"

\* Seeded fault: check mode reports itself in place of a verdict.
ReportsCheckMode(t) == IF t.check THEN "check_mode" ELSE "changed"

\* What a task says that comes to its end.
Reports(t) == IF t.check THEN "skipped" ELSE "changed"

\* Go on with the RPC of step p, or return.
Proceed(p) ==
    /\ phase' = p
    /\ call' = IF p = "leave" THEN "none" ELSE "waiting"
    /\ reply' = Nothing
    /\ verdict' = IF p = "leave" THEN Reports(task) ELSE verdict

\* fail_json or an exception: to the finally of run.
Fail ==
    /\ phase' = "leave" /\ verdict' = "failed"
    /\ call' = "none" /\ reply' = Nothing

\* Ansible runs the module once more.
StartTask ==
    /\ phase = "idle"
    /\ task' \in Tasks
    /\ phase' = "connect"
    /\ verdict' = "none" /\ warned' = FALSE /\ backupFile' = FALSE
    /\ before' = Nothing /\ after' = Nothing /\ file' = Nothing
    /\ accepted' = FALSE
    /\ heldBefore' = [o \in Origins |-> {config[o]}] /\ heldAfter' = {}
    /\ UNCHANGED <<channel, call, reply, config, abandoned>>

\* connect, the normalisation of the items and the backup directory.
Begin ==
    /\ phase = "connect" /\ task.items # "invalid"
    /\ channel' = TRUE
    /\ Proceed(FirstStep(task))
    /\ UNCHANGED <<task, warned, backupFile, before, after, file, config,
                   abandoned, historyVars>>

\* No connection, a malformed item, a backup_path that is empty, goes up or
\* cannot be made.
BeginFails ==
    /\ phase = "connect"
    /\ channel' \in BOOLEAN
    /\ ~channel' \/ task.items = "invalid" \/ WantsBackup(task)
    /\ Fail
    /\ UNCHANGED <<task, warned, backupFile, before, after, file, config,
                   abandoned, historyVars>>

BackupWritten ==
    /\ phase = "backup" /\ call = "answered"
    /\ file' = reply /\ backupFile' = TRUE
    /\ Proceed(AfterBackup(task))
    /\ UNCHANGED <<task, channel, warned, before, after, config, abandoned, historyVars>>

\* Seeded fault: the failed Get is written as an empty configuration.
BackupFailsEmpty ==
    /\ phase = "backup" /\ call # "none"
    /\ warned' = TRUE
    /\ file' = Nothing /\ backupFile' = TRUE
    /\ Proceed(AfterBackup(task))
    /\ UNCHANGED <<task, channel, before, after, config, abandoned, historyVars>>

\* Seeded fault: no warning.
BackupFailsSilently ==
    /\ phase = "backup" /\ call # "none"
    /\ Proceed(AfterBackup(task))
    /\ UNCHANGED <<task, channel, warned, backupFile, before, after, file, config,
                   abandoned, historyVars>>

\* The Get or the writing failed: warn and go on.
BackupFails ==
    /\ phase = "backup" /\ call # "none"
    /\ warned' = TRUE
    /\ Proceed(AfterBackup(task))
    /\ UNCHANGED <<task, channel, backupFile, before, after, file, config,
                   abandoned, historyVars>>

\* The snapshot of a Get: {} if it failed.
Snapshot(s) ==
    \/ call = "answered" /\ s = reply
    \/ call # "none" /\ s = Nothing

TakeBefore ==
    /\ phase = "before"
    /\ before' \in Snapshots /\ Snapshot(before')
    /\ Proceed(AfterBefore(task))
    /\ UNCHANGED <<task, channel, warned, backupFile, after, file, config,
                   abandoned, historyVars>>

SetReturns ==
    /\ phase = "set" /\ call = "answered"
    /\ Proceed(AfterSet(task))
    /\ UNCHANGED <<task, channel, warned, backupFile, before, after, file, config,
                   abandoned, historyVars>>

\* The request never arrived, was applied or refused, or is still worked on.
Abandon ==
    \/ UNCHANGED abandoned
    \/ /\ call = "waiting" /\ Cardinality(abandoned) < MaxAbandoned
       /\ abandoned' = abandoned \cup {SetRequest(task)}

\* Seeded fault: the RPC is started without timeout=.
SetFailsWithoutDeadline ==
    /\ phase = "set" /\ call = "answered"
    /\ Abandon
    /\ Fail
    /\ UNCHANGED <<task, channel, warned, backupFile, before, after, file, config, historyVars>>

\* RpcError: the deadline, a lost connection or a status of the device.
SetFails ==
    /\ phase = "set" /\ call # "none"
    /\ Abandon
    /\ Fail
    /\ UNCHANGED <<task, channel, warned, backupFile, before, after, file, config, historyVars>>

\* Seeded fault: the second snapshot is the first one.
TakeAfterStale ==
    /\ phase = "after" /\ call # "none"
    /\ after' = before
    /\ Proceed("leave")
    /\ UNCHANGED <<task, channel, warned, backupFile, before, file, config,
                   abandoned, historyVars>>

TakeAfter ==
    /\ phase = "after"
    /\ after' \in Snapshots /\ Snapshot(after')
    /\ Proceed("leave")
    /\ UNCHANGED <<task, channel, warned, backupFile, before, file, config,
                   abandoned, historyVars>>

\* Seeded fault: the channel is only closed behind a success.
LeaveDisconnectsOnSuccess ==
    /\ phase = "leave"
    /\ phase' = "idle" /\ channel' = (channel /\ verdict = "failed")
    /\ UNCHANGED <<task, verdict, warned, backupFile, before, after, call, reply,
                   file, config, abandoned, historyVars>>

\* The finally of run.
Leave ==
    /\ phase = "leave"
    /\ phase' = "idle" /\ channel' = FALSE
    /\ UNCHANGED <<task, verdict, warned, backupFile, before, after, call, reply,
                   file, config, abandoned, historyVars>>

Module ==
    \/ Begin \/ BeginFails \/ BackupWritten \/ BackupFails \/ TakeBefore
    \/ SetReturns \/ SetFails \/ TakeAfter \/ Leave

-----------------------------------------------------------------------------
(***************************************************************************)
(* The device.                                                             *)
(***************************************************************************)
\* The Gets of a task name no origin.
ServeGet ==
    /\ phase \in {"backup", "before", "after"} /\ call = "waiting"
    /\ call' = "answered" /\ reply' = config["default"]
    /\ UNCHANGED <<moduleVars, file, config, abandoned, historyVars>>

\* One SetRequest is one transaction.
Applied(r) == IF r.items = "some" THEN [config EXCEPT ![r.origin] = r.want] ELSE config

ServeSet ==
    /\ phase = "set" /\ call = "waiting"
    /\ config' = Applied(SetRequest(task))
    /\ call' = "answered"
    /\ accepted' = TRUE
    /\ heldAfter' = {config'["default"]}
    /\ UNCHANGED <<moduleVars, reply, file, abandoned, heldBefore>>

\* The history of the current task sees every change until the task is over.
Record ==
    CASE phase = "idle" -> UNCHANGED <<heldBefore, heldAfter>>
      [] phase # "idle" /\ accepted ->
            /\ heldAfter' = heldAfter \cup {config'["default"]}
            /\ UNCHANGED heldBefore
      [] OTHER ->
            /\ heldBefore' = [o \in Origins |-> heldBefore[o] \cup {config'[o]}]
            /\ UNCHANGED heldAfter

\* The device gets round to a Set whose call has failed.
ServeAbandoned ==
    /\ \E r \in abandoned :
          config' = Applied(r) /\ abandoned' = abandoned \ {r}
    /\ Record
    /\ UNCHANGED <<moduleVars, call, reply, file, accepted>>

OtherClient ==
    /\ \E o \in Origins, v \in Values : config' = [config EXCEPT ![o] = v]
    /\ Record
    /\ UNCHANGED <<moduleVars, call, reply, file, abandoned, accepted>>

Device == ServeGet \/ ServeSet \/ ServeAbandoned \/ OtherClient

-----------------------------------------------------------------------------
Next == StartTask \/ Module \/ Device

Spec == Init /\ [][Next]_vars

\* The interpreter is scheduled, and timeout= ends every call; nothing is
\* assumed of the device.
FairSpec == Spec /\ WF_vars(Module)

-----------------------------------------------------------------------------
TypeOK ==
    /\ task \in Tasks
    /\ phase \in {"idle", "connect", "backup", "before", "set", "after", "leave"}
    /\ channel \in BOOLEAN
    /\ verdict \in {"none", "failed", "changed", "skipped"}
    /\ warned \in BOOLEAN /\ backupFile \in BOOLEAN
    /\ before \in Snapshots /\ after \in Snapshots
    /\ call \in {"none", "waiting", "answered"}
    /\ reply \in Snapshots /\ file \in Snapshots
    /\ config \in [Origins -> Values]
    /\ abandoned \subseteq SetRequests
    /\ accepted \in BOOLEAN
    /\ heldBefore \in [Origins -> SUBSET Values] /\ heldAfter \subseteq Values

\* A backup the result names holds a configuration from before the change,
\* whatever other clients do (module_helper.py:281-283; config.py:92-94).
BackupIsPreChange ==
    backupFile => file \in heldBefore["default"]

\* Check mode and malformed items reach neither the device nor the disk, not
\* even through a request that outlives the task (module_helper.py:178-180,
\* 270-272, 289-297).
NoEffectInCheckMode ==
    /\ task.check \/ task.items = "invalid" => ~accepted /\ file = Nothing
    /\ \A r \in abandoned : ~r.check /\ r.items # "invalid"

\* changed: true is said of an accepted Set (module_helper.py:306-318), which
\* its diff brackets: before was configured ahead of it and after behind it,
\* unless their Get failed (lines 285-287, 311-316).
DiffBracketsTheSet ==
    verdict = "changed" =>
        /\ accepted
        /\ before \in heldBefore["default"] \cup {Nothing}
        /\ after \in heldAfter \cup {Nothing}

\* Every task reports and closes its channel, whatever the device does and
\* whichever of its RPCs fails (module_helper.py:446-463).
TaskReports ==
    phase # "idle" ~>
        phase = "idle" /\ verdict # "none" /\ ~channel /\ call = "none"

(***************************************************************************)
(* A task implements ConfigContract: a snapshot is taken when the device   *)
(* serves its Get, and lost if the answer is.                              *)
(***************************************************************************)
Answer(p, s) == IF phase = p /\ call = "answered" THEN reply ELSE s

Contract == INSTANCE ConfigContract
    WITH running <- phase \notin {"idle", "leave"},
         report  <- verdict,
         changed <- accepted,
         backup  <- Answer("backup", IF backupFile THEN file ELSE Nothing),
         before  <- Answer("before", before),
         after   <- Answer("after", after),
         late    <- abandoned

\* The up to four RPCs of a task, with the warning in place of a backup and
\* whatever is left to the device by a failed call, are atomic steps in the
\* promised order (module_helper.py:186-211, 252-318).
ImplementsContract == Contract!Spec

\* "Back up the current config (for the affected paths) before applying the
\* change" (config.py:92-94); the Get does not carry the module's origin.
BackupHoldsAffectedPaths ==
    backupFile => file \in heldBefore[task.origin]
=============================================================================
