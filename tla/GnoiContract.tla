---------------------------- MODULE GnoiContract ----------------------------
(***************************************************************************)
(* What the tasks of cisco.gnmi.gnoi with a unary operation promise to the *)
(* playbook, whatever the device and the network do: a task carries out at *)
(* most one operation, in one step, and only one it is licensed to.  An    *)
(* activation first looks at what runs, and is not carried out over a      *)
(* device that runs the version already, unless the task warns that it     *)
(* could not look.  The one report says what the operation came to.  Only  *)
(* a task that failed may still be carried out behind its report.          *)
(* GnoiModule is shown to implement it.                                    *)
(***************************************************************************)
CONSTANTS Versions, CertIds, Factory, Tasks

VARIABLES task,
          stage,     \* "over", "begun", or "cleared" for its operation
          report,    \* what the task reports
          warned,    \* it goes on without having looked
          seen,      \* {} or the version it saw running
          done,      \* its operation was carried out
          touched,   \* it changed the device
          running, nextBoot, certs,
          late       \* tasks that failed, not yet carried out

vars == <<task, stage, report, warned, seen, done, touched, running, nextBoot, certs, late>>

Mutates(t)  == t.op \in {"os/activate", "cert/revoke", "factory_reset/start",
                          "os/install", "cert/install", "cert/rotate"}
Destroys(t) == t.op \in {"os/activate", "factory_reset/start"}
Licensed(t) == Mutates(t) /\ ~t.check /\ (Destroys(t) => t.confirm)

\* How an operation may change the device: retain_certs (flag) keeps the
\* certificates, and only factory_os changes what boots after a reset.
Effect(t) ==
    \/ t.op = "os/activate" /\ nextBoot' \in t.args /\ UNCHANGED certs
    \/ t.op = "cert/revoke" /\ certs \ t.args \subseteq certs' /\ certs' \subseteq certs /\ UNCHANGED nextBoot
    \/ /\ t.op = "factory_reset/start"
       /\ certs' = IF t.flag THEN certs ELSE {}
       /\ nextBoot' = IF t.factoryOs THEN Factory ELSE nextBoot

Init ==
    /\ task \in Tasks /\ stage = "over" /\ report = "none"
    /\ warned = FALSE /\ seen = {} /\ done = FALSE /\ touched = FALSE
    /\ running \in Versions /\ nextBoot = running
    /\ certs \in SUBSET CertIds /\ late = {}

Start ==
    /\ stage = "over" /\ stage' = "begun" /\ task' \in Tasks
    /\ report' = "none" /\ warned' = FALSE /\ seen' = {} /\ done' = FALSE /\ touched' = FALSE
    /\ UNCHANGED <<running, nextBoot, certs, late>>

Look ==
    /\ stage = "begun" /\ task.op = "os/activate" /\ Licensed(task) /\ seen = {}
    /\ seen' = {running}
    /\ UNCHANGED <<task, stage, report, warned, done, touched, running, nextBoot, certs, late>>

Clear ==
    /\ stage = "begun" /\ stage' = "cleared"
    /\ Mutates(task) => Licensed(task)
    /\ \/ task.op # "os/activate" /\ UNCHANGED warned
       \/ task.op = "os/activate" /\ seen \notin {{}, task.args} /\ UNCHANGED warned
       \/ task.op = "os/activate" /\ warned' = TRUE
    /\ seen' = {}
    /\ UNCHANGED <<task, report, done, touched, running, nextBoot, certs, late>>

Operate ==
    /\ stage = "cleared" /\ Licensed(task) /\ ~done
    /\ Effect(task)
    /\ done' = TRUE /\ touched' \in BOOLEAN
    /\ <<nextBoot, certs>>' # <<nextBoot, certs>> => touched'
    /\ UNCHANGED <<task, stage, report, warned, seen, running, late>>

Report ==
    /\ stage # "over" /\ stage' = "over" /\ seen' = {}
    /\ \/ report' = "failed" /\ UNCHANGED late
       \/ /\ report' = "failed" /\ stage = "cleared" /\ Licensed(task) /\ ~done
          /\ late' = late \cup {task}
       \/ report' = "skipped" /\ Mutates(task) /\ task.check /\ UNCHANGED late
       \/ report' = "already_active" /\ task.op = "os/activate" /\ seen = task.args /\ UNCHANGED late
       \/ report' = "unchanged" /\ stage = "cleared" /\ ~touched /\ UNCHANGED late
       \/ report' = "changed" /\ done /\ UNCHANGED late
    /\ UNCHANGED <<task, warned, done, touched, running, nextBoot, certs>>

OperateLate ==
    /\ \E t \in late : late' = late \ {t} /\ (Effect(t) \/ UNCHANGED <<nextBoot, certs>>)
    /\ UNCHANGED <<task, stage, report, warned, seen, done, touched, running>>

\* The device goes down, and comes up with the next or with the old version.
Forget ==
    /\ late' = {}
    /\ UNCHANGED <<task, stage, report, warned, seen, done, touched, running, nextBoot, certs>>

Boot ==
    /\ running' \in {running, nextBoot} /\ nextBoot' = running'
    /\ UNCHANGED <<task, stage, report, warned, seen, done, touched, certs, late>>

Next == Start \/ Look \/ Clear \/ Operate \/ Report \/ OperateLate \/ Forget \/ Boot

Spec == Init /\ [][Next]_vars
=============================================================================
