----------------------------- MODULE GnoiModule -----------------------------
(***************************************************************************)
(* The tasks of a playbook that use cisco.gnmi.gnoi, one after the other,  *)
(* against a device that outlives them: main of plugins/modules/gnoi.py    *)
(* (lines 458-519), connect of plugins/module_utils/gnoi/client.py,        *)
(* dispatch of handler.py and the handlers that make unary RPCs            *)
(* (services/os.py, cert.py, reset.py).  The streaming handlers are here   *)
(* up to their stream, which is OsInstall's and CertStream's: their tasks  *)
(* are those the gates or the argument checks end.  "os/unknown" stands    *)
(* for any unregistered operation.                                         *)
(*                                                                         *)
(* A call that fails on the client may have been applied, or may still be  *)
(* applied while later tasks run: such requests are kept in abandoned.     *)
(***************************************************************************)
EXTENDS Naturals, FiniteSets

CONSTANTS
    Versions,      \* OS versions on the device
    CertIds,       \* certificate ids
    Factory,       \* the version of a factory_os reset
    Platforms,     \* what tasks say of the platform
    Playbook,      \* the tasks that are run, in any order and number
    MaxAbandoned   \* bound: abandoned requests the device still works on

ASSUME ConstantsAssumption ==
    /\ Factory \in Versions
    /\ Versions \cap CertIds = {}
    /\ Platforms \subseteq {"auto", "iosxe", "nxos", "iosxr"}
    /\ MaxAbandoned \in Nat

VARIABLES
    \* module
    task,          \* parameters of the task that runs, or ran last
    phase,         \* where main is
    channel,       \* the gRPC channel is open
    verdict,       \* what exit_json or fail_json says
    warned,        \* Verify failed, the handler went on
    call,          \* the unary RPC: "none", "waiting", "answered", "lost"
    reply,         \* its response
    \* device
    running, nextBoot, certs,
    power,         \* "up", "due" (about to reboot), "down"
    abandoned,     \* requests of failed calls, still to be served
    \* history of the current task
    contacted,     \* the device was contacted
    touched,       \* its request changed the device
    accepted,      \* the device accepted its request
    ran,           \* versions that ran since it started
    booted         \* the device booted since it answered Verify

historyVars == <<contacted, touched, accepted, ran, booted>>
deviceVars  == <<running, nextBoot, certs, power, abandoned>>
moduleVars  == <<task, phase, channel, verdict, warned>>
vars == <<moduleVars, call, reply, deviceVars, historyVars>>

Streaming   == {"os/install", "cert/install", "cert/rotate"}
Registered  == {"os/activate", "os/verify", "cert/revoke", "cert/get",
                "cert/can_generate_csr", "factory_reset/start"} \cup Streaming
Operations  == Registered \cup {"os/unknown"}
Mutating    == {"os/activate", "cert/revoke", "factory_reset/start"} \cup Streaming
Destructive == {"os/activate", "factory_reset/start"}

PlatformCapabilities ==
    [p \in {"iosxe", "nxos", "iosxr"} |-> IF p = "iosxe" THEN Registered ELSE {}]

\* Without a capability map nothing is gated.
PlatformSupports(p, o) ==
    p = "auto" \/ PlatformCapabilities[p] = {} \/ o \in PlatformCapabilities[p]

\* args: the version to activate, the ids to revoke; {} if they are missing,
\* as an argument of each streaming task here is.
\* flag: no_reboot or retain_certs; factoryOs: factory_os; tofu: TLS with
\* tls_skip_verify and no CA.  What a handler does not read keeps its default.
Tasks ==
    {t \in [op : Operations, platform : Platforms, args : SUBSET (Versions \cup CertIds),
            flag : BOOLEAN, factoryOs : BOOLEAN,
            confirm : BOOLEAN, check : BOOLEAN, tofu : BOOLEAN] :
        /\ CASE t.op = "os/activate" -> \E v \in Versions : t.args \in {{}, {v}}
             [] t.op = "cert/revoke" -> t.args \subseteq CertIds
             [] OTHER -> t.args = {}
        /\ t.flag \/ t.confirm => t.op \in Destructive
        /\ t.factoryOs => t.op = "factory_reset/start"}

ASSUME PlaybookAssumption == Playbook \subseteq Tasks /\ Playbook # {}

Verdicts == {"none", "failed", "unchanged", "already_active", "changed", "skipped"}
NoReply  == [ok |-> FALSE, value |-> {}]

-----------------------------------------------------------------------------
Init ==
    /\ task \in Playbook
    /\ phase = "idle" /\ channel = FALSE
    /\ verdict = "none" /\ warned = FALSE
    /\ call = "none" /\ reply = NoReply
    /\ running \in Versions /\ nextBoot = running
    /\ certs \in SUBSET CertIds /\ power = "up" /\ abandoned = {}
    /\ contacted = FALSE /\ touched = FALSE /\ accepted = FALSE
    /\ ran = {running} /\ booted = FALSE

-----------------------------------------------------------------------------
(***************************************************************************)
(* main: connect, dispatch, and the finally.                               *)
(***************************************************************************)
\* Ansible runs the module once more.
StartTask ==
    /\ phase = "idle"
    /\ task' \in Playbook
    /\ phase' = "connect"
    /\ verdict' = "none" /\ warned' = FALSE
    /\ contacted' = FALSE /\ touched' = FALSE /\ accepted' = FALSE
    /\ ran' = {running} /\ booted' = FALSE
    /\ UNCHANGED <<channel, call, reply, deviceVars>>

\* Return or raise: main goes to its finally.
Finish(v) == verdict' = v /\ phase' = "leave"

\* The certificate is fetched over a connection of its own; the gRPC channel
\* is created without contacting the device.
Connect ==
    /\ phase = "connect"
    /\ task.tofu => power # "down"
    /\ contacted' = task.tofu
    /\ channel' = TRUE
    /\ phase' = "dispatch"
    /\ UNCHANGED <<task, verdict, warned, call, reply, deviceVars,
                   touched, accepted, ran, booted>>

\* A certificate file cannot be read, or the fetch fails.
ConnectFails ==
    /\ phase = "connect"
    /\ contacted' \in {FALSE, task.tofu /\ power # "down"}
    /\ Finish("failed")
    /\ UNCHANGED <<task, channel, warned, call, reply, deviceVars,
                   touched, accepted, ran, booted>>

\* Seeded fault: only operations named to it need a confirmation.
RefusedUnconfirmedReset(t) ==
    \/ t.op \notin Registered
    \/ ~PlatformSupports(t.platform, t.op)
    \/ (t.op = "factory_reset/start" /\ ~t.confirm)

\* The DispatchErrors of dispatch.
Refused(t) ==
    \/ t.op \notin Registered
    \/ ~PlatformSupports(t.platform, t.op)
    \/ (t.op \in Destructive /\ ~t.confirm)

\* Raised by the handlers before any RPC: neither a version nor an image with
\* one in its header, no image file, no id, no certificate or key.
VersionMissing(t) == t.op = "os/activate" /\ t.args = {}
ImageMissing(t) == t.op = "os/install" /\ t.args = {}
IdsMissing(t) == t.op = "cert/revoke" /\ t.args = {}
MaterialMissing(t) == t.op \in {"cert/install", "cert/rotate"} /\ t.args = {}
ArgumentsMissing(t) ==
    VersionMissing(t) \/ ImageMissing(t) \/ IdsMissing(t) \/ MaterialMissing(t)

DispatchRefuses ==
    /\ phase = "dispatch" /\ Refused(task)
    /\ Finish("failed")
    /\ UNCHANGED <<task, channel, warned, call, reply, deviceVars, historyVars>>

CheckModeSkips ==
    /\ phase = "dispatch" /\ ~Refused(task)
    /\ task.check /\ task.op \in Mutating
    /\ Finish("skipped")
    /\ UNCHANGED <<task, channel, warned, call, reply, deviceVars, historyVars>>

\* The handler, up to its first RPC.
CallHandler ==
    /\ phase = "dispatch" /\ ~Refused(task)
    /\ ~(task.check /\ task.op \in Mutating)
    /\ IF ArgumentsMissing(task)
       THEN Finish("failed") /\ UNCHANGED call
       ELSE /\ phase' = IF task.op = "os/activate" THEN "verify" ELSE "call"
            /\ call' = "waiting"
            /\ UNCHANGED verdict
    /\ UNCHANGED <<task, channel, warned, reply, deviceVars, historyVars>>

\* Seeded fault: the channel is only closed behind a success.
LeaveDisconnectsOnSuccess ==
    /\ phase = "leave"
    /\ channel' = (channel /\ verdict = "failed")
    /\ phase' = "idle"
    /\ UNCHANGED <<task, verdict, warned, call, reply, deviceVars, historyVars>>

\* client.disconnect(), on every way out.
Leave ==
    /\ phase = "leave"
    /\ channel' = FALSE
    /\ phase' = "idle"
    /\ UNCHANGED <<task, verdict, warned, call, reply, deviceVars, historyVars>>

-----------------------------------------------------------------------------
(***************************************************************************)
(* The handlers.                                                           *)
(***************************************************************************)
Received == call = "answered"

\* os/activate: the version is running already.
VerifyMatches ==
    /\ phase = "verify" /\ Received /\ reply.value = task.args
    /\ Finish("already_active")
    /\ call' = "none" /\ reply' = NoReply
    /\ UNCHANGED <<task, channel, warned, deviceVars, historyVars>>

\* os/activate: another one is; send Activate.
VerifyDiffers ==
    /\ phase = "verify" /\ Received /\ reply.value # task.args
    /\ phase' = "call"
    /\ call' = "waiting" /\ reply' = NoReply
    /\ UNCHANGED <<task, channel, verdict, warned, deviceVars, historyVars>>

\* Seeded fault: a Verify that failed counts as a match.
VerifyFailsMatches ==
    /\ phase = "verify" /\ call # "none"
    /\ Finish("already_active")
    /\ warned' = TRUE
    /\ call' = "none" /\ reply' = NoReply
    /\ UNCHANGED <<task, channel, deviceVars, historyVars>>

\* Seeded fault: the warning is not issued.
VerifyFailsSilently ==
    /\ phase = "verify" /\ call # "none"
    /\ phase' = "call"
    /\ call' = "waiting" /\ reply' = NoReply
    /\ UNCHANGED <<task, channel, verdict, warned, deviceVars, historyVars>>

\* Verify may be unavailable; warn and send Activate.
VerifyFails ==
    /\ phase = "verify" /\ call # "none"
    /\ phase' = "call"
    /\ warned' = TRUE
    /\ call' = "waiting" /\ reply' = NoReply
    /\ UNCHANGED <<task, channel, verdict, deviceVars, historyVars>>

\* Seeded fault: the activation_state takes the place of the verdict.
VerdictOfState(o, r) ==
    CASE o \notin Mutating -> "unchanged"
      [] o = "cert/revoke" -> IF r.value # {} THEN "changed" ELSE "unchanged"
      [] OTHER -> IF r.ok THEN "activated" ELSE "failed"

\* Seeded fault: an activate_error is not looked at.
VerdictOfAnyAnswer(o, r) ==
    CASE o \notin Mutating -> "unchanged"
      [] o = "cert/revoke" -> IF r.value # {} THEN "changed" ELSE "unchanged"
      [] OTHER -> "changed"

\* changed follows the ids that went, whatever was refused.
RevokeVerdict(r) == IF r.value # {} THEN "changed" ELSE "unchanged"

\* An activate_error and a reset_error fail.
ActivateVerdict(r) == IF r.ok THEN "changed" ELSE "failed"
ResetVerdict(r)    == IF r.ok THEN "changed" ELSE "failed"

\* changed of the response r to an operation; what only reads changes nothing.
VerdictOf(o, r) ==
    CASE o = "cert/revoke"         -> RevokeVerdict(r)
      [] o = "os/activate"         -> ActivateVerdict(r)
      [] o = "factory_reset/start" -> ResetVerdict(r)
      [] OTHER                     -> "unchanged"

CallReturns ==
    /\ phase = "call" /\ Received
    /\ Finish(VerdictOf(task.op, reply))
    /\ call' = "none" /\ reply' = NoReply
    /\ UNCHANGED <<task, channel, warned, deviceVars, historyVars>>

\* What becomes of the request when its call fails: it never arrived, was
\* served or rejected, or the device still works on it.
Abandon ==
    \/ UNCHANGED abandoned
    \/ /\ call = "waiting" /\ task.op \in Mutating
       /\ power # "down" /\ Cardinality(abandoned) < MaxAbandoned
       /\ abandoned' = abandoned \cup {task}

\* Seeded fault: a device that does not answer is taken to have done nothing.
CallFailsUnchanged ==
    /\ phase = "call" /\ call # "none"
    /\ Finish("unchanged")
    /\ call' = "none" /\ reply' = NoReply
    /\ Abandon
    /\ UNCHANGED <<task, channel, warned, running, nextBoot, certs, power, historyVars>>

\* Seeded fault: the RPC is started without timeout=.
CallFailsWithoutDeadline ==
    /\ phase = "call" /\ call = "lost"
    /\ Finish("failed")
    /\ call' = "none" /\ reply' = NoReply
    /\ Abandon
    /\ UNCHANGED <<task, channel, warned, running, nextBoot, certs, power, historyVars>>

\* RpcError: the deadline, a lost connection or a status of the device.
CallFails ==
    /\ phase = "call" /\ call # "none"
    /\ Finish("failed")
    /\ call' = "none" /\ reply' = NoReply
    /\ Abandon
    /\ UNCHANGED <<task, channel, warned, running, nextBoot, certs, power, historyVars>>

Module ==
    \/ Connect \/ ConnectFails
    \/ DispatchRefuses \/ CheckModeSkips \/ CallHandler \/ Leave
    \/ VerifyMatches \/ VerifyDiffers \/ VerifyFails
    \/ CallReturns \/ CallFails

-----------------------------------------------------------------------------
(***************************************************************************)
(* The device.                                                             *)
(***************************************************************************)
\* Verify, GetCertificates, CanGenerateCSR.
ServeRead ==
    /\ power # "down" /\ call = "waiting"
    /\ phase = "verify" \/ (phase = "call" /\ task.op \notin Mutating)
    /\ call' = "answered"
    /\ reply' = [ok |-> TRUE, value |-> IF task.op = "cert/get" THEN certs ELSE {running}]
    /\ contacted' = TRUE
    /\ booted' = FALSE
    /\ UNCHANGED <<moduleVars, deviceVars, touched, accepted, ran>>

\* Activate sets the next boot version and reboots unless told not to or
\* already running it.
Activate(t) ==
    /\ nextBoot' \in t.args
    /\ power' = IF t.flag \/ t.args = {running} THEN power ELSE "due"
    /\ UNCHANGED certs

Reset(t) ==
    /\ certs' = IF t.flag THEN certs ELSE {}
    /\ nextBoot' = IF t.factoryOs THEN Factory ELSE nextBoot
    /\ power' = "due"

\* Some ids may be refused.
Revoke(t) ==
    /\ certs' \in {certs \ gone : gone \in SUBSET t.args}
    /\ UNCHANGED <<nextBoot, power>>

Accept(t) ==
    CASE t.op = "os/activate" -> Activate(t)
      [] t.op = "cert/revoke" -> Revoke(t)
      [] OTHER -> Reset(t)

\* An id that is not present is revoked silently.
ReplyTo(t) ==
    [ok |-> TRUE,
     value |-> IF t.op = "cert/revoke" THEN t.args \ certs' ELSE {}]

Serve ==
    /\ power # "down" /\ call = "waiting"
    /\ phase = "call" /\ task.op \in Mutating
    /\ call' = "answered"
    /\ contacted' = TRUE
    /\ \/ Accept(task) /\ accepted' = TRUE /\ reply' = ReplyTo(task)
       \/ reply' = NoReply /\ UNCHANGED <<nextBoot, certs, power, accepted>>
    /\ touched' = (touched \/ <<nextBoot, certs, power>>' # <<nextBoot, certs, power>>)
    /\ UNCHANGED <<moduleVars, running, abandoned, ran, booted>>

\* The device gets round to a request whose call has failed.
ServeAbandoned ==
    /\ power # "down"
    /\ \E t \in abandoned :
          /\ abandoned' = abandoned \ {t}
          /\ Accept(t) \/ UNCHANGED <<nextBoot, certs, power>>
    /\ UNCHANGED <<moduleVars, call, reply, running, historyVars>>

\* Every connection breaks.
GoDown ==
    /\ power = "due" /\ power' = "down"
    /\ abandoned' = {}
    /\ call' = IF call = "waiting" THEN "lost" ELSE call
    /\ UNCHANGED <<moduleVars, reply, running, nextBoot, certs, historyVars>>

\* A version that fails to boot gives way to the one that ran.
ComeUp ==
    /\ power = "down" /\ power' = "up"
    /\ running' \in {nextBoot, running}
    /\ nextBoot' = running'
    /\ ran' = ran \cup {running'} /\ booted' = TRUE
    /\ UNCHANGED <<moduleVars, call, reply, certs, abandoned,
                   contacted, touched, accepted>>

Device == ServeRead \/ Serve \/ ServeAbandoned \/ GoDown \/ ComeUp

-----------------------------------------------------------------------------
Next == StartTask \/ Module \/ Device

Spec == Init /\ [][Next]_vars

\* The interpreter is scheduled, and timeout= ends every call: a deadline is
\* one of the RpcErrors.  Nothing is assumed of the device.
FairSpec == Spec /\ WF_vars(Module)

-----------------------------------------------------------------------------
TypeOK ==
    /\ task \in Tasks
    /\ phase \in {"idle", "connect", "dispatch", "verify", "call", "leave"}
    /\ channel \in BOOLEAN
    /\ verdict \in Verdicts
    /\ warned \in BOOLEAN
    /\ call \in {"none", "waiting", "answered", "lost"}
    /\ reply \in [ok : BOOLEAN, value : SUBSET (Versions \cup CertIds)]
    /\ running \in Versions /\ nextBoot \in Versions
    /\ certs \subseteq CertIds
    /\ power \in {"up", "due", "down"}
    /\ abandoned \subseteq Tasks
    /\ contacted \in BOOLEAN /\ touched \in BOOLEAN /\ accepted \in BOOLEAN
    /\ ran \subseteq Versions
    /\ booted \in BOOLEAN

\* A task that may change the device.
Licensed(t) ==
    /\ t.op \in Mutating
    /\ ~t.check
    /\ t.op \in Destructive => t.confirm

\* Check mode, a missing confirm and read-only operations leave the device
\* as it is, and leave no request behind that could still change it
\* (handler.py:91-103, README.md:248-252).  A task the gates stop contacts
\* the device at most to fetch its certificate (client.py:187-188).
OnlyLicensedTasksTouch ==
    /\ touched => Licensed(task)
    /\ \A t \in abandoned : Licensed(t)
    /\ contacted /\ ~task.tofu =>
          task.op \in Registered /\ (task.op \in Mutating => Licensed(task))

\* changed: false is only said of a task whose request changed nothing, lost
\* replies included (handler.py:105-112, os.py:353-366, cert.py:203).
UnchangedMeansUntouched ==
    verdict \in {"unchanged", "already_active"} => ~touched

\* 'already_active' is said of a version that ran during the task
\* (os.py:346-369).
AlreadyActiveRan ==
    verdict = "already_active" => \E v \in ran : task.args = {v}

\* Activate is sent for the running version only if Verify failed, which is
\* warned of, or the device booted after it answered (os.py:346-385).
ReactivatesOnlyUnverified ==
    /\ phase = "call" /\ task.op = "os/activate"
    /\ task.args = {running}
    => warned \/ booted

\* Every task reports and closes its channel, whatever the device does and
\* whichever except clause or gate ended it (gnoi.py:495-519).
TaskReports ==
    phase # "idle" ~>
        phase = "idle" /\ verdict # "none" /\ ~channel /\ call = "none"

-----------------------------------------------------------------------------
(***************************************************************************)
(* The device changes when it serves the operation, and what it answers to *)
(* Verify counts until the handler goes on.                                *)
(***************************************************************************)
Contract == INSTANCE GnoiContract WITH
    stage  <- CASE phase \in {"idle", "leave"} -> "over"
                [] phase = "call" -> "cleared"
                [] OTHER -> "begun",
    report <- verdict,
    seen   <- IF phase = "verify" /\ call = "answered" THEN reply.value ELSE {},
    done   <- accepted,
    late   <- abandoned

\* A task carries out at most one operation, one that it is licensed to, and
\* activates nothing it saw running; what it reports is what came of it:
\* changed: true of an operation the device accepted, changed: false of one
\* that left it alone (handler.py:91-112, os.py:346-396, reset.py:55-74,
\* cert.py:196-203).
ImplementsContract == Contract!Spec
=============================================================================
