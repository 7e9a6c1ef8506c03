# Verification of cisco.gnmi

TLA+ models of the Ansible collection `cisco.gnmi` (`src/`), checked by TLC on
small instances and proved by TLAPS for all values of the constants. Every
definition is translated from the source; `PROJECT.json` gives, for each
definition, the lines it stands for.

Run from this directory:

    tlc -workers 2 -config MCOsInstall.cfg MCOsInstall      # a run
    tlapm OsInstallProofs.tla                               # the proofs about it

## 1. The system

The collection runs on the Ansible controller. Each task of a playbook is one
process: it parses its options, opens one gRPC channel to a network device,
makes one or more RPCs, reports through `exit_json` or `fail_json`, and closes
the channel in a `finally`. Nothing survives the process but what it wrote: a
backup file on the controller, a configuration, an image or a certificate on
the device. The device outlives every task, and so does a request whose call
failed on the client only.

| Component | Code | State | Operations |
|---|---|---|---|
| gNOI os/install | `gnoi/services/os.py` 99-310 | response loop, sender thread, `ready_event`, `send_state`, the stream | one bidirectional RPC |
| gNOI os/activate, os/verify | `gnoi/services/os.py` 313-420 | what Verify answered | Verify, then Activate |
| gNOI cert service | `gnoi/services/cert.py` | `send_queue`, the stream, what the id is bound to | install, rotate (streams); revoke, get, can_generate_csr (unary) |
| gNOI factory_reset | `gnoi/services/reset.py` | none | start |
| gNOI registry, dispatcher, module entry | `gnoi/registry.py`, `gnoi/handler.py`, `modules/gnoi.py` | options, verdict, channel | gates: registered, platform, confirm, check mode |
| gNOI client | `gnoi/client.py` | channel, credentials | connect, disconnect, error translation |
| gNMI transport | `gnmi_client.py` 203-550 | channel, encoding, platform | connect, TLS and trust on first use, restrictions |
| gNMI Capabilities, Get, Set | `gnmi_client.py` 560-910 | none of its own | three unary RPCs |
| gNMI Subscribe | `gnmi_client.py` 916-1015 | collected updates | one stream, three modes |
| gNMI paths and origins | `gnmi_client.py` 556-780 | none | path building and printing |
| GnmiModule | `module_helper.py` | result, backup file, snapshots | run, execute_get / set / subscribe / capabilities |
| Ansible modules | `modules/*.py` | options | main |
| Protobuf code | `gnmi_pb2*.py`, `gnoi/protos/` | none | generated |

How they interact: a module's `main` calls `GnmiModule.run` or, for gNOI,
`connect` and `dispatch`; a handler calls stubs of the channel; gRPC runs the
request iterator of a streaming call in a thread of its own, which shares an
`Event` and a dictionary (os/install) or a `Queue` (cert/rotate) with the main
thread; errors come back as `grpc.RpcError`, are translated by the client and
become `fail_json`.

What is hard about it:

* *Two threads and a deadline* (os/install, cert/rotate). The main thread
  decides what the task reports while the sender still reads the image. The
  end of the loop releases the sender; the counters are ahead of what was
  delivered; the deadline, a status of the device and a late answer race.
* *Replies that are lost* (os/activate, factory_reset, cert/revoke, Set). A
  call that failed on the client may have been applied, or be applied during a
  later task; Activate reboots the device it was answered by.
* *Several RPCs in one task* (backup, before, Set, after). Other clients
  configure the device in between, and each of the RPCs may fail alone.
* *A stream whose end is a failure* (Subscribe). The same deadline is the
  normal end of a stream and an error of the RPC; only one of the three modes
  looks at `sync_response`; an error ends the loop and drops what it collected.
* *Trust established twice* (transport). The certificate is fetched over one
  connection and trusted on the next one; which root, name and credentials
  count depends on six options that override each other.
* *Names that must survive two conversions* (paths). A text becomes a path
  with an origin, elements and keys, the device answers with a path, and the
  path becomes the key of the report.
* *The report itself.* `changed` drives the playbook: true when nothing
  changed runs handlers for nothing, false when something did hides it.

What makes each component correct:

| Component | Correct when |
|---|---|
| os/install | content flows only once asked for; a report claims no more than was sent; both threads end |
| cert | nothing is committed before its answer was seen; success means the device closed with OK; the sender ends |
| activate, reset, revoke | unlicensed tasks never touch the device; `changed` follows acceptance; no reactivation of what runs |
| dispatcher, entry | every gate precedes the first RPC; every exit closes the channel and reports |
| GnmiModule set | the backup precedes the change; the diff is around it; check mode has no effect |
| Subscribe | a success is the whole stream, in order; a duration ends the task; nothing unlisted is sent without a warning |
| transport | credentials go only where the options allow; the channel is closed |
| paths | the request names the place the user meant; the report holds its value under the user's text |

## 2. Modules

| Module | What it is |
|---|---|
| `OsInstall` | the install handler, its sender, the gRPC stream and the device |
| `InstallContract` | what os/install promises: the abstract specification `OsInstall` implements |
| `OsInstallInv`, `OsInstallProofs` | inductive invariant and proofs |
| `CertStream`, `CertStreamInv`, `CertStreamProofs` | cert/install and cert/rotate as streams; invariant; proofs |
| `CertContract` | what cert/install and cert/rotate promise: the abstract specification `CertStream` implements |
| `GnoiModule`, `GnoiModuleInv`, `GnoiModuleProofs` | a playbook of gnoi tasks: connect, gates, unary handlers, a device that reboots; invariant; proofs |
| `GnoiContract` | what the tasks of the unary gnoi operations promise: the abstract specification `GnoiModule` implements |
| `ConfigSet`, `ConfigSetInv`, `ConfigSetProofs` | a playbook of config tasks: backup, diff, Set, check mode; invariant; proofs |
| `ConfigContract` | what config tasks promise: the abstract specification `ConfigSet` implements |
| `Subscribe`, `SubscribeInv`, `SubscribeProofs` | a subscribe task, its stream and its device; invariant; proofs |
| `GnmiPath`, `GnmiPathProofs` | texts to paths, paths to texts, typed values: operators without state; proofs for texts of any length |
| `Transport` | how both clients reach the device: options, trust, handshake; extended by a module that adds the RPC |
| `InfoGet`, `InfoGetInv`, `InfoGetProofs` | an info or capabilities task: `Transport` and `GnmiPath` composed; invariant; proofs |
| `MCOsInstall`, `MCCertStream`, `MCGnoiModule`, `MCConfigSet`, `MCSubscribe`, `MCInfoGet` | instances for TLC |

Definitions called *seeded fault* in the modules are no part of the
specifications: each is a plausible bug of the code that a property must catch
(the `mutants` of `PROJECT.json`).

### OsInstall

`mpc` is the main thread: `loop` is the `for` over the responses, `closed` the
code behind a clean end, `count` the read of `bytes_sent` after the `finally`,
`done` behind the report and `disconnected` behind `client.disconnect()`. `spc`
is the sender inside `request_iterator`: waiting for `ready_event`, reading a
chunk, handing a message to gRPC. `readyEvent`, `bytesSent`, `ended` and
`sendError` are `ready_event` and `send_state`. `wire` and `resp` are the two
directions of the stream, `status` the device's status behind `resp`, `code`
what the client's threads have learnt of the end of the RPC, `expired` the
deadline. A chunk is the file position it ends at. The device answers what
`os.proto` lets it answer: Validated without a transfer, TransferReady,
progress, sync progress, the final verdict, an install error, or a status at
any time. The file may have another length than `getsize()` said.

### CertStream

The main thread of rotate queues the load, waits for one response (`first`),
queues the Finalize and the sentinel and drains (`drain`); install starts in
`drain` with its one message. The sender takes from `queue`, yields, and stops
at the sentinel. On the device an id is bound as `before`, `provisional` (a
rotation not finalized, rolled back when the stream ends) or `committed`. An
OK keeps what was committed; an error status rolls it back even behind a
Finalize (`cert.proto` 110-111, 353-356); behind a client that has gone the
device may do either (`LeftBound`).

### GnoiModule

`phase` follows main: connect, dispatch (unregistered, platform, confirm,
check mode, the handler's arguments, in the order of the code), Verify for
os/activate, the call, the `finally`. A failed call leaves its request in
`abandoned`: it may never arrive, may have been accepted, or may be served later. The device holds
a running and a next version, certificates, and reboots after an accepted
Activate; it may refuse a revocation for some of the ids. os/install,
cert/install and cert/rotate are here up to their argument checks: a task of
theirs lacks an argument, and what runs behind the checks is `OsInstall` and
`CertStream`. `Playbook` is the set of tasks that are run, `Tasks` all there
can be; the proofs take any `Playbook`. `contacted`, `touched`, `accepted`, `ran` and `booted` are history
variables of the current task.

### ConfigSet

`phase` follows `execute_set`: connect, the Get of the backup, the Get before,
the Set, the Get after, the `finally` of `run`; a task skips what it did not
ask for. All paths of a task are one place in the configuration, which has one
tree per origin. Between two steps other clients and abandoned Sets change the
configuration. `heldBefore` and `heldAfter` are history variables: everything
that was configured since the task started and before its Set, and everything
a Get could have seen after it.

### Subscribe

`phase` follows the task: connect, the restrictions of the platform, the
request, the loop over the responses, the disconnect. `spc` is gRPC's sender
around `iter([request])`: one message, then the half-close, so a Poll is never
sent. A response is its position in `sent`, the history of everything the
device said; `updates` is the list of the loop, `taken` how far it got, and
`report` what a success returns. `code` is the end of the RPC as the client
knows it: the device's status behind its last response, the deadline (the
duration), a lost connection, or CANCELLED by the disconnect. The device may
send updates, one `sync_response`, something unreadable or the deprecated
error, may end the stream at any time with any status, or stay silent.

### Transport and GnmiPath

`Transport` has the connection options, the roots, name and channel that
`connect` derives from them, and the certificate the device presents, which
may change at any time before the handshake. A certificate has an issuer, a
common name and the names it vouches for. The handshake belongs to the first
RPC, not to `connect`.

`GnmiPath` reads a path text as a sequence of tokens: the punctuation the code
looks for and words it does not look into, but for two things: whether the
first one is an identifier, and which namespaces it begins with (the constants
`Identifiers`, `NativeNamespaces` and `OpenconfigNamespaces`). The option
`origin` is a word, empty, or `NotGiven`: an empty one suppresses the origin of
the text, as `is not None` does in the code. `BuildPath` and
`PathToString` are `_build_path` and `_path_to_string` over tokens, with
`str.split`, `join`, `strip` and `index` as they work; the splits and the join
are recursive functions on the sequences of tokens. `PathRecords` are the
paths a user can mean: an origin or none, elements with a namespace or none, a
name, and keys with different names. `AsText` writes one down, `PlaceElems` is
the elements it means, `Own` the origin it states itself, in front or by the
namespace of its first element. `Carried` says of a path that its key values
are free of slashes and brackets, which the text form has no way to escape;
`OneKey` that no element has two keys, which `_path_to_string` would print in
one pair of brackets.

### InfoGet

`phase` continues that of `Transport`: the request is built, the RPC called,
the answer parsed, the channel closed. A task asks for places, structured
paths; `AsText` writes them the way a playbook does, the code turns the text
into a request, and the device answers each path it was sent with the place it
took the path to name. It may answer in any order, and may say any part of the
place in the prefix of the notification and the rest in the path of the update.
`PlaceMeant` is what the user meant, computed from the structured path without
the text, so what the report says can be compared. Its origin is the one in
front of the path, which by `info.py` 50-51 overrides the option; then the
option; then what the namespace of the path says (a path below a prefix that
begins with a known namespace keeps the origin of that namespace), then what its
prefix says. A path with an origin in front that the option contradicts is
named by `Overrides`: there the code lets the option win, so the properties
about paths leave such a path out, and the README lists the divergence below.

## 3. Runs

| Run | Configuration | Expected | Question |
|---|---|---|---|
| `os_install` | `MCOsInstall.cfg` | pass, 142,704 states | does the handler keep its accounts and end both threads, and implement `InstallContract`? |
| `os_install_clean_close` | `OsInstallCleanClose.cfg` | violation | is success only reported for a whole image? |
| `os_install_already_present_race` | `OsInstallAlreadyPresentRace.cfg` | violation | is "validated without a transfer" reported as no change? |
| `cert_stream` | `MCCertStream.cfg` | pass, 4,302 states | is a rotation committed and ended in order, does the sender stop, and is the whole one transaction (`CertContract`)? |
| `cert_stream_uncommitted` | `CertStreamUncommitted.cfg` | violation | does success mean a committed certificate? |
| `gnoi_module` | `MCGnoiModule.cfg` | pass, 232,256 states | do the gates and the reports hold against a device that reboots and loses replies, and is a task at most one licensed operation (`GnoiContract`)? |
| `config_set` | `MCConfigSet.cfg` | pass, 285,504 states | what do backup, diff and verdict say of the Set when others configure the device, and are they atomic steps in order (`ConfigContract`)? |
| `config_set_backup_origin` | `ConfigSetBackupOrigin.cfg` | violation | does the backup hold the affected paths? |
| `subscribe` | `MCSubscribe.cfg` | pass, 112,036 states | is a success the whole stream, and does a duration end the task? |
| `subscribe_duration` | `SubscribeDuration.cfg` | violation | does a stream return when its duration is over? |
| `info_get` | `MCInfoGet.cfg` | pass, 56,336 states | whom does a task trust, and does the report answer what was asked? |
| `info_get_slash_keys` | `InfoGetSlashKeys.cfg` | violation | can a key value hold a slash? |

### Bounds

* `os_install`: `PackageSize` 3 and `ChunkSize` 2, so that there are two
  chunks and the last one is short; `FileLengths` {0, 2, 3, 5}: emptied, cut,
  as announced, grown; `Window` 1, so that the sender may be one message ahead
  or block; `RespWindow` 2, so that a verdict can queue behind a progress.
* `cert_stream`: a stream has at most three messages; `Window` 0 lets the
  sender block on each.
* `gnoi_module`: two versions (one runs, one boots), two certificate ids, so
  that one of them can be refused; every task but those that repeat another
  with options that no longer matter (check mode, trust on first use);
  platform `iosxe` (the only one with a capability map), one abandoned request
  beside the current one. The playbook is endless; earlier tasks matter by
  what they leave in the device and in `abandoned`.
* `config_set`: two configurations, so that before and after differ; two
  origins; one abandoned Set beside the current one; an endless playbook.
* `subscribe`: no subscription, one that cannot be encoded, two of which one is
  not listed by the platform; four responses, enough for updates on both sides
  of a `sync_response` or of something unreadable.
* `info_get`: nine records of options, one for each precedence (insecure over
  everything, pin over first use, given name over common name, half a client
  certificate, files that are missing); five certificates: the authority's
  own, two a device made for itself, one the authority issued, one public; the
  device changes it as often as it likes. Fifteen tasks, one for each form of a
  path: plain, with an origin in the text, with a native, OpenConfig or unknown
  namespace, below a prefix, two siblings below one prefix, with none, one or
  two keys, a key with "=" or "/", one place under two origins; with the option
  `origin` left out, empty, in agreement with the path, or against it.

The proofs do not depend on these bounds.

### Fairness

* `os_install`, `cert_stream`: weak fairness of the main thread, of the sender
  (the interpreter schedules both) and of the clock: `timeout=` is passed to
  the RPC, so the deadline comes. Nothing is assumed of the device or network.
* `gnoi_module`, `config_set`, `info_get`: weak fairness of the module. It is enough that
  the module can always take a step, and it can: every stub call passes
  `timeout=`, so a call that is not answered fails. Nothing is assumed of the
  device, and `StartTask` is not fair: a playbook may end.
* `subscribe`: weak fairness of the main thread and of the deadline, which only
  a task with a duration has. `TimedTaskReturns` is about those; a task without
  one waits for the device, in every mode, and may wait for ever.
* Deadlock is checked in every run. A finished handler stutters (`Finished`),
  so every other state without a successor would be reported.

### What the passing runs show

* os/install: content reaches a device that never asked for it only behind the
  end of the loop; TransferEnd never follows a file read in part; "already
  present" is said only if no content was or will be delivered; the success
  behind a failed RPC covers only a file of the announced size; a sender that
  gave up is never reported as a transfer; the counts of the report are exact
  or conservative; handler and sender end.
* cert: the device commits no rotation whose load response the client has not
  seen; the sending side is closed only behind the Finalize; success needs the
  device's OK, so no refused id is reported; handler and sender end; the whole
  is a transaction that leaves nothing half done behind its end and nothing done
  behind an error, and whose success stands behind the OK of the device.
* gnoi: unlicensed tasks change nothing, not even through a request that
  outlives them; `changed: false` and `changed: true` are both earned; a task
  carries out at most one operation, in one step, behind its look at the device;
  `already_active` names a version that ran; Activate goes to a device that
  runs the version only behind a warning or a reboot.
* config: a named backup is from before the change; check mode reaches neither
  the device nor the disk; a diff is around its Set; every task reports and
  closes its channel; and a task is four atomic steps in order, of which the
  change waits for the backup or for the warning that there is none.
* subscribe: a success reports every update up to the `sync_response` of once
  or the OK of the device, in order, each once; nothing unreadable is hidden;
  a mode the platform does not list is sent only behind its warning, poll
  never; a task with a duration returns in every mode.
* info: the request and its credentials leave in plaintext only if the options
  say insecure, else only to a certificate the options ask for, even if the
  device changes it between the fetch and the handshake; NOT_FOUND means that
  the device lacks a place that was asked for; every value of a report is that
  of a place that was asked for, under the end of its text, whatever order and
  prefixes the device answers with; if the device keeps to the prefix of the
  task, every path asked for is a key; every task reports and closes its
  channel. The statements about paths are conditional: key values without a
  slash or a bracket, no path whose own origin contradicts the option, and for
  the report at most one key per element (several are printed in one pair of
  brackets). They leave room for what `_parse_get_response` loses
  (`gnmi_client.py` 831-838): it prints neither the origin nor the prefix of a
  notification, so of two values whose keys then agree the later one stays. For
  origins the run shows it: the value under a key may be that of the other place
  asked for under the same text.

### What the violation runs show

Each of them states a sentence of a comment, a test or a document; the trace
shows what the code does instead.

1. `SuccessMeansWholeImageSent` (`test_gnoi.py:479-480`): a stream the device
   closes with OK before TransferEnd reaches the final return of install
   (`os.py:290-310`), which reports a change and counts nothing.
2. `UnrequestedImageReportsNoChange` (`os.py:264-267`): the `finally` wakes
   the sender before `bytes_sent` is read, so it may count a first chunk.
3. `SuccessMeansCommitted` (`cert.py:106`, `123-125`): an end of stream with
   OK before the Finalize, or before any response, is reported as success.
4. `BackupHoldsAffectedPaths` (`config.py:92-93`): the backup's Get does not
   carry the module's `origin`, the Set does.
5. `DurationIsNoFailure` (`subscribe.py:68-69`): the duration is the deadline
   of the RPC, so a stream that lasts it out fails with DEADLINE_EXCEEDED and
   reports none of its updates (`gnmi_client.py:962`, `981-983`).
6. `SlashKeysAreFound` (`test_examples.yml:65`): `_build_path` splits at the
   slashes inside a key too (`gnmi_client.py:607`), so
   `interface[name=GigabitEthernet1/0/1]` names three elements without a key.

### Divergences without a run

Met while modelling; each is visible in the modules, none is checked.

* `os.py:205-207` says every byte was delivered when the RPC fails behind the
  whole file; the counters run ahead of delivery (`os.py:159-161`).
* `README.md:248-250` says an unconfirmed task does nothing; `main` connects
  first, and trust on first use opens a TLS connection for the certificate.
  `OnlyLicensedTasksTouch` states that this is the only contact.
* `LAB_GUIDE.md:161` expects `changed: false` of an identical Set;
  `gnmi_client.py:888` says changed of every Set the device accepts.
* `info.py:50-51` ("This per-path origin overrides the module-level I(origin)
  option for that path only"), `info.py:73-74` and `config.py:119-121` promise
  that the origin in front of a path wins over the option; in `_build_path` the
  argument wins (`gnmi_client.py:574-575`, `625`), and `execute_get` passes the
  option as the argument of every path, so `openconfig:/interfaces` under
  `origin: rfc7951` asks for the other tree. `Overrides` names these paths, and
  the run has one.
* `gnmi_client.py:183-185` says the restrictions of a known platform "are
  enforced as errors", `README.md:211-217` that they are "enforced
  automatically". Those of Subscribe are warnings, as the docstring of the
  method (`gnmi_client.py:347`) and the tests have it: only poll on a platform
  that does not list it is refused. `SentIsAllowedOrWarned` states what the code
  does.
* `_parse_get_response` (`gnmi_client.py:831-838`) ignores the prefix of a
  notification, which `_parse_notification` of Subscribe reports: if the device
  moves what tells two answers apart into the prefixes, one value hides the
  other, and the keys of the report are no longer the paths of the task.
* `os.proto:188-192` leaves comparing the validated version with the requested
  one to the client, which reports it without comparing.
* `already_active` compares the running version (`os.py:353`); after an
  activation with `no_reboot` the next boot may be another one.

## 4. Proofs

Each proof module proves `Spec => []IInv` for the conjunction `IInv` of its
`...Inv` module, from three facts: `Init => IInv`, `IInv /\ [Next]_vars =>
IInv'` (one lemma or step per action, under it one step per conjunct), and
`IInv => P` for each property P. `IInv` was first checked with TLC. Listed in
`PROJECT.json` under `theorems`.

| Component | Proved for all constants | Only checked by TLC |
|---|---|---|
| OsInstall | TypeOK, the seven safety invariants, `ImplementsContract` | HandlerReturns, SenderReleased |
| CertStream | TypeOK, CommitOnlyOnceSeen, StreamEndsBehindFinalize, SuccessNotOverRefusedId, `ImplementsContract` | HandlerReturns, SenderReleased |
| GnoiModule | TypeOK, the four safety invariants, `ImplementsContract` | TaskReports |
| ConfigSet | TypeOK, the three safety invariants, `ImplementsContract` | TaskReports |
| Subscribe | TypeOK, SuccessReportsTheStream, SentIsAllowedOrWarned | TimedTaskReturns |
| InfoGet | TypeOK and the three safety invariants | TaskReports |
| GnmiPath | `BuildPathOfText`, `TextIsUnambiguous`, `PathToStringOfPlace` | |

So every safety invariant and every action property of the passing runs is a
theorem. Liveness under fairness is out of the prover's reach and stays with
TLC.

Assumptions: the named ASSUMEs only. `SizesAssumption` (sizes are naturals, a
chunk and the response window are not empty), `WindowAssumption`, and
`ConstantsAssumption` of `GnoiModule` (the factory version is a version,
versions and ids differ, known platforms) with its `PlaybookAssumption` (the
playbook is of tasks, at least one) and of `ConfigSet` (the empty
snapshot is no configuration) and of `Subscribe` (the option is a list of
subscriptions), `TransportAssumption` (the options have their types, `NoCert`
is no certificate), `TasksAssumption` of `InfoGet` (the tasks have their
types, and a task has at most one prefix) and `WordsAssumption` of `GnmiPath`
(a word is neither punctuation nor empty; identifiers and namespaces are words).

Why the properties are not inductive, and what is added:

* `OsInstallInv`. The properties speak of reports and of received bytes, a
  step speaks of messages under way. `WireInv` orders the content in flight
  between what the device has and what was read; `EndInv` says that as long as
  the RPC lives, everything read is received or in flight (`Reaches`), so the
  TransferEnd, last in the queue, finds the device with the whole file;
  `SenderInv` ties the sender's place to `ready_event` and `send_state`;
  `ReportInv` keeps what each report rested on.
* `CertStreamInv`. The load and the Finalize are each in one place: queue,
  yielded, wire or device. `EndInv` says that while the RPC is open a sentinel
  is preceded by its Finalize.
* `GnoiModuleInv`. Each phase has its gates behind it (`PhaseInv`); the device
  is touched by accepting the current request, no earlier than the last call
  (`TouchInv`); without trust on first use only a task that passed the gates
  has contacted it (`ContactInv`); an answer names what ran (`ReplyInv`).
* `ConfigSetInv`. `HistoryInv` ties the configuration to the history until the
  task is over, so that what a Get sees is in it (`ReadInv`); `BackupInv` says
  that no phase behind the backup is reached without the file or the warning,
  `FreshInv` that nothing is left of what an earlier task warned of or read.
* `SubscribeInv`. `QueueInv` says that what is on its way is what the device
  sent behind `taken`; `CollectInv` that the list of the loop is the updates
  among the first `taken`; `CodeInv` that OK arrives only once everything was
  taken and the device has closed. Together they make a report whole.
  `VerdictInv` keeps it behind the verdict, `RestrictInv` that only a task that
  passed the restrictions has a sender.
* `InfoGetInv`. `RootsAsked` says of a channel with TLS that its roots are
  those the options ask for; `UntrustedInv` that no root exists before the
  options were read; `SessionInv` that a session was accepted by that
  handshake, whatever the device presents since. `ReportInv` is a second one,
  for the data: the request is what `_build_path` makes of the task
  (`Requested`), each update is one of a place it names and each of these has one
  (`Answered`), a
  report is what `_parse_get_response` makes of them, and NOT_FOUND means that a
  place the request names is missing. It says nothing of what a text names;
  that is what `GnmiPathProofs` adds.

The refinements: `ImplementsContract` of `OsInstall` maps `offered` to `bytesSent`, `transfer`
to what `ended` and `sendError` say, `report` to `outcome`. A step of the
sender maps to Offer, EndTransfer or a stutter, the step that decides the
outcome to Report, all others stutter. `ImplementsContract` of `CertStream`
maps the binding of the id, the answer, the client's view of it, the end of the
stream (none, OK, an error, or lost behind a client that has gone) and the
outcome; what queue, sender and wire do stutters, and `LoadInv`
and `FinalizeInv` say that a message that arrives is one the contract allows.
`ImplementsContract` of `GnoiModule` maps the phase to what the task may do next
(`stage`) and takes the answer to a Verify for what the task saw. The look and
the operation happen when the device serves them; the answer that starts the
call clears it, and a call that fails may leave its operation to `late`.
`ImplementsContract` of `ConfigSet` takes each snapshot when the device serves
its Get, so that an answer the client has not read counts (`Answer`): writing it
down stutters, losing it is a step. The change happens when the device serves
the Set, before the client learns of it. In both, the changes of others, of
failed tasks and of reboots are steps of the contract too, in any order.

The data (`GnmiPathProofs`). `str.split` and `str.join` work on texts of any
length, so what they do is proved by induction on the length of a sequence:

1. `SeqInduction` states the induction for a set T instead of a predicate (the
   empty sequence is in T, and `Append` stays in T); a lemma P uses it for the
   set of the sequences that satisfy P. `SetInduction` is the same on Nat.
2. A recursive function is a CHOOSE, and its equation holds only if some
   function satisfies it. `IterationExists` and `ScanExists` construct one, for
   every recursion over the last element; `ConcatEquations`,
   `ElementsEquations` and `PairsEquations` are the equations that follow.
3. From the inside out: `PairsOfPair` and `PairParts` (a key written as
   `[name=value]` is cut out of its brackets and at its first "="),
   `KeyMapOfPairs` (the dictionary of the keys), `BuildElemOfText` (one
   element), `ElementsOfSlashed` (no slash but those between the elements),
   `NamespaceOfText` and `SplitOfText` (the origin), `BuildPathOfText`.
4. Back: `PrintElemOfPlace`, `PathToStringOfPlace`. Since `BuildElems` of a
   text is what the text was written for, two places with one text are one
   (`TextIsUnambiguous`), so of two updates with one key the later one differs
   from the other in its origin alone (`ReportIsAnswer`).

The hypotheses are needed. `SlashKeysAreFound` is the counterexample to a
statement without `Carried`; without `OneKey`, which only the report needs, two
keys are printed in one pair of brackets; a path that `Overrides` the option is
sent with the option's origin. `PrefixElems` and the path are read off one
text each, so `PlaceElemsConcat` (the elements of a path below a prefix are
those of the two behind each other) and `TextOfUpdate` (the text of an update is
how the end of its place is written) tie the notification to what was asked.

## 5. What is abstracted, what is left out

* Payloads: image bytes, PEM material, configuration values are positions or
  model values. Wording of messages, logging and YAML layout are left out.
* gRPC: one FIFO per direction, a status behind the responses, a deadline, a
  connection that may break at any time. Flow control is the window.
* The version string found in an image header (`os.py` 18-97) is data; a
  version that cannot be found is a missing argument.
* Building typed values (`gnmi_client.py` 661-689) is a conversion by Python
  type: the values of a Set are model values, so the width of `int_val` and
  `float_val` does not show.
* `cryptography` is taken to be installed; without it the common name of the
  root is not used (`gnmi_client.py` 450).
* A check of the options that fails before the first RPC is one failing step.
* A backup file that is cut short by an I/O error is not named by the result
  (`BackupFails`); two backups within one second would share a name, which the
  model does not show.
* The device's own correctness: it does what the protos allow, or stops.
* Not modelled: the generated protobuf code (no logic of its own), tests,
  documentation, example playbooks.

## 6. Plan

Done, in this order, the most important behaviour first: `OsInstall` with
`InstallContract`, `CertStream`, `GnoiModule`, `ConfigSet`, `Subscribe`,
`GnmiPath` and `Transport` composed in `InfoGet`, each component with its
invariant and its proofs; the induction over path texts in `GnmiPathProofs`;
`ConfigContract` and `GnoiContract` with their refinements.

Left: `OsUpgrade`, install, verify and activate tasks chained by a playbook
over `InstallContract` and `GnoiContract` in place of the modules that implement
them; `already_active` against a pending next boot (`os.py` 322-323).
