------------------------------ MODULE OsInstall ------------------------------
(***************************************************************************)
(* The gNOI os/install handler of plugins/module_utils/gnoi/services/os.py *)
(* (install, lines 99-310), from the call of the streaming Install RPC to  *)
(* the return of the module (plugins/modules/gnoi.py, main).               *)
(*                                                                         *)
(* Four parties run concurrently:                                          *)
(*   - the main thread, which iterates over the responses and decides what *)
(*     the task reports;                                                   *)
(*   - the sender: the daemon thread gRPC starts to drain the generator    *)
(*     request_iterator(), which reads the image file chunk by chunk;      *)
(*   - the gRPC channel: one FIFO per direction, a deadline, a status;     *)
(*   - the device, restricted to what os.proto lets a target answer.       *)
(* The main thread and the sender share ready_event and send_state.        *)
(*                                                                         *)
(* A chunk is represented by the file position it ends at, so the order    *)
(* and the amount of content are kept and its bytes are not.               *)
(***************************************************************************)
EXTENDS Integers, Sequences

CONSTANTS
    PackageSize,   \* os.path.getsize(image_path), taken once before the RPC
    FileLengths,   \* how many bytes reading the file may yield afterwards
    ChunkSize,     \* bytes asked of each image.read()
    Window,        \* messages the transport takes before a send blocks
    RespWindow     \* responses in flight from the device

ASSUME SizesAssumption ==
    /\ PackageSize \in Nat
    /\ FileLengths \subseteq Nat
    /\ FileLengths # {}
    /\ ChunkSize \in Nat \ {0}
    /\ Window \in Nat
    /\ RespWindow \in Nat \ {0}

VARIABLES
    \* main thread
    mpc,           \* where the main thread is
    validated,     \* local `validated`: which version the device validated
    lastProgress,  \* local `last_progress`
    outcome,       \* what the handler reported ("none" while it runs)
    reported,      \* bytes_transferred of the report
    \* shared by the two threads
    readyEvent,    \* ready_event.is_set()
    bytesSent,     \* send_state['bytes_sent']
    ended,         \* send_state['ended']
    sendError,     \* send_state['error']
    \* sender thread
    spc,           \* where the sender is
    pos,           \* position of the image file object
    fileLen,       \* bytes the open file really holds
    \* channel
    wire,          \* messages on their way to the device
    halfClosed,    \* the client finished sending
    resp,          \* responses on their way to the client
    status,        \* status the device closed with, behind resp
    code,          \* state.code of the RPC as the client's threads see it
    expired,       \* request.timeout seconds have passed
    \* device
    devPhase,      \* protocol phase of the target
    devBytes,      \* content received
    devReadySent,  \* TransferReady was sent
    devComplete    \* TransferEnd was received

mainVars   == <<mpc, validated, lastProgress, outcome, reported, readyEvent>>
senderVars == <<spc, pos, fileLen, bytesSent, ended, sendError, halfClosed>>
deviceVars == <<devPhase, devBytes, devReadySent, devComplete, status>>
vars == <<mainVars, senderVars, deviceVars, wire, resp, code, expired>>

-----------------------------------------------------------------------------
(***************************************************************************)
(* Values.                                                                 *)
(***************************************************************************)
Versions == {"requested", "other"}

\* What the handler reports. "transferred_unvalidated" is the success of the
\* `except grpc.RpcError` branch, "transferred" the one after a clean close.
Outcomes == {"none", "failed", "already_running", "already_present",
             "validated", "transferred", "transferred_unvalidated"}
ChangedOutcomes == {"validated", "transferred", "transferred_unvalidated"}

Codes == {"none", "OK", "CANCELLED", "DEADLINE_EXCEEDED", "UNAVAILABLE"}
Recoverable == {"DEADLINE_EXCEEDED", "CANCELLED"}

InstallRequests == [kind : {"transfer_request", "transfer_content", "transfer_end"},
                    upto : Nat]

InstallResponses ==
    [kind : {"transfer_ready", "transfer_progress", "sync_progress",
             "validated", "install_run_package", "install_error"},
     bytes : Nat, version : Versions]

Response(k)     == [kind |-> k, bytes |-> 0, version |-> "requested"]
ProgressOf(n)   == [Response("transfer_progress") EXCEPT !.bytes = n]
ValidatedAs(v)  == [Response("validated") EXCEPT !.version = v]
Request(k)      == [kind |-> k, upto |-> 0]
ContentUpTo(n)  == [kind |-> "transfer_content", upto |-> n]

-----------------------------------------------------------------------------
Init ==
    /\ mpc = "loop" /\ validated = "none" /\ lastProgress = 0
    /\ outcome = "none" /\ reported = 0
    /\ readyEvent = FALSE
    /\ bytesSent = 0 /\ ended = FALSE /\ sendError = "none"
    /\ spc = "request" /\ pos = 0 /\ fileLen \in FileLengths
    /\ wire = <<>> /\ halfClosed = FALSE
    /\ resp = <<>> /\ status = "none" /\ code = "none" /\ expired = FALSE
    /\ devPhase = "idle" /\ devBytes = 0
    /\ devReadySent = FALSE /\ devComplete = FALSE

-----------------------------------------------------------------------------
(***************************************************************************)
(* Main thread: `for response in responses`.  Every exit of the try        *)
(* statement runs `finally: ready_event.set()`.                            *)
(***************************************************************************)
\* Seeded fault: an exit that misses the `finally`.
LeaveWithoutFinally(o, n) ==
    outcome' = o /\ reported' = n /\ mpc' = "done" /\ UNCHANGED readyEvent

\* A return or a raise out of the try statement.
Leave(o, n) ==
    /\ outcome' = o /\ reported' = n
    /\ mpc' = "done"
    /\ readyEvent' = TRUE

TakeResponse(k) ==
    /\ mpc = "loop" /\ resp # <<>> /\ Head(resp).kind = k
    /\ resp' = Tail(resp)
    /\ UNCHANGED code

OnTransferReady ==
    /\ TakeResponse("transfer_ready")
    /\ readyEvent' = TRUE
    /\ UNCHANGED <<mpc, validated, lastProgress, outcome, reported>>

OnTransferProgress ==
    /\ TakeResponse("transfer_progress")
    /\ lastProgress' = Head(resp).bytes
    /\ UNCHANGED <<mpc, validated, outcome, reported, readyEvent>>

\* The if/elif chain has no branch for SyncProgress.
OnSyncProgress == TakeResponse("sync_progress") /\ UNCHANGED mainVars

\* Validated is noted; the loop goes on until the stream ends.
OnValidated ==
    /\ TakeResponse("validated")
    /\ validated' = Head(resp).version
    /\ UNCHANGED <<mpc, lastProgress, outcome, reported, readyEvent>>

\* INSTALL_RUN_PACKAGE is an idempotent no-op, any other error is raised.
OnInstallError ==
    /\ \/ TakeResponse("install_run_package") /\ Leave("already_running", 0)
       \/ TakeResponse("install_error") /\ Leave("failed", 0)
    /\ UNCHANGED <<validated, lastProgress>>

TransferComplete == ended /\ bytesSent = PackageSize

\* Seeded fault: the byte count is not compared.
OnRpcErrorUncounted ==
    /\ mpc = "loop" /\ resp = <<>> /\ code \notin {"none", "OK"}
    /\ \/ ended /\ code \in Recoverable /\ Leave("transferred_unvalidated", bytesSent)
       \/ ~(ended /\ code \in Recoverable) /\ Leave("failed", 0)
    /\ UNCHANGED <<validated, lastProgress, resp, code>>

\* The response iterator raises RpcError.
OnRpcError ==
    /\ mpc = "loop" /\ resp = <<>> /\ code \notin {"none", "OK"}
    /\ IF TransferComplete /\ code \in Recoverable
         THEN Leave("transferred_unvalidated", bytesSent)
         ELSE Leave("failed", 0)
    /\ UNCHANGED <<validated, lastProgress, resp, code>>

\* The response iterator stops: the loop falls through to the finally.
OnStreamEnd ==
    /\ mpc = "loop" /\ resp = <<>> /\ code = "OK"
    /\ mpc' = "closed"
    /\ readyEvent' = TRUE
    /\ UNCHANGED <<validated, lastProgress, outcome, reported, resp, code>>

\* Seeded fault: send_state['error'] is never looked at.
SkipSendError ==
    /\ mpc = "closed" /\ mpc' = "count"
    /\ UNCHANGED <<validated, lastProgress, outcome, reported, readyEvent, resp, code>>

\* `if send_state['error']: raise`.
CheckSendError ==
    /\ mpc = "closed"
    /\ IF sendError # "none"
         THEN Leave("failed", 0)
         ELSE mpc' = "count" /\ UNCHANGED <<outcome, reported, readyEvent>>
    /\ UNCHANGED <<validated, lastProgress, resp, code>>

\* Seeded fault: any Validated counts as "already present".
CleanReportAnyBytes(n) ==
    IF validated = "none" THEN "transferred" ELSE "already_present"

\* Seeded fault: transfer_state is reported as install_state.
CleanReportSwapped(n) ==
    IF validated # "none" /\ n = 0 THEN "skipped" ELSE "completed"

\* Which of the three reports follows a clean close with n bytes sent.
CleanReport(n) ==
    IF validated = "none" THEN "transferred"
    ELSE IF n = 0 THEN "already_present" ELSE "validated"

\* bytes_sent is read only here, after the finally released the sender.
ReportCleanClose ==
    /\ mpc = "count"
    /\ Leave(CleanReport(bytesSent), bytesSent)
    /\ UNCHANGED <<validated, lastProgress, resp, code>>

\* gnoi.py main: the finally closes the channel, which cancels an open RPC.
Disconnect ==
    /\ mpc = "done"
    /\ mpc' = "disconnected"
    /\ code' = IF code = "none" THEN "CANCELLED" ELSE code
    /\ UNCHANGED <<validated, lastProgress, outcome, reported, readyEvent, resp>>

Main ==
    /\ \/ OnTransferReady \/ OnTransferProgress \/ OnSyncProgress
       \/ OnValidated \/ OnInstallError \/ OnRpcError \/ OnStreamEnd
       \/ CheckSendError \/ ReportCleanClose \/ Disconnect
    /\ UNCHANGED <<senderVars, deviceVars, wire, expired>>

-----------------------------------------------------------------------------
(***************************************************************************)
(* Sender thread.  gRPC calls next() on request_iterator(); "request",     *)
(* "content" and "end" are its yields, "sent_..." the wait for a message   *)
(* to be taken by the transport, "returning" the generator's return.       *)
(***************************************************************************)
Sends == [request |-> "sent_request", content |-> "sent_content", end |-> "sent_end"]
Pulls == [sent_request |-> "wait", sent_content |-> "read", sent_end |-> "returning"]

OutgoingMessage ==
    CASE spc = "request" -> Request("transfer_request")
      [] spc = "content" -> ContentUpTo(pos)
      [] spc = "end"     -> Request("transfer_end")

\* gRPC hands what was yielded to the transport if the RPC is still open ...
HandToTransport ==
    /\ spc \in DOMAIN Sends /\ code = "none"
    /\ wire' = Append(wire, OutgoingMessage)
    /\ spc' = Sends[spc]
    /\ UNCHANGED <<pos, bytesSent, ended, sendError, halfClosed>>

\* ... waits until flow control lets it through or the RPC is over, and only
\* then asks for the next message.
PullNext ==
    /\ spc \in DOMAIN Pulls
    /\ code # "none" \/ Len(wire) <= Window
    /\ spc' = IF code = "none" THEN Pulls[spc] ELSE "stopped"
    /\ UNCHANGED <<pos, bytesSent, ended, sendError, halfClosed, wire>>

\* Once the RPC is over whatever next() produced is dropped.
DropMessage ==
    /\ spc \in DOMAIN Sends \union {"returning"} /\ code # "none"
    /\ spc' = "stopped"
    /\ UNCHANGED <<pos, bytesSent, ended, sendError, halfClosed, wire>>

\* The generator returned while the RPC is open: gRPC half-closes.
HalfClose ==
    /\ spc = "returning" /\ code = "none"
    /\ spc' = "stopped"
    /\ halfClosed' = TRUE
    /\ UNCHANGED <<pos, bytesSent, ended, sendError, wire>>

WaitReady ==
    /\ spc = "wait" /\ readyEvent
    /\ spc' = "read"
    /\ UNCHANGED <<pos, bytesSent, ended, sendError, halfClosed, wire>>

\* Seeded fault: the result of ready_event.wait() is ignored.
WaitTimeoutIgnored ==
    /\ spc = "wait" /\ ~readyEvent /\ expired
    /\ spc' = "read"
    /\ UNCHANGED <<pos, bytesSent, ended, sendError, halfClosed, wire>>

\* ready_event.wait(timeout=request.timeout) is the same number of seconds as
\* the RPC's deadline and starts after it, hence `expired`.
WaitTimeout ==
    /\ spc = "wait" /\ ~readyEvent /\ expired
    /\ spc' = "returning"
    /\ sendError' = "timeout"
    /\ UNCHANGED <<pos, bytesSent, ended, halfClosed, wire>>

ReadSize == IF fileLen - pos < ChunkSize THEN fileLen - pos ELSE ChunkSize

\* Seeded fault: the chunk size is counted instead of len(chunk).
ReadChunkOvercounted ==
    /\ spc = "read" /\ pos < fileLen
    /\ pos' = pos + ReadSize /\ bytesSent' = bytesSent + ChunkSize
    /\ spc' = "content"
    /\ UNCHANGED <<ended, sendError, halfClosed, wire>>

\* Seeded fault: bytes_sent is assigned instead of accumulated.
ReadChunkNotAccumulated ==
    /\ spc = "read" /\ pos < fileLen
    /\ pos' = pos + ReadSize /\ bytesSent' = ReadSize
    /\ spc' = "content"
    /\ UNCHANGED <<ended, sendError, halfClosed, wire>>

\* bytes_sent counts the chunk before it is yielded.
ReadChunk ==
    /\ spc = "read" /\ pos < fileLen
    /\ pos' = pos + ReadSize /\ bytesSent' = bytesSent + ReadSize
    /\ spc' = "content"
    /\ UNCHANGED <<ended, sendError, halfClosed, wire>>

\* An empty read ends the loop; `ended` is set before TransferEnd is yielded.
ReadEndOfFile ==
    /\ spc = "read" /\ pos = fileLen
    /\ ended' = TRUE
    /\ spc' = "end"
    /\ UNCHANGED <<pos, bytesSent, sendError, halfClosed, wire>>

\* Seeded fault: the except clause falls through to TransferEnd.
ReadErrorFallsThrough ==
    /\ spc = "read"
    /\ sendError' = "read" /\ ended' = TRUE
    /\ spc' = "end"
    /\ UNCHANGED <<pos, bytesSent, halfClosed, wire>>

\* open() or any read() may raise OSError: the generator returns early.
ReadError ==
    /\ spc = "read"
    /\ sendError' = "read"
    /\ spc' = "returning"
    /\ UNCHANGED <<pos, bytesSent, ended, halfClosed, wire>>

SenderFrame == UNCHANGED <<mainVars, deviceVars, fileLen, resp, code, expired>>

\* All of the sender except the timer of wait().
SenderRuns ==
    /\ \/ HandToTransport \/ PullNext \/ DropMessage \/ HalfClose
       \/ WaitReady \/ ReadChunk \/ ReadEndOfFile \/ ReadError
    /\ SenderFrame

Sender == SenderRuns \/ (WaitTimeout /\ SenderFrame)

-----------------------------------------------------------------------------
(***************************************************************************)
(* Channel and clock.                                                      *)
(***************************************************************************)
TimePasses ==
    /\ ~expired
    /\ expired' = TRUE
    /\ UNCHANGED <<resp, code>>

\* The RPC ends on the client's side; responses not yet read are lost.
EndLocally(c) ==
    /\ code = "none" /\ code' = c
    /\ resp' = <<>>
    /\ UNCHANGED expired

\* Seeded fault: Install is called without timeout=.
NoDeadline == FALSE /\ EndLocally("DEADLINE_EXCEEDED")

\* timeout=request.timeout of the Install call.
Deadline == expired /\ EndLocally("DEADLINE_EXCEEDED")

ConnectionLost == EndLocally("UNAVAILABLE")

\* The status the device closed with follows its last response.
StatusArrives ==
    /\ code = "none" /\ status # "none" /\ resp = <<>>
    /\ code' = status
    /\ UNCHANGED <<resp, expired>>

ChannelFrame == UNCHANGED <<mainVars, senderVars, deviceVars, wire>>

Clock == (TimePasses \/ Deadline) /\ ChannelFrame

Channel == Clock \/ ((ConnectionLost \/ StatusArrives) /\ ChannelFrame)

-----------------------------------------------------------------------------
(***************************************************************************)
(* Device.  os.proto: TransferRequest is answered by TransferReady,        *)
(* Validated (already there), SyncProgress or InstallError; Validated      *)
(* after a transfer needs TransferEnd; progress may come at any time; the  *)
(* stream may be closed with any status at any time, or left open.         *)
(***************************************************************************)
DeviceReceive ==
    /\ devPhase # "closed" /\ wire # <<>>
    /\ LET m == Head(wire) IN
         /\ devBytes' = IF m.kind = "transfer_content" THEN m.upto ELSE devBytes
         /\ devComplete' = (devComplete \/ m.kind = "transfer_end")
    /\ devPhase' = IF devPhase = "idle" THEN "asked" ELSE devPhase
    /\ wire' = Tail(wire)
    /\ UNCHANGED <<devReadySent, status, resp>>

DeviceSends(r) ==
    /\ Len(resp) < RespWindow /\ code = "none"
    /\ resp' = Append(resp, r)
    /\ UNCHANGED <<wire, devBytes, devComplete, status>>

DeviceReady ==
    /\ devPhase = "asked" /\ devPhase' = "receiving"
    /\ devReadySent' = TRUE
    /\ DeviceSends(Response("transfer_ready"))

DeviceProgress ==
    /\ \/ devPhase = "receiving" /\ DeviceSends(ProgressOf(devBytes))
       \/ devPhase = "asked" /\ DeviceSends(Response("sync_progress"))
    /\ UNCHANGED <<devPhase, devReadySent>>

DeviceValidated ==
    /\ devPhase = "asked" \/ (devPhase = "receiving" /\ devComplete)
    /\ devPhase' = "verdict"
    /\ \E v \in Versions : DeviceSends(ValidatedAs(v))
    /\ UNCHANGED devReadySent

DeviceError ==
    /\ devPhase \in {"asked", "receiving"} /\ devPhase' = "verdict"
    /\ \E k \in {"install_run_package", "install_error"} : DeviceSends(Response(k))
    /\ UNCHANGED devReadySent

\* The stream is closed by the device, or the device learns that the client
\* gave up; what was in flight to it is lost.
DeviceCloses ==
    /\ \/ devPhase \notin {"idle", "closed"} /\ status' \in {"OK", "CANCELLED", "UNAVAILABLE"}
       \/ devPhase # "closed" /\ code # "none" /\ UNCHANGED status
    /\ devPhase' = "closed"
    /\ wire' = <<>>
    /\ UNCHANGED <<resp, devBytes, devReadySent, devComplete>>

Device ==
    /\ \/ DeviceReceive \/ DeviceReady \/ DeviceProgress
       \/ DeviceValidated \/ DeviceError \/ DeviceCloses
    /\ UNCHANGED <<mainVars, senderVars, code, expired>>

-----------------------------------------------------------------------------
\* Everything has come to rest.
Finished ==
    /\ mpc = "disconnected" /\ spc = "stopped" /\ devPhase = "closed" /\ expired
    /\ UNCHANGED vars

Next == Main \/ Sender \/ Channel \/ Device \/ Finished

Spec == Init /\ [][Next]_vars

(***************************************************************************)
(* Fairness: both threads are scheduled and the clock runs; nothing is     *)
(* assumed of the device, of the network or of the timer of wait().        *)
(***************************************************************************)
FairSpec ==
    /\ Spec
    /\ WF_vars(Main)
    /\ WF_vars(SenderRuns)
    /\ WF_vars(Clock)

-----------------------------------------------------------------------------
TypeOK ==
    /\ mpc \in {"loop", "closed", "count", "done", "disconnected"}
    /\ validated \in Versions \union {"none"}
    /\ lastProgress \in Nat
    /\ outcome \in Outcomes
    /\ reported \in Nat
    /\ readyEvent \in BOOLEAN
    /\ bytesSent \in Nat
    /\ ended \in BOOLEAN
    /\ sendError \in {"none", "timeout", "read"}
    /\ spc \in DOMAIN Sends \union DOMAIN Pulls
                \union {"wait", "read", "returning", "stopped"}
    /\ pos \in Nat
    /\ fileLen \in FileLengths
    /\ wire \in Seq(InstallRequests)
    /\ halfClosed \in BOOLEAN
    /\ resp \in Seq(InstallResponses)
    /\ status \in Codes \ {"DEADLINE_EXCEEDED"}
    /\ code \in Codes
    /\ expired \in BOOLEAN
    /\ devPhase \in {"idle", "asked", "receiving", "verdict", "closed"}
    /\ devBytes \in Nat
    /\ devReadySent \in BOOLEAN
    /\ devComplete \in BOOLEAN

\* Content reaches a device that never announced TransferReady only once the
\* handler is over, the `finally` having released the sender (os.py:140-153,
\* 252-254).
ContentOnlyOnceReadyOrOver ==
    devBytes > 0 => devReadySent \/ mpc # "loop"

\* Whenever TransferEnd arrives the device holds every byte the file had:
\* neither a read error nor a timeout ends a transfer regularly (os.py:141-160).
EndOnlyAfterWholeFile ==
    devComplete => devBytes = fileLen

\* "already present, no transfer needed" is only said when no byte of the
\* image was or will be delivered (os.py:264-288).
AlreadyPresentTransferredNothing ==
    outcome = "already_present" =>
        /\ devBytes = 0
        /\ \A i \in DOMAIN wire : wire[i].kind # "transfer_content"

\* The success of the RpcError branch never covers an image that changed on
\* disk between getsize() and the last read (os.py:124, 211-214).
UnvalidatedSuccessHasAnnouncedSize ==
    outcome = "transferred_unvalidated" => pos = fileLen /\ fileLen = PackageSize

\* A sender that gave up before TransferEnd and half-closed the stream never
\* ends in a reported transfer (os.py:141-155, 256-258).
GivenUpTransferNotReported ==
    halfClosed /\ ~ended => outcome \in {"none", "failed", "already_running"}

\* After a requested transfer, "validated" reports exactly the bytes the
\* device received (os.py:151, 262, 303).
ValidatedReportsDeliveredBytes ==
    outcome = "validated" /\ devReadySent => reported = devBytes

\* bytes_acknowledged of a report never exceeds its bytes_transferred
\* (os.py:175-176, 303-304).
AcknowledgedWithinTransferred ==
    outcome \in {"validated", "transferred", "transferred_unvalidated"}
        => lastProgress <= reported

\* The task returns whatever the device does: the deadline ends the stream.
HandlerReturns == <>(mpc = "disconnected")

\* "Ensure the sender thread is never left blocked" (os.py:252-254), without
\* counting on the timeout of wait().
SenderReleased == (mpc = "disconnected") ~> (spc = "stopped")

(***************************************************************************)
(* The handler implements InstallContract.                                 *)
(***************************************************************************)
transferState ==
    IF ended THEN "whole" ELSE IF sendError # "none" THEN "given_up" ELSE "sending"

Contract == INSTANCE InstallContract
    WITH offered <- bytesSent, transfer <- transferState, report <- outcome

\* Exactly one report, of a kind that the bytes offered allow (os.py:201-310):
\* the abstract specification holds of the two threads.
ImplementsContract == Contract!Spec

-----------------------------------------------------------------------------
(***************************************************************************)
(* Statements of the code's own comments and tests that the code does not  *)
(* keep; each is refuted by a run of its own.                              *)
(***************************************************************************)
\* test_gnoi.py:479-480: a stream that dies before the whole image is sent is
\* "a genuine failure and must not be reported as a staged success".
SuccessMeansWholeImageSent ==
    outcome \in ChangedOutcomes => ended /\ bytesSent = PackageSize

\* os.py:264-267: "validated ... without ever requesting the image content
\* (no TransferReady, so nothing was streamed) ... Report no change."
UnrequestedImageReportsNoChange ==
    validated # "none" /\ ~devReadySent => outcome \notin ChangedOutcomes

=============================================================================
