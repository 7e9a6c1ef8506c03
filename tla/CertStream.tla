----------------------------- MODULE CertStream -----------------------------
(***************************************************************************)
(* The streaming handlers of plugins/module_utils/gnoi/services/cert.py:   *)
(* install (lines 85-116) and rotate (lines 119-169), with the device's    *)
(* side of the two RPCs as cert.proto describes it.                        *)
(*                                                                         *)
(* The main thread feeds the sender, the gRPC thread that drains the       *)
(* request iterator, through send_queue.  The generator of install yields  *)
(* one message and returns, which is the queue <<load, stop>>.  What       *)
(* matters on the device is what certificate_id is bound to: a rotation    *)
(* that is not finalized is rolled back when the stream ends, and an error *)
(* status rolls back even what was finalized.                              *)
(***************************************************************************)
EXTENDS Naturals, Sequences

CONSTANT Window    \* messages the transport takes before a send blocks

ASSUME WindowAssumption == Window \in Nat

VARIABLES
    op,            \* which handler runs: "install" or "rotate"
    \* main thread
    mpc,           \* "first": next(responses), "drain": the for loop
    loadSeen,      \* next(responses) returned
    outcome,       \* what the handler reported
    queue,         \* send_queue
    \* sender thread
    spc,           \* where the sender is
    item,          \* what the iterator yielded last
    \* channel
    wire,          \* requests on their way to the device
    halfClosed,    \* the client finished sending
    resp,          \* responses on their way to the client
    status,        \* status the device closed with, behind resp
    code,          \* state.code of the RPC on the client's side
    expired,       \* request.timeout seconds have passed
    \* device
    exists,        \* certificate_id was bound before the RPC
    binding,       \* "before", "provisional" or "committed"
    answered,      \* the load was answered
    devOpen        \* the device has not closed the stream

mainVars   == <<mpc, loadSeen, outcome>>
senderVars == <<spc, item, halfClosed>>
deviceVars == <<binding, answered, devOpen, status>>
vars == <<op, mainVars, queue, senderVars, wire, resp, code, expired,
          exists, deviceVars>>

Ops   == {"install", "rotate"}
Items == {"load", "finalize", "stop"}
Codes == {"none", "OK", "CANCELLED", "DEADLINE_EXCEEDED", "UNAVAILABLE", "ALREADY_EXISTS"}

\* Seeded fault: the Finalize does not wait for the answer to the load.
FirstItemsEager(o) ==
    IF o = "install" THEN <<"load", "stop">> ELSE <<"load", "finalize", "stop">>

\* What is queued before the RPC starts.
FirstItems(o) == IF o = "install" THEN <<"load", "stop">> ELSE <<"load">>

-----------------------------------------------------------------------------
Init ==
    /\ op \in Ops
    /\ mpc = (IF op = "install" THEN "drain" ELSE "first")
    /\ loadSeen = FALSE /\ outcome = "none"
    /\ queue = FirstItems(op)
    /\ spc = "get" /\ item = "stop" /\ halfClosed = FALSE
    /\ wire = <<>> /\ resp = <<>> /\ status = "none" /\ code = "none"
    /\ expired = FALSE
    /\ exists \in BOOLEAN /\ binding = "before" /\ answered = FALSE
    /\ devOpen = TRUE

-----------------------------------------------------------------------------
(***************************************************************************)
(* Main thread.                                                            *)
(***************************************************************************)
Return(o) == outcome' = o /\ mpc' = "done"

\* Seeded fault: the end of the stream is queued before the Finalize.
FirstResponseStopsFirst ==
    /\ mpc = "first" /\ resp # <<>>
    /\ resp' = Tail(resp)
    /\ loadSeen' = TRUE
    /\ queue' = queue \o <<"stop", "finalize">>
    /\ mpc' = "drain"
    /\ UNCHANGED <<outcome, code>>

\* next(responses) returns: finalize, then close the sending side.
FirstResponse ==
    /\ mpc = "first" /\ resp # <<>>
    /\ resp' = Tail(resp)
    /\ loadSeen' = TRUE
    /\ queue' = queue \o <<"finalize", "stop">>
    /\ mpc' = "drain"
    /\ UNCHANGED <<outcome, code>>

\* next(responses) raises StopIteration, which is passed over.
NoFirstResponse ==
    /\ mpc = "first" /\ resp = <<>> /\ code = "OK"
    /\ queue' = Append(queue, "stop")
    /\ Return("succeeded")
    /\ UNCHANGED <<loadSeen, resp, code>>

DrainResponse ==
    /\ mpc = "drain" /\ resp # <<>>
    /\ resp' = Tail(resp)
    /\ UNCHANGED <<mainVars, queue, code>>

DrainEnds ==
    /\ mpc = "drain" /\ resp = <<>> /\ code = "OK"
    /\ Return("succeeded")
    /\ UNCHANGED <<loadSeen, queue, resp, code>>

RpcFails == mpc \in {"first", "drain"} /\ resp = <<>> /\ code \notin {"none", "OK"}

\* Seeded fault: a deadline is taken for the end of the stream.
OnRpcErrorRecovers ==
    /\ RpcFails
    /\ queue' = IF op = "rotate" THEN Append(queue, "stop") ELSE queue
    /\ Return(IF code = "DEADLINE_EXCEEDED" THEN "succeeded" ELSE "failed")
    /\ UNCHANGED <<loadSeen, resp, code>>

\* Seeded fault: the except clause of rotate does not release the sender.
OnRpcErrorKeepsSender ==
    /\ RpcFails
    /\ Return("failed")
    /\ UNCHANGED <<queue, loadSeen, resp, code>>

\* Seeded fault: the status takes the place of the verdict.
OnRpcErrorReportsCode ==
    /\ RpcFails
    /\ queue' = IF op = "rotate" THEN Append(queue, "stop") ELSE queue
    /\ Return(code)
    /\ UNCHANGED <<loadSeen, resp, code>>

\* The call or an iteration raises RpcError.
OnRpcError ==
    /\ RpcFails
    /\ queue' = IF op = "rotate" THEN Append(queue, "stop") ELSE queue
    /\ Return("failed")
    /\ UNCHANGED <<loadSeen, resp, code>>

\* gnoi.py main: the finally closes the channel.
Disconnect ==
    /\ mpc = "done"
    /\ mpc' = "disconnected"
    /\ code' = IF code = "none" THEN "CANCELLED" ELSE code
    /\ UNCHANGED <<loadSeen, outcome, queue, resp>>

Main ==
    /\ \/ FirstResponse \/ NoFirstResponse \/ DrainResponse \/ DrainEnds
       \/ OnRpcError \/ Disconnect
    /\ UNCHANGED <<op, senderVars, wire, expired, exists, deviceVars>>

-----------------------------------------------------------------------------
(***************************************************************************)
(* Sender thread: gRPC's loop around next(request_iterator).               *)
(***************************************************************************)
\* send_queue.get() blocks while the queue is empty, RPC over or not.
Get ==
    /\ spc = "get" /\ queue # <<>>
    /\ item' = Head(queue)
    /\ queue' = Tail(queue)
    /\ spc' = IF Head(queue) = "stop" THEN "returning" ELSE "yielded"
    /\ UNCHANGED <<wire, halfClosed>>

HandToTransport ==
    /\ spc = "yielded" /\ code = "none"
    /\ wire' = Append(wire, item)
    /\ spc' = "sent"
    /\ UNCHANGED <<queue, item, halfClosed>>

\* The next message is asked for once this one was taken; a sender whose RPC
\* is over asks for none.
PullNext ==
    /\ spc = "sent"
    /\ code # "none" \/ Len(wire) <= Window
    /\ spc' = IF code = "none" THEN "get" ELSE "stopped"
    /\ UNCHANGED <<queue, item, wire, halfClosed>>

DropMessage ==
    /\ spc \in {"yielded", "returning"} /\ code # "none"
    /\ spc' = "stopped"
    /\ UNCHANGED <<queue, item, wire, halfClosed>>

HalfClose ==
    /\ spc = "returning" /\ code = "none"
    /\ spc' = "stopped"
    /\ halfClosed' = TRUE
    /\ UNCHANGED <<queue, item, wire>>

Sender ==
    /\ Get \/ HandToTransport \/ PullNext \/ DropMessage \/ HalfClose
    /\ UNCHANGED <<op, mainVars, resp, code, expired, exists, deviceVars>>

-----------------------------------------------------------------------------
(***************************************************************************)
(* Channel and clock.                                                      *)
(***************************************************************************)
TimePasses ==
    /\ ~expired /\ expired' = TRUE
    /\ UNCHANGED <<resp, code>>

EndLocally(c) ==
    /\ code = "none" /\ code' = c
    /\ resp' = <<>>
    /\ UNCHANGED expired

\* Seeded fault: the RPC is started without timeout=.
NoDeadline == FALSE /\ EndLocally("DEADLINE_EXCEEDED")

\* timeout=request.timeout of both calls.
Deadline == expired /\ EndLocally("DEADLINE_EXCEEDED")

ConnectionLost == EndLocally("UNAVAILABLE")

StatusArrives ==
    /\ code = "none" /\ status # "none" /\ resp = <<>>
    /\ code' = status
    /\ UNCHANGED <<resp, expired>>

ChannelFrame == UNCHANGED <<op, mainVars, queue, senderVars, wire, exists, deviceVars>>

Clock == (TimePasses \/ Deadline) /\ ChannelFrame

Channel == Clock \/ ((ConnectionLost \/ StatusArrives) /\ ChannelFrame)

-----------------------------------------------------------------------------
(***************************************************************************)
(* Device.  Install needs a fresh certificate_id, Rotate an existing one.  *)
(***************************************************************************)
Acceptable == (op = "rotate") = exists

DeviceReceive ==
    /\ devOpen /\ wire # <<>>
    /\ wire' = Tail(wire)
    /\ binding' = CASE Head(wire) = "load" /\ Acceptable -> "provisional"
                    [] Head(wire) = "finalize" /\ binding = "provisional" -> "committed"
                    [] OTHER -> binding
    /\ UNCHANGED <<answered, devOpen, status, resp>>

\* LoadCertificateResponse; Install has no further step.
DeviceAnswers ==
    /\ devOpen /\ binding = "provisional" /\ ~answered /\ code = "none"
    /\ answered' = TRUE
    /\ resp' = Append(resp, "load_certificate")
    /\ binding' = IF op = "install" THEN "committed" ELSE binding
    /\ UNCHANGED <<devOpen, status, wire>>

\* What the end leaves bound.  OK keeps what was committed, an error status
\* rolls it back; behind a client that has gone the device may do either.
LeftBound(s) ==
    IF binding # "committed" \/ s \notin {"OK", "none"} THEN {"before"}
    ELSE IF s = "OK" THEN {"committed"} ELSE {"before", "committed"}

\* OK is only said once the load was accepted.
DeviceCloses ==
    /\ devOpen /\ devOpen' = FALSE
    /\ \/ /\ code = "none"
          /\ status' \in Codes \ {"none", "DEADLINE_EXCEEDED"}
          /\ status' = "OK" => binding # "before"
       \/ code # "none" /\ UNCHANGED status
    /\ binding' \in LeftBound(status')
    /\ wire' = <<>>
    /\ UNCHANGED <<answered, resp>>

Device ==
    /\ DeviceReceive \/ DeviceAnswers \/ DeviceCloses
    /\ UNCHANGED <<op, mainVars, queue, senderVars, code, expired, exists>>

-----------------------------------------------------------------------------
Finished ==
    /\ mpc = "disconnected" /\ spc = "stopped" /\ ~devOpen /\ expired
    /\ UNCHANGED vars

Next == Main \/ Sender \/ Channel \/ Device \/ Finished

Spec == Init /\ [][Next]_vars

\* Both threads are scheduled and the clock runs; nothing is assumed of the
\* device or of the network.
FairSpec == Spec /\ WF_vars(Main) /\ WF_vars(Sender) /\ WF_vars(Clock)

-----------------------------------------------------------------------------
TypeOK ==
    /\ op \in Ops
    /\ mpc \in {"first", "drain", "done", "disconnected"}
    /\ loadSeen \in BOOLEAN
    /\ outcome \in {"none", "succeeded", "failed"}
    /\ queue \in Seq(Items)
    /\ spc \in {"get", "yielded", "sent", "returning", "stopped"}
    /\ item \in Items
    /\ wire \in Seq(Items)
    /\ halfClosed \in BOOLEAN
    /\ resp \in Seq({"load_certificate"})
    /\ status \in Codes \ {"DEADLINE_EXCEEDED"}
    /\ code \in Codes
    /\ expired \in BOOLEAN
    /\ exists \in BOOLEAN
    /\ binding \in {"before", "provisional", "committed"}
    /\ answered \in BOOLEAN
    /\ devOpen \in BOOLEAN

\* "wait for its response before finalizing" (cert.py:145-155): the device
\* never commits a rotation whose load response the client has not seen.
CommitOnlyOnceSeen ==
    op = "rotate" /\ binding = "committed" => loadSeen

\* The sending side of a rotation is closed only behind the Finalize
\* (cert.py:155-156), never while the device still waits for it.
StreamEndsBehindFinalize ==
    op = "rotate" /\ halfClosed /\ devOpen =>
        binding = "committed" \/ \E i \in DOMAIN wire : wire[i] = "finalize"

\* Success is reported only if the device closed with OK, so never for an
\* install over an existing id or a rotation of a missing one (cert.py:89-92,
\* 122-126, 109-110, 161-163).
SuccessNotOverRefusedId ==
    outcome = "succeeded" => status = "OK" /\ Acceptable

\* The task returns whatever the device does.
HandlerReturns == <>(mpc = "disconnected")

\* No exit leaves the sender in send_queue.get() (cert.py:156-162).
SenderReleased == (mpc = "disconnected") ~> (spc = "stopped")

(***************************************************************************)
(* The handlers implement CertContract.                                    *)
(***************************************************************************)
Ending ==
    IF devOpen THEN "none"
    ELSE CASE status = "none" -> "lost" [] status = "OK" -> "OK" [] OTHER -> "error"

Contract == INSTANCE CertContract
    WITH kind <- op, refused <- ~Acceptable, held <- binding, validated <- answered,
         confirmed <- loadSeen, ending <- Ending, report <- outcome

\* Queue, sender, stream and device together are one transaction: no commit
\* before the answer was seen, nothing half done behind its end and nothing
\* done at all behind an error, one report, which is a success only behind the
\* OK of a device that did not refuse the id (cert.py:85-169).
ImplementsContract == Contract!Spec

\* What the handlers say of themselves and the code does not keep: "a
\* load_certificate response signals success" (cert.py:106), "sends a Finalize
\* message to commit the rotation" (cert.py:123-124).
SuccessMeansCommitted == outcome = "succeeded" => binding = "committed"
=============================================================================
