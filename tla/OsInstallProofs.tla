--------------------------- MODULE OsInstallProofs ---------------------------
(***************************************************************************)
(* Theorems about OsInstall, for every image size, file length, chunk size *)
(* and window.                                                             *)
(***************************************************************************)
EXTENDS OsInstallInv, SequenceTheorems, TLAPS

\* What the program counters of the sender stand for.
LEMMA SenderStages ==
    /\ DOMAIN Sends = {"request", "content", "end"}
    /\ DOMAIN Pulls = {"sent_request", "sent_content", "sent_end"}
    /\ Sends["request"] = "sent_request"
    /\ Sends["content"] = "sent_content"
    /\ Sends["end"] = "sent_end"
    /\ Pulls["sent_request"] = "wait"
    /\ Pulls["sent_content"] = "read"
    /\ Pulls["sent_end"] = "returning"
  BY DEF Sends, Pulls

\* Every read makes progress and stays within the file.
LEMMA ReadSizeBounds ==
    ASSUME pos \in Nat, fileLen \in Nat, pos < fileLen
    PROVE  /\ ReadSize \in Nat
           /\ 0 < ReadSize
           /\ pos + ReadSize <= fileLen
  BY SizesAssumption DEF ReadSize

LEMMA MessageTypes ==
    /\ \A k \in {"transfer_request", "transfer_content", "transfer_end"} :
          Request(k) \in InstallRequests
    /\ \A n \in Nat : ContentUpTo(n) \in InstallRequests
    /\ \A k \in {"transfer_ready", "sync_progress", "validated",
                 "install_run_package", "install_error"} :
          Response(k) \in InstallResponses
    /\ \A n \in Nat : ProgressOf(n) \in InstallResponses
    /\ \A v \in Versions : ValidatedAs(v) \in InstallResponses
  BY DEF Request, ContentUpTo, Response, ProgressOf, ValidatedAs,
         InstallRequests, InstallResponses, Versions

-----------------------------------------------------------------------------
(***************************************************************************)
(* Type correctness.                                                       *)
(***************************************************************************)
LEMMA TypeInit == Init => TypeOK
  <1> SUFFICES ASSUME Init PROVE TypeOK
    OBVIOUS
  <1>1. wire \in Seq(InstallRequests) /\ resp \in Seq(InstallResponses)
    BY EmptySeq DEF Init
  <1> QED
    BY <1>1, SenderStages DEF Init, TypeOK, Outcomes, Codes, Versions

\* An exit of the handler changes these four variables only.
LEMMA LeaveTypes ==
    ASSUME NEW o \in Outcomes, NEW n \in Nat, Leave(o, n)
    PROVE  /\ outcome' \in Outcomes
           /\ reported' \in Nat
           /\ mpc' \in {"loop", "closed", "count", "done", "disconnected"}
           /\ readyEvent' \in BOOLEAN
  BY DEF Leave

LEMMA MainKeepsTypes == TypeOK /\ Main => TypeOK'
  <1> SUFFICES ASSUME TypeOK, Main PROVE TypeOK'
    OBVIOUS
  <1> USE DEF mainVars, senderVars, deviceVars
  <1>0. UNCHANGED <<senderVars, deviceVars, wire, expired>>
    BY DEF Main
  <1>1. ASSUME NEW k, TakeResponse(k)
        PROVE  /\ resp' \in Seq(InstallResponses)
               /\ Head(resp).bytes \in Nat
               /\ Head(resp).version \in Versions
    <2>1. resp \in Seq(InstallResponses) /\ resp # <<>> /\ resp' = Tail(resp)
      BY <1>0, <1>1 DEF TakeResponse, TypeOK
    <2>2. Head(resp) \in InstallResponses /\ Tail(resp) \in Seq(InstallResponses)
      BY <2>1
    <2> QED
      BY <2>1, <2>2 DEF InstallResponses
  <1>2. CASE OnTransferReady
    BY <1>0, <1>1, <1>2 DEF OnTransferReady, TakeResponse, TypeOK
  <1>3. CASE OnTransferProgress
    BY <1>0, <1>1, <1>3 DEF OnTransferProgress, TakeResponse, TypeOK
  <1>4. CASE OnSyncProgress
    BY <1>0, <1>1, <1>4 DEF OnSyncProgress, TakeResponse, TypeOK
  <1>5. CASE OnValidated
    BY <1>0, <1>1, <1>5 DEF OnValidated, TakeResponse, TypeOK
  <1>6. CASE OnInstallError
    <2>1. Leave("already_running", 0) \/ Leave("failed", 0)
      BY <1>0, <1>6 DEF OnInstallError
    <2>2. "already_running" \in Outcomes /\ "failed" \in Outcomes /\ 0 \in Nat
      BY DEF Outcomes
    <2> QED
      BY <1>0, <1>1, <1>6, <2>1, <2>2, LeaveTypes DEF OnInstallError, TakeResponse, TypeOK
  <1>7. CASE OnRpcError
    <2>1. "transferred_unvalidated" \in Outcomes /\ "failed" \in Outcomes /\ 0 \in Nat
      BY DEF Outcomes
    <2> QED
      BY <1>0, <1>7, <2>1, LeaveTypes DEF OnRpcError, TypeOK
  <1>8. CASE OnStreamEnd
    BY <1>0, <1>8 DEF OnStreamEnd, TypeOK
  <1>9. CASE CheckSendError
    <2>1. "failed" \in Outcomes /\ 0 \in Nat
      BY DEF Outcomes
    <2> QED
      BY <1>0, <1>9, <2>1, LeaveTypes DEF CheckSendError, TypeOK
  <1>10. CASE ReportCleanClose
    <2>1. CleanReport(bytesSent) \in Outcomes /\ bytesSent \in Nat
      BY DEF CleanReport, Outcomes, TypeOK
    <2> QED
      BY <1>0, <1>10, <2>1, LeaveTypes DEF ReportCleanClose, TypeOK
  <1>11. CASE Disconnect
    BY <1>0, <1>11 DEF Disconnect, TypeOK, Codes
  <1> QED
    BY <1>0, <1>2, <1>3, <1>4, <1>5, <1>6, <1>7, <1>8, <1>9, <1>10, <1>11 DEF Main

LEMMA SenderKeepsTypes == TypeOK /\ Sender => TypeOK'
  <1> SUFFICES ASSUME TypeOK, Sender PROVE TypeOK'
    OBVIOUS
  <1> USE SenderStages DEF mainVars, senderVars, deviceVars
  <1>0. UNCHANGED <<mainVars, deviceVars, fileLen, resp, code, expired>>
    BY DEF Sender, SenderRuns, SenderFrame
  <1>1. CASE HandToTransport
    <2>1. OutgoingMessage \in InstallRequests
      BY <1>0, <1>1, MessageTypes DEF HandToTransport, OutgoingMessage, TypeOK
    <2> QED
      BY <1>0, <1>1, <2>1 DEF HandToTransport, TypeOK
  <1>2. CASE PullNext
    BY <1>0, <1>2 DEF PullNext, TypeOK
  <1>3. CASE DropMessage
    BY <1>0, <1>3 DEF DropMessage, TypeOK
  <1>4. CASE HalfClose
    BY <1>0, <1>4 DEF HalfClose, TypeOK
  <1>5. CASE WaitReady
    BY <1>0, <1>5 DEF WaitReady, TypeOK
  <1>6. CASE WaitTimeout
    BY <1>0, <1>6 DEF WaitTimeout, TypeOK
  <1>7. CASE ReadChunk
    BY <1>0, <1>7, ReadSizeBounds, SizesAssumption DEF ReadChunk, TypeOK
  <1>8. CASE ReadEndOfFile
    BY <1>0, <1>8 DEF ReadEndOfFile, TypeOK
  <1>9. CASE ReadError
    BY <1>0, <1>9 DEF ReadError, TypeOK
  <1> QED
    BY <1>0, <1>1, <1>2, <1>3, <1>4, <1>5, <1>6, <1>7, <1>8, <1>9
    DEF Sender, SenderRuns

LEMMA ChannelKeepsTypes == TypeOK /\ Channel => TypeOK'
  <1> SUFFICES ASSUME TypeOK, Channel PROVE TypeOK'
    OBVIOUS
  <1> USE DEF mainVars, senderVars, deviceVars
  <1>0. UNCHANGED <<mainVars, senderVars, deviceVars, wire>>
    BY DEF Channel, Clock, ChannelFrame
  <1>1. CASE TimePasses
    BY <1>0, <1>1 DEF TimePasses, TypeOK
  <1>2. CASE Deadline \/ ConnectionLost
    <2>1. resp' \in Seq(InstallResponses)
      BY <1>0, <1>2, EmptySeq DEF Deadline, ConnectionLost, EndLocally
    <2> QED
      BY <1>0, <1>2, <2>1 DEF Deadline, ConnectionLost, EndLocally, TypeOK, Codes
  <1>3. CASE StatusArrives
    BY <1>0, <1>3 DEF StatusArrives, TypeOK, Codes
  <1> QED
    BY <1>0, <1>1, <1>2, <1>3 DEF Channel, Clock

LEMMA DeviceKeepsTypes == TypeOK /\ Device => TypeOK'
  <1> SUFFICES ASSUME TypeOK, Device PROVE TypeOK'
    OBVIOUS
  <1> USE DEF mainVars, senderVars, deviceVars
  <1>0. UNCHANGED <<mainVars, senderVars, code, expired>>
    BY DEF Device
  <1>1. CASE DeviceReceive
    <2>1. Head(wire) \in InstallRequests /\ Tail(wire) \in Seq(InstallRequests)
      BY <1>0, <1>1 DEF DeviceReceive, TypeOK
    <2>2. Head(wire).upto \in Nat
      BY <2>1 DEF InstallRequests
    <2> QED
      BY <1>0, <1>1, <2>1, <2>2 DEF DeviceReceive, TypeOK
  <1>2. CASE DeviceReady
    BY <1>0, <1>2, MessageTypes DEF DeviceReady, DeviceSends, TypeOK
  <1>3. CASE DeviceProgress
    <2>1. \E r \in InstallResponses : DeviceSends(r)
      BY <1>3, MessageTypes DEF DeviceProgress, TypeOK
    <2>2. UNCHANGED <<wire, devPhase, devReadySent, devBytes, devComplete, status>>
      BY <1>3 DEF DeviceProgress, DeviceSends
    <2>3. resp' \in Seq(InstallResponses)
      BY <2>1 DEF DeviceSends, TypeOK
    <2> QED
      BY <1>0, <2>2, <2>3 DEF TypeOK
  <1>4. CASE DeviceValidated
    BY <1>0, <1>4, MessageTypes DEF DeviceValidated, DeviceSends, TypeOK
  <1>5. CASE DeviceError
    BY <1>0, <1>5, MessageTypes DEF DeviceError, DeviceSends, TypeOK
  <1>6. CASE DeviceCloses
    BY <1>0, <1>6 DEF DeviceCloses, TypeOK, Codes
  <1> QED
    BY <1>1, <1>2, <1>3, <1>4, <1>5, <1>6 DEF Device

LEMMA TypeStep == TypeOK /\ [Next]_vars => TypeOK'
  <1> SUFFICES ASSUME TypeOK, [Next]_vars PROVE TypeOK'
    OBVIOUS
  <1>1. CASE Finished \/ UNCHANGED vars
    BY <1>1 DEF Finished, vars, mainVars, senderVars, deviceVars, TypeOK
  <1> QED
    BY <1>1, MainKeepsTypes, SenderKeepsTypes, ChannelKeepsTypes, DeviceKeepsTypes DEF Next

\* Every variable keeps its type, whatever the sizes and the windows.
THEOREM TypeCorrect == Spec => []TypeOK
  BY TypeInit, TypeStep, PTL DEF Spec

-----------------------------------------------------------------------------
(***************************************************************************)
(* Sequences: the three operators the queues are changed by.               *)
(***************************************************************************)
LEMMA TailFacts ==
    ASSUME NEW S, NEW q \in Seq(S), q # <<>>
    PROVE  /\ Len(q) \in Nat /\ Len(q) >= 1 /\ DOMAIN q = 1 .. Len(q)
           /\ Head(q) = q[1] /\ Head(q) \in S
           /\ Tail(q) \in Seq(S) /\ Len(Tail(q)) = Len(q) - 1
           /\ DOMAIN Tail(q) = 1 .. Len(q) - 1
           /\ \A i \in DOMAIN Tail(q) : Tail(q)[i] = q[i + 1] /\ i + 1 \in DOMAIN q
  OBVIOUS

LEMMA AppendFacts ==
    ASSUME NEW S, NEW q \in Seq(S), NEW e \in S
    PROVE  /\ Len(q) \in Nat /\ DOMAIN q = 1 .. Len(q)
           /\ Append(q, e) \in Seq(S) /\ Len(Append(q, e)) = Len(q) + 1
           /\ DOMAIN Append(q, e) = 1 .. Len(q) + 1
           /\ \A i \in DOMAIN q : Append(q, e)[i] = q[i]
           /\ Append(q, e)[Len(q) + 1] = e
  OBVIOUS

-----------------------------------------------------------------------------
(***************************************************************************)
(* The inductive invariant, one conjunct at a time.                        *)
(***************************************************************************)
LEMMA InvInit == Init => IInv
  <1> SUFFICES ASSUME Init PROVE IInv
    OBVIOUS
  <1>1. fileLen \in Nat
    BY SizesAssumption DEF Init
  <1>2. DOMAIN wire = {} /\ DOMAIN resp = {}
    BY DEF Init
  <1>3. AccountingInv /\ SenderInv /\ ReadyInv
    BY <1>1, <1>2 DEF Init, AccountingInv, SenderInv, ReadyInv
  <1>4. WireInv /\ EndInv
    BY <1>2 DEF Init, WireInv, EndInv, Reaches
  <1>5. VerdictInv /\ ReportInv
    BY <1>2 DEF Init, VerdictInv, ReportInv, Succeeded
  <1> QED
    BY <1>3, <1>4, <1>5, TypeInit DEF IInv

\* ready_event is never cleared.
LEMMA ReadyStays == IInv /\ [Next]_vars => (readyEvent => readyEvent')
  BY DEF Next, Main, OnTransferReady, OnTransferProgress, OnSyncProgress,
         OnValidated, OnInstallError, OnRpcError, OnStreamEnd, CheckSendError,
         ReportCleanClose, Disconnect, Leave, Sender, SenderRuns, SenderFrame,
         Channel, Clock, ChannelFrame, Device, Finished, vars, mainVars,
         IInv, TypeOK

LEMMA AccountingStep == IInv /\ [Next]_vars => AccountingInv'
  <1> SUFFICES ASSUME IInv, [Next]_vars PROVE AccountingInv'
    OBVIOUS
  <1> USE DEF senderVars
  <1>1. fileLen \in Nat /\ pos \in Nat
    BY SizesAssumption DEF IInv, TypeOK
  <1>2. readyEvent => readyEvent'
    BY ReadyStays
  <1>3. CASE UNCHANGED senderVars
    BY <1>2, <1>3 DEF IInv, AccountingInv
  <1>4. CASE Sender
    <2>1. fileLen' = fileLen
      BY <1>4 DEF Sender, SenderRuns, SenderFrame
    <2>2. CASE ReadChunk
      BY <1>1, <1>2, <2>1, <2>2, ReadSizeBounds
      DEF ReadChunk, IInv, AccountingInv, SenderInv, ReadyInv
    <2>3. CASE ReadEndOfFile
      BY <1>2, <2>1, <2>3 DEF ReadEndOfFile, IInv, AccountingInv
    <2>4. CASE UNCHANGED <<pos, bytesSent, ended>>
      BY <1>2, <2>1, <2>4 DEF IInv, AccountingInv
    <2> QED
      BY <1>4, <2>2, <2>3, <2>4
      DEF Sender, SenderRuns, HandToTransport, PullNext, DropMessage, HalfClose,
          WaitReady, WaitTimeout, ReadError
  <1> QED
    BY <1>3, <1>4
    DEF Next, Main, Channel, Clock, ChannelFrame, Device, Finished, vars

LEMMA SenderStep == IInv /\ [Next]_vars => SenderInv'
  <1> SUFFICES ASSUME IInv, [Next]_vars PROVE SenderInv'
    OBVIOUS
  <1> USE SenderStages DEF senderVars
  <1>1. fileLen \in Nat /\ pos \in Nat
    BY SizesAssumption DEF IInv, TypeOK
  <1>2. readyEvent => readyEvent'
    BY ReadyStays
  <1>3. CASE UNCHANGED senderVars
    BY <1>2, <1>3 DEF IInv, SenderInv
  <1>4. CASE Sender
    <2> USE DEF IInv, SenderInv
    <2>1. CASE HandToTransport
      BY <1>2, <2>1 DEF HandToTransport
    <2>2. CASE PullNext
      BY <1>2, <2>2 DEF PullNext
    <2>3. CASE DropMessage \/ HalfClose
      BY <2>3 DEF DropMessage, HalfClose
    <2>4. CASE WaitReady \/ WaitTimeout
      BY <1>2, <2>4 DEF WaitReady, WaitTimeout
    <2>5. CASE ReadChunk
      BY <1>1, <1>2, <2>5, ReadSizeBounds DEF ReadChunk
    <2>6. CASE ReadEndOfFile \/ ReadError
      BY <1>2, <2>6 DEF ReadEndOfFile, ReadError
    <2> QED
      BY <1>4, <2>1, <2>2, <2>3, <2>4, <2>5, <2>6 DEF Sender, SenderRuns
  <1> QED
    BY <1>3, <1>4
    DEF Next, Main, Channel, Clock, ChannelFrame, Device, Finished, vars

\* The response the main thread takes is the oldest one.
LEMMA ResponseTaken ==
    ASSUME IInv, NEW k, TakeResponse(k)
    PROVE  /\ mpc = "loop" /\ code' = code
           /\ 1 \in DOMAIN resp /\ Head(resp) = resp[1] /\ resp[1].kind = k
           /\ \A i \in DOMAIN resp' : resp'[i] = resp[i + 1] /\ i + 1 \in DOMAIN resp
  <1>1. resp \in Seq(InstallResponses) /\ resp # <<>> /\ resp' = Tail(resp)
    BY DEF TakeResponse, IInv, TypeOK
  <1> QED
    BY <1>1, TailFacts DEF TakeResponse

\* What the device sends is the newest response.
LEMMA ResponseSent ==
    ASSUME IInv, NEW r \in InstallResponses, DeviceSends(r)
    PROVE  \A i \in DOMAIN resp' : resp'[i] = r \/ (i \in DOMAIN resp /\ resp'[i] = resp[i])
  <1>1. resp \in Seq(InstallResponses) /\ resp' = Append(resp, r)
    BY DEF DeviceSends, IInv, TypeOK
  <1> QED
    BY <1>1, AppendFacts

\* What each of the device's answers carries.
LEMMA DeviceSteps ==
    ASSUME IInv, Device
    PROVE  \/ (DeviceReceive \/ DeviceCloses) /\ UNCHANGED <<resp, devReadySent>>
           \/ \E r \in InstallResponses :
                /\ DeviceSends(r)
                /\ \/ DeviceReady /\ r.kind = "transfer_ready"
                   \/ DeviceProgress /\ r.kind = "sync_progress"
                   \/ DeviceProgress /\ r.kind = "transfer_progress" /\ r.bytes = devBytes
                   \/ DeviceValidated /\ r.kind = "validated"
                   \/ DeviceError /\ r.kind \in {"install_run_package", "install_error"}
  <1>0. devBytes \in Nat
    BY DEF IInv, TypeOK
  <1>1. CASE DeviceReceive \/ DeviceCloses
    BY <1>1 DEF DeviceReceive, DeviceCloses
  <1>2. CASE DeviceReady
    <2>1. Response("transfer_ready") \in InstallResponses
          /\ Response("transfer_ready").kind = "transfer_ready"
      BY MessageTypes DEF Response
    <2> QED
      BY <1>2, <2>1 DEF DeviceReady
  <1>3. CASE DeviceProgress
    <2>1. /\ ProgressOf(devBytes) \in InstallResponses
          /\ ProgressOf(devBytes).kind = "transfer_progress"
          /\ ProgressOf(devBytes).bytes = devBytes
          /\ Response("sync_progress") \in InstallResponses
          /\ Response("sync_progress").kind = "sync_progress"
      BY <1>0, MessageTypes DEF Response, ProgressOf
    <2>2. DeviceSends(ProgressOf(devBytes)) \/ DeviceSends(Response("sync_progress"))
      BY <1>3 DEF DeviceProgress
    <2> QED
      BY <1>3, <2>1, <2>2
  <1>4. CASE DeviceValidated
    <2>1. PICK v \in Versions : DeviceSends(ValidatedAs(v))
      BY <1>4 DEF DeviceValidated
    <2>2. ValidatedAs(v) \in InstallResponses /\ ValidatedAs(v).kind = "validated"
      BY MessageTypes DEF ValidatedAs, Response
    <2> QED
      BY <1>4, <2>1, <2>2
  <1>5. CASE DeviceError
    <2>1. PICK k \in {"install_run_package", "install_error"} : DeviceSends(Response(k))
      BY <1>5 DEF DeviceError
    <2>2. Response(k) \in InstallResponses /\ Response(k).kind = k
      BY MessageTypes DEF Response
    <2> QED
      BY <1>5, <2>1, <2>2
  <1> QED
    BY <1>1, <1>2, <1>3, <1>4, <1>5 DEF Device

\* Of the main thread's actions only these read the responses.
LEMMA MainSteps ==
    ASSUME IInv, Main
    PROVE  \/ /\ \E k : TakeResponse(k)
              /\ mpc' # "loop" \/ readyEvent' = readyEvent \/ TakeResponse("transfer_ready")
           \/ /\ UNCHANGED resp
              /\ mpc' # "loop"
  BY DEF Main, OnTransferReady, OnTransferProgress, OnSyncProgress,
         OnValidated, OnInstallError, OnRpcError, OnStreamEnd, CheckSendError,
         ReportCleanClose, Disconnect, Leave, mainVars

LEMMA ReadyStep == IInv /\ [Next]_vars => ReadyInv'
  <1> SUFFICES ASSUME IInv, [Next]_vars PROVE ReadyInv'
    OBVIOUS
  <1>1. CASE Main
    <2>1. UNCHANGED deviceVars
      BY <1>1 DEF Main
    <2>2. CASE \E k : TakeResponse(k) /\ (\/ mpc' # "loop" \/ readyEvent' = readyEvent
                                          \/ TakeResponse("transfer_ready"))
      BY <2>1, <2>2, ResponseTaken DEF IInv, ReadyInv, deviceVars
    <2>3. CASE UNCHANGED resp /\ mpc' # "loop"
      BY <2>1, <2>3 DEF IInv, ReadyInv, deviceVars
    <2> QED
      BY <1>1, <2>2, <2>3, MainSteps
  <1>2. CASE Channel
    <2>1. resp' = resp \/ DOMAIN resp' = {}
      BY <1>2 DEF Channel, Clock, TimePasses, Deadline, ConnectionLost, EndLocally,
                  StatusArrives
    <2> QED
      BY <1>2, <2>1 DEF Channel, Clock, ChannelFrame, mainVars, deviceVars, IInv, ReadyInv
  <1>3. CASE Device
    <2>1. UNCHANGED mainVars
      BY <1>3 DEF Device
    <2>2. CASE (DeviceReceive \/ DeviceCloses) /\ UNCHANGED <<resp, devReadySent>>
      BY <2>1, <2>2 DEF DeviceReceive, DeviceCloses, mainVars, IInv, ReadyInv
    <2>3. ASSUME NEW r \in InstallResponses, DeviceSends(r),
                 \/ DeviceReady /\ r.kind = "transfer_ready"
                 \/ DeviceProgress /\ r.kind # "transfer_ready"
                 \/ DeviceValidated /\ r.kind # "transfer_ready"
                 \/ DeviceError /\ r.kind # "transfer_ready"
          PROVE  ReadyInv'
      <3>1. \/ devReadySent' = TRUE /\ devPhase' = "receiving"
            \/ /\ devReadySent' = devReadySent /\ r.kind # "transfer_ready"
               /\ devPhase' = devPhase \/ devPhase' = "verdict"
        <4>1. CASE DeviceReady
          BY <4>1 DEF DeviceReady
        <4>2. CASE DeviceProgress /\ r.kind # "transfer_ready"
          BY <4>2 DEF DeviceProgress
        <4>3. CASE DeviceValidated /\ r.kind # "transfer_ready"
          BY <4>3 DEF DeviceValidated
        <4>4. CASE DeviceError /\ r.kind # "transfer_ready"
          BY <4>4 DEF DeviceError
        <4> QED
          BY <2>3, <4>1, <4>2, <4>3, <4>4
      <3>2. devReadySent => devReadySent' /\ devPhase' \notin {"idle", "asked"}
        BY <3>1 DEF IInv, ReadyInv
      <3>3. \A i \in DOMAIN resp' : resp'[i].kind = "transfer_ready" => devReadySent'
        BY <2>3, <3>1, <3>2, ResponseSent DEF IInv, ReadyInv
      <3>4. devReadySent' => devPhase' \notin {"idle", "asked"}
        BY <3>1, <3>2
      <3> QED
        BY <2>1, <3>2, <3>3, <3>4 DEF mainVars, IInv, ReadyInv
    <2> QED
      BY <1>3, <2>2, <2>3, DeviceSteps
  <1>4. CASE Sender \/ Finished \/ UNCHANGED vars
    BY <1>4 DEF Sender, SenderRuns, SenderFrame, Finished, vars, mainVars, deviceVars,
                IInv, ReadyInv
  <1> QED
    BY <1>1, <1>2, <1>3, <1>4 DEF Next

\* How the queue to the device changes, if it does.
LEMMA WireSteps ==
    ASSUME IInv, [Next]_vars
    PROVE  \/ UNCHANGED wire
           \/ HandToTransport /\ UNCHANGED <<deviceVars, fileLen, code>>
           \/ DeviceReceive /\ UNCHANGED <<senderVars, code>>
           \/ DeviceCloses /\ UNCHANGED <<senderVars, code>>
  BY DEF Next, Main, Sender, SenderRuns, SenderFrame, HandToTransport, PullNext, DropMessage,
         HalfClose, WaitReady, WaitTimeout, ReadChunk, ReadEndOfFile, ReadError,
         Channel, Clock, ChannelFrame, Device, DeviceReady, DeviceProgress,
         DeviceValidated, DeviceError, DeviceSends, Finished, vars

\* Without a message moving, only reads and closing change what WireInv and
\* EndInv speak of.
LEMMA QuietSteps ==
    ASSUME IInv, [Next]_vars, UNCHANGED wire
    PROVE  /\ devBytes' = devBytes /\ fileLen' = fileLen
           /\ devComplete' = devComplete
           /\ pos' = pos \/ (ReadChunk /\ UNCHANGED <<deviceVars, code>>)
           /\ devPhase' = "closed" \/ devPhase # "closed"
           /\ code' = "none" => code = "none"
  <1> USE DEF vars, mainVars, senderVars, deviceVars
  <1>1. CASE Main
    BY <1>1 DEF Main, OnTransferReady, OnTransferProgress, OnSyncProgress,
       OnValidated, OnInstallError, OnRpcError, OnStreamEnd, CheckSendError,
       ReportCleanClose, Disconnect, TakeResponse
  <1>2. CASE Sender
    BY <1>2 DEF Sender, SenderRuns, SenderFrame, HandToTransport, PullNext, DropMessage,
       HalfClose, WaitReady, WaitTimeout, ReadChunk, ReadEndOfFile, ReadError
  <1>3. CASE Channel
    BY <1>3 DEF Channel, Clock, ChannelFrame, TimePasses, Deadline, ConnectionLost,
       EndLocally, StatusArrives, IInv, TypeOK
  <1>4. CASE Device
    <2>1. wire \in Seq(InstallRequests)
      BY DEF IInv, TypeOK
    <2>2. ~ DeviceReceive
      <3>1. wire # <<>> => Len(Tail(wire)) # Len(wire)
        BY <2>1, TailFacts
      <3> QED
        BY <3>1 DEF DeviceReceive
    <2> QED
      BY <1>4, <2>2 DEF Device, DeviceReady, DeviceProgress, DeviceValidated, DeviceError,
         DeviceSends, DeviceCloses
  <1> QED
    BY <1>1, <1>2, <1>3, <1>4 DEF Next, Finished

\* A message handed to the transport is the newest one in flight.
LEMMA MessageHanded ==
    ASSUME IInv, HandToTransport
    PROVE  /\ Len(wire) \in Nat /\ DOMAIN wire = 1 .. Len(wire)
           /\ Len(wire') = Len(wire) + 1 /\ DOMAIN wire' = 1 .. Len(wire) + 1
           /\ \A i \in DOMAIN wire : wire'[i] = wire[i]
           /\ wire'[Len(wire) + 1] = OutgoingMessage
           /\ spc = "content" => OutgoingMessage = ContentUpTo(pos)
           /\ spc = "end" => OutgoingMessage.kind = "transfer_end"
           /\ spc = "request" => OutgoingMessage.kind = "transfer_request"
           /\ spc \in {"request", "content", "end"}
  <1>1. spc \in {"request", "content", "end"}
    BY SenderStages DEF HandToTransport
  <1>2. /\ spc = "content" => OutgoingMessage = ContentUpTo(pos)
        /\ spc = "end" => OutgoingMessage = Request("transfer_end")
        /\ spc = "request" => OutgoingMessage = Request("transfer_request")
    BY DEF OutgoingMessage
  <1>3. OutgoingMessage \in InstallRequests
    BY <1>1, <1>2, MessageTypes DEF IInv, TypeOK
  <1>4. wire \in Seq(InstallRequests) /\ wire' = Append(wire, OutgoingMessage)
    BY DEF HandToTransport, IInv, TypeOK
  <1> QED
    BY <1>1, <1>2, <1>3, <1>4, AppendFacts DEF Request

\* The message the device receives is the oldest one in flight.
LEMMA MessageReceived ==
    ASSUME IInv, DeviceReceive
    PROVE  /\ Len(wire) \in Nat /\ 1 <= Len(wire) /\ DOMAIN wire = 1 .. Len(wire)
           /\ Len(wire') = Len(wire) - 1 /\ DOMAIN wire' = 1 .. Len(wire) - 1
           /\ \A i \in DOMAIN wire' : wire'[i] = wire[i + 1] /\ i + 1 \in DOMAIN wire
           /\ devBytes' = IF ContentAt(1) THEN wire[1].upto ELSE devBytes
           /\ devComplete' = (devComplete \/ EndAt(1))
           /\ wire[1].upto \in Nat
           /\ wire' \in Seq(InstallRequests)
           /\ devPhase # "closed"
  <1>1. wire \in Seq(InstallRequests) /\ wire # <<>> /\ wire' = Tail(wire)
    BY DEF DeviceReceive, IInv, TypeOK
  <1>2. Head(wire) = wire[1] /\ wire[1] \in InstallRequests
    BY <1>1, TailFacts
  <1>3. wire[1].upto \in Nat
    BY <1>2 DEF InstallRequests
  <1> QED
    BY <1>1, <1>2, <1>3, TailFacts DEF DeviceReceive, ContentAt, EndAt

LEMMA WireTypes ==
    ASSUME IInv
    PROVE  /\ fileLen \in Nat /\ pos \in Nat /\ devBytes \in Nat
           /\ wire \in Seq(InstallRequests)
           /\ \A i \in DOMAIN wire : wire[i].upto \in Nat
  <1>1. wire \in Seq(InstallRequests) /\ fileLen \in Nat /\ pos \in Nat /\ devBytes \in Nat
    BY SizesAssumption DEF IInv, TypeOK
  <1>2. \A i \in DOMAIN wire : wire[i] \in InstallRequests
    BY <1>1
  <1>3. \A m \in InstallRequests : m.upto \in Nat
    BY DEF InstallRequests
  <1> QED
    BY <1>1, <1>2, <1>3

LEMMA WireStep == IInv /\ [Next]_vars => WireInv'
  <1> SUFFICES ASSUME IInv, [Next]_vars PROVE WireInv'
    OBVIOUS
  <1>0. /\ fileLen \in Nat /\ pos \in Nat /\ devBytes \in Nat
        /\ wire \in Seq(InstallRequests)
        /\ \A i \in DOMAIN wire : wire[i].upto \in Nat
    BY WireTypes
  <1>1. CASE UNCHANGED wire
    <2>1. pos' \in Nat /\ pos <= pos'
      <3>1. CASE ReadChunk
        BY <1>0, <3>1, ReadSizeBounds DEF ReadChunk
      <3> QED
        BY <1>0, <1>1, <3>1, QuietSteps
    <2> QED
      BY <1>0, <1>1, <2>1, QuietSteps DEF IInv, WireInv, ContentAt, EndAt
  <1>2. CASE HandToTransport /\ UNCHANGED <<deviceVars, fileLen, code>>
    <2>1. pos' = pos /\ devBytes' = devBytes
      BY <1>2 DEF HandToTransport, deviceVars
    <2>2. \A i \in DOMAIN wire : ~EndAt(i)
      BY <1>2, MessageHanded DEF IInv, EndInv
    <2>3. \/ wire'[Len(wire) + 1] = ContentUpTo(pos) /\ 0 < pos
          \/ wire'[Len(wire) + 1].kind # "transfer_content"
      BY <1>2, MessageHanded DEF IInv, SenderInv
    <2>4. ContentUpTo(pos).upto = pos /\ ContentUpTo(pos).kind = "transfer_content"
      BY DEF ContentUpTo
    <2>5. \A i \in DOMAIN wire' :
            /\ ContentAt(i)' => /\ devBytes <= wire'[i].upto
                               /\ wire'[i].upto <= pos
                               /\ 0 < wire'[i].upto
            /\ EndAt(i)' => i = Len(wire')
      <3> SUFFICES ASSUME NEW i \in DOMAIN wire'
                   PROVE  /\ ContentAt(i)' => /\ devBytes <= wire'[i].upto
                                             /\ wire'[i].upto <= pos
                                             /\ 0 < wire'[i].upto
                          /\ EndAt(i)' => i = Len(wire')
        OBVIOUS
      <3>1. CASE i \in DOMAIN wire
        BY <1>2, <2>2, <3>1, MessageHanded DEF IInv, WireInv, ContentAt, EndAt
      <3>2. CASE i = Len(wire) + 1
        BY <1>0, <1>2, <2>3, <2>4, <3>2, MessageHanded DEF IInv, WireInv, ContentAt
      <3> QED
        BY <1>2, <3>1, <3>2, MessageHanded
    <2>6. \A i, j \in DOMAIN wire' : ContentAt(i)' /\ ContentAt(j)' /\ i < j
                                     => wire'[i].upto <= wire'[j].upto
      <3> SUFFICES ASSUME NEW i \in DOMAIN wire', NEW j \in DOMAIN wire',
                          ContentAt(i)', ContentAt(j)', i < j
                   PROVE  wire'[i].upto <= wire'[j].upto
        OBVIOUS
      <3>1. i \in DOMAIN wire /\ ContentAt(i) /\ wire'[i] = wire[i]
        BY <1>2, MessageHanded DEF ContentAt
      <3>2. CASE j \in DOMAIN wire
        BY <1>2, <3>1, <3>2, MessageHanded DEF IInv, WireInv, ContentAt
      <3>3. CASE j = Len(wire) + 1
        BY <1>2, <2>3, <2>4, <3>1, <3>3, MessageHanded DEF IInv, WireInv, ContentAt
      <3> QED
        BY <1>2, <3>2, <3>3, MessageHanded
    <2> QED
      BY <2>1, <2>5, <2>6 DEF IInv, WireInv
  <1>3. CASE DeviceReceive /\ UNCHANGED <<senderVars, code>>
    <2>1. pos' = pos
      BY <1>3 DEF senderVars
    <2>2. 1 \in DOMAIN wire
      BY <1>3, MessageReceived
    <2>3. devBytes <= devBytes' /\ devBytes' <= pos /\ devBytes' \in Nat
      BY <1>0, <1>3, <2>2, MessageReceived DEF IInv, WireInv
    <2>4. \A i \in DOMAIN wire' : ContentAt(i)' => devBytes' <= wire'[i].upto
      <3> SUFFICES ASSUME NEW i \in DOMAIN wire', ContentAt(i)'
                   PROVE  devBytes' <= wire'[i].upto
        OBVIOUS
      <3>1. i + 1 \in DOMAIN wire /\ wire'[i] = wire[i + 1] /\ ContentAt(i + 1) /\ 1 < i + 1
        BY <1>3, MessageReceived DEF ContentAt
      <3>2. CASE ContentAt(1)
        BY <1>3, <2>2, <3>1, <3>2, MessageReceived DEF IInv, WireInv
      <3>3. CASE ~ContentAt(1)
        BY <1>3, <3>1, <3>3, MessageReceived DEF IInv, WireInv
      <3> QED
        BY <3>2, <3>3
    <2> QED
      BY <1>3, <2>1, <2>3, <2>4, MessageReceived DEF IInv, WireInv, ContentAt, EndAt
  <1>4. CASE DeviceCloses /\ UNCHANGED <<senderVars, code>>
    BY <1>4 DEF DeviceCloses, senderVars, IInv, WireInv
  <1> QED
    BY <1>1, <1>2, <1>3, <1>4, WireSteps

LEMMA EndStep == IInv /\ [Next]_vars => EndInv'
  <1> SUFFICES ASSUME IInv, [Next]_vars PROVE EndInv'
    OBVIOUS
  <1>0. /\ fileLen \in Nat /\ pos \in Nat /\ devBytes \in Nat
        /\ wire \in Seq(InstallRequests)
        /\ \A i \in DOMAIN wire : wire[i].upto \in Nat
    BY WireTypes
  <1>a. /\ ended => ended'
        /\ ended /\ spc \in {"sent_end", "returning", "stopped"}
              => spc' \in {"sent_end", "returning", "stopped"}
    BY SenderStages DEF Next, Main, Sender, SenderRuns, SenderFrame, HandToTransport, PullNext,
         DropMessage, HalfClose, WaitReady, WaitTimeout, ReadChunk, ReadEndOfFile, ReadError,
         Channel, Clock, ChannelFrame, Device, Finished, vars, senderVars, IInv, TypeOK
  <1>b. UNCHANGED wire /\ spc = "content" /\ code' = "none" => spc' = "content"
    <2> SUFFICES ASSUME UNCHANGED wire, spc = "content", code' = "none"
                 PROVE  spc' = "content"
      OBVIOUS
    <2>1. ~HandToTransport
      BY MessageHanded DEF HandToTransport
    <2> QED
      BY <2>1, SenderStages DEF Next, Main, Sender, SenderRuns, SenderFrame, PullNext,
         DropMessage, HalfClose, WaitReady, WaitTimeout, ReadChunk, ReadEndOfFile, ReadError,
         Channel, Clock, ChannelFrame, Device, Finished, vars, senderVars
  <1>1. CASE UNCHANGED wire
    <2>1. CASE ReadChunk
      <3>1. ~ended /\ spc' = "content"
        BY <2>1 DEF ReadChunk, IInv, SenderInv
      <3>2. ~devComplete' /\ \A i \in DOMAIN wire' : ~EndAt(i)'
        BY <1>1, <3>1, QuietSteps DEF IInv, EndInv, EndAt
      <3> QED
        BY <3>1, <3>2 DEF EndInv
    <2>2. CASE pos' = pos
      <3>1. Reaches' <=> Reaches
        BY <1>1, <2>2, QuietSteps DEF Reaches, ContentAt
      <3>2. spc = "content" /\ code' = "none" => spc' = "content"
        BY <1>1, <1>b
      <3> QED
        BY <1>0, <1>1, <1>a, <2>2, <3>1, <3>2, QuietSteps DEF IInv, EndInv, EndAt
    <2> QED
      BY <1>1, <2>1, <2>2, QuietSteps
  <1>2. CASE HandToTransport /\ UNCHANGED <<deviceVars, fileLen, code>>
    <2>1. /\ pos' = pos /\ devBytes' = devBytes /\ ended' = ended /\ devPhase' = devPhase
          /\ code = "none" /\ devComplete' = devComplete
          /\ spc = "end" => spc' = "sent_end"
      BY <1>2, SenderStages DEF HandToTransport, deviceVars
    <2>2. ~devComplete /\ \A i \in DOMAIN wire : ~EndAt(i)
      BY <1>2, MessageHanded DEF IInv, EndInv
    <2>3. Len(wire) + 1 \in DOMAIN wire'
      BY <1>2, MessageHanded
    <2>4. devPhase # "closed" => Reaches'
      <3>1. CASE spc = "content"
        <4>1. wire'[Len(wire) + 1].kind = "transfer_content" /\ wire'[Len(wire) + 1].upto = pos
          BY <1>2, <3>1, MessageHanded DEF ContentUpTo
        <4> QED
          BY <2>1, <2>3, <4>1 DEF Reaches, ContentAt
      <3>2. CASE spc # "content" /\ devPhase # "closed"
        <4>1. Reaches
          BY <2>1, <3>2 DEF IInv, EndInv
        <4> QED
          BY <1>2, <2>1, <4>1, MessageHanded DEF Reaches, ContentAt
      <3> QED
        BY <3>1, <3>2
    <2>5. \A i \in DOMAIN wire' : EndAt(i)' => spc = "end"
      <3> SUFFICES ASSUME NEW i \in DOMAIN wire', EndAt(i)' PROVE spc = "end"
        OBVIOUS
      <3>1. i = Len(wire) + 1
        BY <1>2, <2>2, MessageHanded DEF EndAt
      <3>2. wire'[i].kind = "transfer_end"
        BY DEF EndAt
      <3> QED
        BY <1>2, <3>1, <3>2, MessageHanded DEF ContentUpTo
    <2>6. spc = "end" => ended
      BY DEF IInv, SenderInv
    <2> QED
      BY <2>1, <2>2, <2>4, <2>5, <2>6 DEF EndInv
  <1>3. CASE DeviceReceive /\ UNCHANGED <<senderVars, code>>
    <2>1. pos' = pos /\ ended' = ended /\ spc' = spc /\ fileLen' = fileLen /\ code' = code
      BY <1>3 DEF senderVars
    <2>2. 1 \in DOMAIN wire /\ devPhase # "closed"
      BY <1>3, MessageReceived
    <2>3. Reaches => Reaches'
      <3>1. CASE devBytes = pos
        <4>1. devBytes' = pos
          BY <1>0, <1>3, <2>2, <3>1, MessageReceived DEF IInv, WireInv
        <4> QED
          BY <2>1, <4>1 DEF Reaches
      <3>2. ASSUME NEW i \in DOMAIN wire, ContentAt(i), wire[i].upto = pos
            PROVE  Reaches'
        <4>1. CASE i = 1
          BY <1>3, <2>1, <3>2, <4>1, MessageReceived DEF Reaches
        <4>2. CASE i # 1
          <5>1. i - 1 \in DOMAIN wire' /\ wire'[i - 1] = wire[i]
            BY <1>3, <3>2, <4>2, MessageReceived
          <5> QED
            BY <2>1, <3>2, <5>1 DEF Reaches, ContentAt
        <4> QED
          BY <4>1, <4>2
      <3> QED
        BY <3>1, <3>2 DEF Reaches
    <2>4. \A i \in DOMAIN wire' : EndAt(i)' => EndAt(i + 1) /\ i + 1 \in DOMAIN wire
      BY <1>3, MessageReceived DEF EndAt
    <2>5. ~devComplete
      BY <1>3 DEF DeviceReceive, IInv, EndInv
    <2>6. CASE EndAt(1)
      <3>1. Len(wire) = 1
        BY <2>2, <2>6 DEF IInv, WireInv
      <3>2. wire' = <<>>
        BY <1>3, <3>1, MessageReceived, EmptySeq
      <3>3. ~ContentAt(1)
        BY <2>6 DEF ContentAt, EndAt
      <3>4. devBytes = pos
        BY <1>3, <2>2, <2>6, <3>1, <3>3, MessageReceived DEF IInv, EndInv, Reaches
      <3>5. devBytes' = fileLen
        BY <1>3, <2>2, <2>6, <3>3, <3>4, MessageReceived DEF IInv, EndInv, AccountingInv
      <3>6. Reaches' /\ DOMAIN wire' = {}
        BY <2>1, <2>3, <3>2, <3>4 DEF Reaches
      <3> QED
        BY <2>1, <2>2, <2>6, <3>2, <3>5, <3>6 DEF IInv, EndInv
    <2>7. CASE ~EndAt(1)
      <3>1. ~devComplete'
        BY <1>3, <2>5, <2>7, MessageReceived
      <3> QED
        BY <2>1, <2>2, <2>3, <2>4, <3>1 DEF IInv, EndInv
    <2> QED
      BY <2>6, <2>7
  <1>4. CASE DeviceCloses /\ UNCHANGED <<senderVars, code>>
    BY <1>4 DEF DeviceCloses, senderVars, IInv, EndInv
  <1> QED
    BY <1>1, <1>2, <1>3, <1>4, WireSteps

\* What the device has only grows, and its verdict is not taken back.
LEMMA DeviceProgresses ==
    ASSUME IInv, [Next]_vars
    PROVE  /\ devBytes \in Nat /\ devBytes' \in Nat /\ devBytes <= devBytes'
           /\ devComplete => devComplete' /\ devBytes' = devBytes
           /\ devPhase \in {"verdict", "closed"} =>
                devPhase' \in {"verdict", "closed"} /\ devReadySent' = devReadySent
  <1>1. devBytes \in Nat /\ devBytes' \in Nat /\ devBytes <= devBytes'
    <2>0. devBytes \in Nat
      BY WireTypes
    <2>1. CASE DeviceReceive
      <3>1. 1 \in DOMAIN wire
        BY <2>1, MessageReceived
      <3> QED
        BY <2>0, <2>1, <3>1, MessageReceived DEF IInv, WireInv
    <2>2. CASE devBytes' = devBytes
      BY <2>0, <2>2
    <2> QED
      BY <2>1, <2>2, WireSteps, QuietSteps DEF DeviceCloses, deviceVars
  <1>2. devComplete => devComplete' /\ devBytes' = devBytes
    <2>1. CASE DeviceReceive
      BY <2>1 DEF DeviceReceive, IInv, EndInv
    <2> QED
      BY <2>1, WireSteps, QuietSteps DEF DeviceCloses, deviceVars
  <1>3. devPhase \in {"verdict", "closed"} =>
          devPhase' \in {"verdict", "closed"} /\ devReadySent' = devReadySent
    BY DEF Next, Main, Sender, SenderRuns, SenderFrame, Channel, Clock, ChannelFrame,
           Device, DeviceReceive, DeviceReady, DeviceProgress, DeviceValidated, DeviceError,
           DeviceCloses, Finished, vars, deviceVars
  <1> QED
    BY <1>1, <1>2, <1>3

\* How the main thread's locals follow the responses.
LEMMA MainLocals ==
    ASSUME IInv, [Next]_vars
    PROVE  /\ validated' = validated \/ TakeResponse("validated")
           /\ \/ lastProgress' = lastProgress
              \/ TakeResponse("transfer_progress") /\ lastProgress' = Head(resp).bytes
  BY DEF Next, Main, OnTransferReady, OnTransferProgress, OnSyncProgress,
         OnValidated, OnInstallError, OnRpcError, OnStreamEnd, CheckSendError,
         ReportCleanClose, Disconnect, mainVars, Sender, SenderRuns, SenderFrame,
         Channel, Clock, ChannelFrame, Device, Finished, vars

\* How the queue from the device changes, if it does.
LEMMA RespSteps ==
    ASSUME IInv, [Next]_vars
    PROVE  \/ UNCHANGED resp \/ DOMAIN resp' = {}
           \/ \E k : TakeResponse(k)
           \/ Device
  BY DEF Next, Main, OnTransferReady, OnTransferProgress, OnSyncProgress,
         OnValidated, OnInstallError, OnRpcError, OnStreamEnd, CheckSendError,
         ReportCleanClose, Disconnect, Sender, SenderRuns, SenderFrame,
         Channel, Clock, TimePasses, Deadline, ConnectionLost, EndLocally, StatusArrives,
         Finished, vars

LEMMA VerdictStep == IInv /\ [Next]_vars => VerdictInv'
  <1> SUFFICES ASSUME IInv, [Next]_vars PROVE VerdictInv'
    OBVIOUS
  <1> DEFINE Verdict(r) == r.kind = "validated"
             Progress(r) == r.kind = "transfer_progress"
             Settled == devPhase \in {"verdict", "closed"} /\ (devReadySent => devComplete)
  <1>1. Settled => Settled'
    BY DeviceProgresses
  <1>2. (\E i \in DOMAIN resp : Verdict(resp[i])) => Settled
    BY DEF IInv, VerdictInv
  <1>3. \A i \in DOMAIN resp : resp[i].bytes \in Nat
    <2>1. resp \in Seq(InstallResponses)
      BY DEF IInv, TypeOK
    <2>2. \A i \in DOMAIN resp : resp[i] \in InstallResponses
      BY <2>1
    <2>3. \A m \in InstallResponses : m.bytes \in Nat
      BY DEF InstallResponses
    <2> QED
      BY <2>2, <2>3
  <1>4. \A i \in DOMAIN resp' :
          /\ Verdict(resp'[i]) => Settled'
          /\ Progress(resp'[i]) => resp'[i].bytes <= devBytes'
    <2>1. \A i \in DOMAIN resp : Progress(resp[i]) => resp[i].bytes <= devBytes'
      BY <1>3, DeviceProgresses DEF IInv, VerdictInv
    <2>2. CASE UNCHANGED resp
      BY <1>1, <1>2, <2>1, <2>2
    <2>3. CASE DOMAIN resp' = {}
      BY <2>3
    <2>4. CASE \E k : TakeResponse(k)
      BY <1>1, <1>2, <2>1, <2>4, ResponseTaken
    <2>5. ASSUME Device, NEW r \in InstallResponses, DeviceSends(r),
                 \/ DeviceReady /\ r.kind = "transfer_ready"
                 \/ DeviceProgress /\ r.kind = "sync_progress"
                 \/ DeviceProgress /\ r.kind = "transfer_progress" /\ r.bytes = devBytes
                 \/ DeviceValidated /\ r.kind = "validated"
                 \/ DeviceError /\ r.kind \in {"install_run_package", "install_error"}
          PROVE  \A i \in DOMAIN resp' :
                   /\ Verdict(resp'[i]) => Settled'
                   /\ Progress(resp'[i]) => resp'[i].bytes <= devBytes'
      <3>1. Verdict(r) => Settled'
        <4>1. CASE DeviceValidated
          <5>1. devReadySent => devComplete
            BY <4>1 DEF DeviceValidated, IInv, ReadyInv
          <5> QED
            BY <2>5, <4>1, <5>1 DEF DeviceValidated, DeviceSends
        <4> QED
          BY <2>5, <4>1
      <3>2. Progress(r) => r.bytes <= devBytes'
        BY <2>5, DeviceProgresses
      <3> QED
        BY <1>1, <1>2, <2>1, <2>5, <3>1, <3>2, ResponseSent
    <2> QED
      BY <2>2, <2>3, <2>4, <2>5, RespSteps, DeviceSteps
  <1>5. validated' # "none" => Settled'
    <2>1. CASE TakeResponse("validated")
      BY <1>1, <1>2, <2>1, ResponseTaken
    <2>2. CASE validated' = validated
      BY <1>1, <2>2 DEF IInv, VerdictInv
    <2> QED
      BY <2>1, <2>2, MainLocals
  <1>6. lastProgress' <= devBytes'
    <2>0. lastProgress \in Nat
      BY DEF IInv, TypeOK
    <2>1. CASE TakeResponse("transfer_progress") /\ lastProgress' = Head(resp).bytes
      <3>1. lastProgress' = resp[1].bytes /\ resp[1].bytes <= devBytes /\ resp[1].bytes \in Nat
        BY <1>3, <2>1, ResponseTaken DEF IInv, VerdictInv
      <3> QED
        BY <3>1, DeviceProgresses
    <2>2. CASE lastProgress' = lastProgress
      BY <2>0, <2>2, DeviceProgresses DEF IInv, VerdictInv
    <2> QED
      BY <2>1, <2>2, MainLocals
  <1> QED
    BY <1>4, <1>5, <1>6 DEF VerdictInv

\* The end of the RPC is final, and nothing is handed over after it.
LEMMA ClosedStays ==
    ASSUME IInv, [Next]_vars, code # "none"
    PROVE  /\ code' = code /\ halfClosed' = halfClosed
           /\ ~HandToTransport
  BY SenderStages DEF Next, Main, OnTransferReady, OnTransferProgress, OnSyncProgress,
         OnValidated, OnInstallError, OnRpcError, OnStreamEnd, CheckSendError,
         ReportCleanClose, Disconnect, TakeResponse, Sender, SenderRuns, SenderFrame,
         HandToTransport, PullNext, DropMessage, HalfClose, WaitReady, WaitTimeout,
         ReadChunk, ReadEndOfFile, ReadError, Channel, Clock, ChannelFrame, TimePasses,
         Deadline, ConnectionLost, EndLocally, StatusArrives, Device, Finished,
         vars, senderVars

LEMMA MainKeepsReports == IInv /\ Main => ReportInv'
  <1> SUFFICES ASSUME IInv, Main PROVE ReportInv'
    OBVIOUS
  <1>0. UNCHANGED <<senderVars, deviceVars, wire>>
    BY DEF Main
  <1>1. lastProgress <= bytesSent /\ lastProgress \in Nat /\ bytesSent \in Nat /\ devBytes \in Nat
        /\ devBytes <= bytesSent
    BY DEF IInv, TypeOK, VerdictInv, WireInv, AccountingInv
  <1> USE DEF senderVars, deviceVars, ReportInv, Succeeded, mainVars
  <1>2. ASSUME NEW k, TakeResponse(k), UNCHANGED <<mpc, outcome, reported>>
        PROVE  ReportInv'
    BY <1>0, <1>2 DEF TakeResponse, IInv
  <1>3. CASE OnInstallError
    BY <1>0, <1>3 DEF OnInstallError, Leave
  <1>4. CASE OnRpcError
    BY <1>0, <1>1, <1>4 DEF OnRpcError, Leave, TransferComplete
  <1>5. CASE OnStreamEnd
    BY <1>0, <1>5 DEF OnStreamEnd, IInv
  <1>6. CASE CheckSendError
    <2>1. sendError = "none" /\ halfClosed => ended
      BY DEF IInv, SenderInv
    <2>2. outcome = "none" /\ code = "OK"
      BY <1>6 DEF CheckSendError, IInv
    <2> QED
      BY <1>0, <1>6, <2>1, <2>2 DEF CheckSendError, Leave
  <1>7. CASE ReportCleanClose
    <2>1. code = "OK" /\ (halfClosed => ended)
      BY <1>7 DEF ReportCleanClose, IInv
    <2>2. bytesSent = 0 => devBytes = 0 /\ \A i \in DOMAIN wire : ~ContentAt(i)
      BY <1>1, WireTypes DEF IInv, WireInv, AccountingInv
    <2>3. validated # "none" /\ devReadySent => devComplete /\ bytesSent = fileLen
      BY DEF IInv, VerdictInv, EndInv, AccountingInv
    <2>4. /\ CleanReport(bytesSent) = "already_present" => bytesSent = 0
          /\ CleanReport(bytesSent) = "validated" => validated # "none"
          /\ CleanReport(bytesSent) \in {"transferred", "already_present", "validated"}
      BY DEF CleanReport
    <2> QED
      BY <1>0, <1>1, <1>7, <2>1, <2>2, <2>3, <2>4 DEF ReportCleanClose, Leave, ContentAt
  <1>8. CASE Disconnect
    BY <1>0, <1>8 DEF Disconnect, IInv, ContentAt
  <1> QED
    BY <1>2, <1>3, <1>4, <1>5, <1>6, <1>7, <1>8
    DEF Main, OnTransferReady, OnTransferProgress, OnSyncProgress, OnValidated

LEMMA OthersKeepReports == IInv /\ [Next]_vars /\ UNCHANGED mainVars => ReportInv'
  <1> SUFFICES ASSUME IInv, [Next]_vars, UNCHANGED mainVars PROVE ReportInv'
    OBVIOUS
  <1> USE DEF mainVars
  <1>1. ended => ended' /\ bytesSent' = bytesSent
    BY DEF Next, Main, Sender, SenderRuns, SenderFrame, HandToTransport, PullNext,
         DropMessage, HalfClose, WaitReady, WaitTimeout, ReadChunk, ReadEndOfFile, ReadError,
         Channel, Clock, ChannelFrame, Device, Finished, vars, senderVars, IInv, SenderInv
  <1>2. fileLen' = fileLen
    BY DEF Next, Main, Sender, SenderRuns, SenderFrame, Channel, Clock, ChannelFrame, Device,
           Finished, vars, senderVars
  <1>3. outcome = "already_present" => devBytes' = 0 /\ \A i \in DOMAIN wire' : ~ContentAt(i)'
    <2> SUFFICES ASSUME outcome = "already_present"
                 PROVE  devBytes' = 0 /\ \A i \in DOMAIN wire' : ~ContentAt(i)'
      OBVIOUS
    <2>1. code # "none" /\ devBytes = 0 /\ \A i \in DOMAIN wire : ~ContentAt(i)
      BY DEF IInv, ReportInv, Succeeded
    <2>2. CASE UNCHANGED wire
      BY <2>1, <2>2, QuietSteps DEF ContentAt
    <2>3. CASE DeviceReceive
      BY <2>1, <2>3, MessageReceived DEF ContentAt
    <2>4. CASE DeviceCloses
      BY <2>1, <2>4 DEF DeviceCloses
    <2> QED
      BY <2>1, <2>2, <2>3, <2>4, WireSteps, ClosedStays
  <1>4. outcome = "validated" /\ devReadySent' => devComplete' /\ reported = fileLen
    BY DeviceProgresses DEF IInv, ReportInv, VerdictInv
  <1> QED
    BY <1>1, <1>2, <1>3, <1>4, ClosedStays DEF IInv, ReportInv, Succeeded

\* The invariant holds of every reachable state.
THEOREM InductiveInvariant == Spec => []IInv
  <1>1. IInv /\ [Next]_vars => IInv'
    <2> SUFFICES ASSUME IInv, [Next]_vars PROVE IInv'
      OBVIOUS
    <2>1. TypeOK'
      BY TypeStep DEF IInv
    <2>2. ReportInv'
      <3>1. CASE Main
        BY <3>1, MainKeepsReports
      <3>2. CASE UNCHANGED mainVars
        BY <3>2, OthersKeepReports
      <3> QED
        BY <3>1, <3>2 DEF Next, Sender, SenderRuns, SenderFrame, Channel, Clock, ChannelFrame,
                          Device, Finished, vars
    <2> QED
      BY <2>1, <2>2, AccountingStep, SenderStep, ReadyStep, WireStep, EndStep, VerdictStep
      DEF IInv
  <1> QED
    BY <1>1, InvInit, PTL DEF Spec

-----------------------------------------------------------------------------
(***************************************************************************)
(* The safety properties of OsInstall.                                     *)
(***************************************************************************)
\* No content reaches a device that is not ready while the handler is at work
\* (os.py:140-153, 252-254).
THEOREM ContentWaitsForReady == Spec => []ContentOnlyOnceReadyOrOver
  <1>1. IInv => ContentOnlyOnceReadyOrOver
    BY DEF IInv, TypeOK, AccountingInv, ReadyInv, WireInv, ContentOnlyOnceReadyOrOver
  <1> QED
    BY <1>1, InductiveInvariant, PTL

\* TransferEnd is behind the whole file (os.py:144-160).
THEOREM EndCarriesWholeFile == Spec => []EndOnlyAfterWholeFile
  <1>1. IInv => EndOnlyAfterWholeFile
    BY DEF IInv, EndInv, EndOnlyAfterWholeFile
  <1> QED
    BY <1>1, InductiveInvariant, PTL

\* "already present" means that nothing was sent (os.py:264-288).
THEOREM AlreadyPresentIsUntouched == Spec => []AlreadyPresentTransferredNothing
  <1>1. IInv => AlreadyPresentTransferredNothing
    BY DEF IInv, ReportInv, ContentAt, AlreadyPresentTransferredNothing
  <1> QED
    BY <1>1, InductiveInvariant, PTL

\* The recovery of a missing Validated counts exactly the announced bytes
\* (os.py:211-250).
THEOREM RecoveryCountsTheFile == Spec => []UnvalidatedSuccessHasAnnouncedSize
  <1>1. IInv => UnvalidatedSuccessHasAnnouncedSize
    BY DEF IInv, ReportInv, AccountingInv, UnvalidatedSuccessHasAnnouncedSize
  <1> QED
    BY <1>1, InductiveInvariant, PTL

\* A transfer the sender gave up is not reported as done (os.py:141-155,
\* 256-258).
THEOREM GivenUpIsNotReported == Spec => []GivenUpTransferNotReported
  <1>1. IInv => GivenUpTransferNotReported
    BY DEF IInv, TypeOK, Outcomes, ReportInv, Succeeded, GivenUpTransferNotReported
  <1> QED
    BY <1>1, InductiveInvariant, PTL

\* bytes_transferred of a validated transfer is what the device received
\* (os.py:262, 303).
THEOREM ValidatedCountIsExact == Spec => []ValidatedReportsDeliveredBytes
  <1>1. IInv => ValidatedReportsDeliveredBytes
    BY DEF IInv, EndInv, ReportInv, ValidatedReportsDeliveredBytes
  <1> QED
    BY <1>1, InductiveInvariant, PTL

\* bytes_acknowledged stays within bytes_transferred (os.py:175-176, 303-304).
THEOREM AcknowledgedIsTransferred == Spec => []AcknowledgedWithinTransferred
  <1>1. IInv => AcknowledgedWithinTransferred
    BY DEF IInv, ReportInv, Succeeded, AcknowledgedWithinTransferred
  <1> QED
    BY <1>1, InductiveInvariant, PTL

-----------------------------------------------------------------------------
(***************************************************************************)
(* Refinement: every step of the two threads is a step of InstallContract  *)
(* or leaves its variables alone.                                          *)
(***************************************************************************)
LEMMA ContractInit == Init => Contract!Init
  BY DEF Init, Contract!Init, transferState

LEMMA MainMeetsContract == IInv /\ Main => [Contract!Next]_Contract!vars
  <1> SUFFICES ASSUME IInv, Main PROVE [Contract!Next]_Contract!vars
    OBVIOUS
  <1>1. UNCHANGED <<bytesSent, transferState>>
    BY DEF Main, senderVars, transferState
  <1>2. bytesSent \in Nat
    BY DEF IInv, TypeOK
  <1>3. ASSUME NEW o, outcome = "none", outcome' = o, Contract!Allowed(o)
        PROVE  Contract!Next
    BY <1>1, <1>3 DEF Contract!Next, Contract!Report, Contract!Allowed
  <1>4. mpc \in {"loop", "closed", "count"} => outcome = "none"
    BY DEF IInv, ReportInv
  <1>5. CASE OnInstallError
    BY <1>3, <1>4, <1>5 DEF OnInstallError, TakeResponse, Leave, Contract!Allowed
  <1>6. CASE OnRpcError
    <2>1. TransferComplete => transferState = "whole" /\ bytesSent = PackageSize
      BY DEF TransferComplete, transferState
    <2> QED
      BY <1>3, <1>4, <1>6, <2>1 DEF OnRpcError, Leave, Contract!Allowed
  <1>7. CASE CheckSendError
    <2>1. CASE outcome' = outcome
      BY <1>1, <2>1 DEF Contract!vars
    <2>2. CASE outcome' = "failed"
      BY <1>3, <1>4, <1>7, <2>2 DEF CheckSendError, Contract!Allowed
    <2> QED
      BY <1>7, <2>1, <2>2 DEF CheckSendError, Leave
  <1>8. CASE ReportCleanClose
    <2>1. \/ CleanReport(bytesSent) = "transferred"
          \/ CleanReport(bytesSent) = "already_present" /\ bytesSent = 0
          \/ CleanReport(bytesSent) = "validated" /\ bytesSent > 0
      BY <1>2 DEF CleanReport
    <2> QED
      BY <1>3, <1>4, <1>8, <2>1 DEF ReportCleanClose, Leave, Contract!Allowed
  <1>9. CASE outcome' = outcome
    BY <1>1, <1>9 DEF Contract!vars
  <1> QED
    BY <1>5, <1>6, <1>7, <1>8, <1>9
    DEF Main, OnTransferReady, OnTransferProgress, OnSyncProgress, OnValidated,
        OnStreamEnd, Disconnect, mainVars

LEMMA SenderMeetsContract == IInv /\ Sender => [Contract!Next]_Contract!vars
  <1> SUFFICES ASSUME IInv, Sender PROVE [Contract!Next]_Contract!vars
    OBVIOUS
  <1>1. outcome' = outcome
    BY DEF Sender, SenderRuns, SenderFrame, mainVars
  <1>2. spc \in {"read", "wait"} => transferState = "sending" /\ ~ended
    BY DEF IInv, SenderInv, transferState
  <1>3. CASE ReadChunk
    <2>1. bytesSent' \in Nat /\ bytesSent' > bytesSent
      <3>1. bytesSent \in Nat /\ pos \in Nat /\ fileLen \in Nat
        BY WireTypes DEF IInv, TypeOK
      <3> QED
        BY <1>3, <3>1, ReadSizeBounds DEF ReadChunk
    <2>2. transferState = "sending" /\ transferState' = transferState
      BY <1>2, <1>3 DEF ReadChunk, transferState
    <2> QED
      BY <1>1, <2>1, <2>2 DEF Contract!Next, Contract!Offer
  <1>4. CASE ReadEndOfFile \/ ReadError \/ WaitTimeout
    <2>1. transferState = "sending" /\ transferState' \in {"whole", "given_up"}
          /\ bytesSent' = bytesSent
      BY <1>2, <1>4 DEF ReadEndOfFile, ReadError, WaitTimeout, transferState
    <2> QED
      BY <1>1, <2>1 DEF Contract!Next, Contract!EndTransfer
  <1>5. CASE UNCHANGED <<bytesSent, ended, sendError>>
    BY <1>1, <1>5 DEF Contract!vars, transferState
  <1> QED
    BY <1>3, <1>4, <1>5
    DEF Sender, SenderRuns, HandToTransport, PullNext, DropMessage, HalfClose, WaitReady

\* os/install implements its contract: one report, and only one that the
\* bytes offered so far allow (os.py:201-310).
THEOREM HandlerImplementsContract == Spec => ImplementsContract
  <1>1. IInv /\ [Next]_vars => [Contract!Next]_Contract!vars
    <2>1. UNCHANGED <<mainVars, senderVars>> => UNCHANGED Contract!vars
      BY DEF Contract!vars, mainVars, senderVars, transferState
    <2> QED
      BY <2>1, MainMeetsContract, SenderMeetsContract
      DEF Next, Channel, Clock, ChannelFrame, Device, Finished, vars
  <1> QED
    BY <1>1, ContractInit, InductiveInvariant, PTL
    DEF Spec, ImplementsContract, Contract!Spec
=============================================================================
