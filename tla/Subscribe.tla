------------------------------ MODULE Subscribe ------------------------------
(***************************************************************************)
(* One task of cisco.gnmi.subscribe: plugins/modules/subscribe.py main,    *)
(* GnmiModule.execute_subscribe (module_helper.py 392-419) and             *)
(* GnmiClient.subscribe (gnmi_client.py 916-986), with the stream and the  *)
(* device.                                                                 *)
(*                                                                         *)
(* The request iterator holds one message: gRPC's sender sends it and      *)
(* half-closes, so a Poll is never sent.  The main thread collects the     *)
(* updates until the stream ends, until sync_response if the mode is       *)
(* "once", or until the duration, which is the deadline of the RPC.  A     *)
(* response is its position in the history `sent`.                         *)
(***************************************************************************)
EXTENDS Naturals, Sequences

CONSTANTS
    SubscriptionLists,   \* values of the option subscriptions
    MaxResponses         \* bound: responses the device sends

Modes    == {"stream", "once", "poll"}
SubModes == {"target_defined", "on_change", "sample"}

\* `encodable`: the sample interval fits the unsigned field of the message.
Subscriptions == [mode : SubModes, encodable : BOOLEAN]

ASSUME ConstantsAssumption ==
    /\ SubscriptionLists \subseteq Seq(Subscriptions)
    /\ MaxResponses \in Nat

VARIABLES
    task,        \* the options
    \* main thread
    phase,       \* where the task is
    warned,      \* what module.warn was called for
    updates,     \* the list the loop appends to
    outcome,     \* "succeeded" or "failed", once known
    report,      \* result['updates']
    \* sender thread
    spc,         \* where the sender is
    \* channel
    request,     \* the SubscribeRequest on its way
    resp,        \* responses on their way, as positions in sent
    status,      \* status the device closed with, behind resp
    code,        \* state.code of the RPC on the client's side
    \* device
    asked,       \* the device has the subscription list
    sent,        \* history: every response the device sent, by kind
    devOpen,     \* the device has not closed the stream
    taken        \* history: how many responses the loop took

mainVars   == <<phase, warned, updates, outcome, report, taken>>
deviceVars == <<asked, sent, devOpen, status>>
vars == <<task, mainVars, spc, request, resp, code, deviceVars>>

Platforms == {"auto", "iosxe"}

\* Whether a duration is set (0 is none), not how long it is.
Tasks == [platform : Platforms, mode : Modes, timed : BOOLEAN,
          subscriptions : SubscriptionLists]

Kinds == {"update", "garbled", "sync_response", "error"}
Codes == {"none", "OK", "CANCELLED", "DEADLINE_EXCEEDED", "UNAVAILABLE"}

\* PLATFORM_PROFILES; a platform without restrictions allows everything.
ListModes(p) == IF p = "iosxe" THEN {"stream"} ELSE Modes
ItemModes(p) == IF p = "iosxe" THEN {"on_change", "sample"} ELSE SubModes

-----------------------------------------------------------------------------
Init ==
    /\ task \in Tasks
    /\ phase = "connect" /\ warned = {} /\ updates = <<>>
    /\ outcome = "none" /\ report = <<>> /\ taken = 0
    /\ spc = "idle" /\ request = FALSE
    /\ resp = <<>> /\ status = "none" /\ code = "none"
    /\ asked = FALSE /\ sent = <<>> /\ devOpen = TRUE

-----------------------------------------------------------------------------
(***************************************************************************)
(* Before the RPC.                                                         *)
(***************************************************************************)
\* fail_json, or an exception that run turns into it.
Fail == phase' = "done" /\ outcome' = "failed" /\ UNCHANGED <<updates, report>>

\* client.connect(); an empty list is refused only behind it.
Connect ==
    /\ phase = "connect"
    /\ \/ Fail
       \/ /\ task.subscriptions # <<>>
          /\ phase' = "restrict" /\ UNCHANGED <<updates, outcome, report>>
    /\ UNCHANGED <<warned, taken, spc, resp, code>>

\* Seeded fault: the modes of the items are looked at only if the list mode
\* passed.
CheckOneRestriction ==
    /\ phase = "restrict"
    /\ IF task.mode \notin ListModes(task.platform)
         THEN IF task.mode = "poll"
                THEN Fail /\ UNCHANGED warned
                ELSE /\ warned' = {task.mode}
                     /\ phase' = "build" /\ UNCHANGED <<updates, outcome, report>>
         ELSE /\ warned' = {task.subscriptions[i].mode : i \in DOMAIN task.subscriptions}
                                \ ItemModes(task.platform)
              /\ phase' = "build" /\ UNCHANGED <<updates, outcome, report>>
    /\ UNCHANGED <<taken, spc, resp, code>>

\* Only poll is refused; what else a platform does not list is a warning.
CheckRestrictions ==
    LET foreign == {task.subscriptions[i].mode : i \in DOMAIN task.subscriptions}
                       \ ItemModes(task.platform)
        listed  == task.mode \in ListModes(task.platform)
    IN
    /\ phase = "restrict"
    /\ IF ~listed /\ task.mode = "poll"
         THEN Fail /\ UNCHANGED warned
         ELSE /\ warned' = foreign \cup (IF listed THEN {} ELSE {task.mode})
              /\ phase' = "build" /\ UNCHANGED <<updates, outcome, report>>
    /\ UNCHANGED <<taken, spc, resp, code>>

\* A message that cannot be built is an exception, else stub.Subscribe starts.
CallSubscribe ==
    /\ phase = "build"
    /\ IF \E i \in DOMAIN task.subscriptions : ~task.subscriptions[i].encodable
         THEN Fail /\ UNCHANGED spc
         ELSE /\ phase' = "loop" /\ spc' = "request"
              /\ UNCHANGED <<updates, outcome, report>>
    /\ UNCHANGED <<warned, taken, resp, code>>

-----------------------------------------------------------------------------
(***************************************************************************)
(* `for response in responses`.                                            *)
(***************************************************************************)
Take(kind) ==
    /\ phase = "loop" /\ resp # <<>> /\ sent[Head(resp)] = kind
    /\ resp' = Tail(resp) /\ taken' = taken + 1
    /\ UNCHANGED <<warned, spc, code>>

OnUpdate ==
    /\ Take("update")
    /\ updates' = Append(updates, Head(resp))
    /\ UNCHANGED <<phase, outcome, report>>

\* _parse_notification raises: the except drops what was collected.
OnGarbled == Take("garbled") /\ Fail

Succeed(list) == phase' = "done" /\ outcome' = "succeeded" /\ report' = list /\ UNCHANGED updates

\* Seeded fault: sync_response ends the loop in every mode.
SyncEndsEveryMode ==
    /\ Take("sync_response")
    /\ Succeed(updates)

\* sync_response is the break of "once" and nothing to the other modes.
OnSyncResponse ==
    /\ Take("sync_response")
    /\ IF task.mode = "once" THEN Succeed(updates)
                             ELSE UNCHANGED <<phase, updates, outcome, report>>

\* The deprecated error field is looked at by no branch.
OnError == Take("error") /\ UNCHANGED <<phase, updates, outcome, report>>

Ended == phase = "loop" /\ resp = <<>> /\ code # "none" /\ UNCHANGED <<warned, taken, spc, resp, code>>

\* The iterator stops.
OnStreamEnd == Ended /\ code = "OK" /\ Succeed(updates)

\* Seeded fault: the status takes the place of the verdict.
OnRpcErrorReportsCode ==
    /\ Ended /\ code # "OK"
    /\ phase' = "done" /\ outcome' = code /\ UNCHANGED <<updates, report>>

\* The iterator raises RpcError: the updates are not part of the failure.
OnRpcError == Ended /\ code # "OK" /\ Fail

\* The finally of run; closing the channel cancels an RPC that is open.
Disconnect ==
    /\ phase = "done" /\ phase' = "disconnected"
    /\ code' = IF code = "none" THEN "CANCELLED" ELSE code
    /\ UNCHANGED <<warned, updates, outcome, report, taken, spc, resp>>

Main ==
    /\ \/ Connect \/ CheckRestrictions \/ CallSubscribe
       \/ OnUpdate \/ OnGarbled \/ OnSyncResponse \/ OnError
       \/ OnStreamEnd \/ OnRpcError \/ Disconnect
    /\ UNCHANGED <<task, request, deviceVars>>

-----------------------------------------------------------------------------
(***************************************************************************)
(* gRPC's sender around iter([request]), and the channel.                  *)
(***************************************************************************)
SendRequest ==
    /\ spc = "request"
    /\ request' = (code = "none")
    /\ spc' = "stopped"
    /\ UNCHANGED <<resp, code>>

EndLocally(c) ==
    /\ phase = "loop" /\ code = "none"
    /\ code' = c /\ resp' = <<>>
    /\ UNCHANGED <<spc, request>>

\* Seeded fault: only a stream gets a deadline, as the docstring may be read.
DeadlineOfStreams ==
    task.timed /\ task.mode = "stream" /\ EndLocally("DEADLINE_EXCEEDED")

\* timeout = duration if duration else None.
Deadline == task.timed /\ EndLocally("DEADLINE_EXCEEDED")

ConnectionLost == EndLocally("UNAVAILABLE")

StatusArrives ==
    /\ phase = "loop" /\ code = "none" /\ status # "none" /\ resp = <<>>
    /\ code' = status
    /\ UNCHANGED <<resp, spc, request>>

Transport ==
    /\ SendRequest \/ Deadline \/ ConnectionLost \/ StatusArrives
    /\ UNCHANGED <<task, mainVars, deviceVars>>

-----------------------------------------------------------------------------
(***************************************************************************)
(* Device, as gnmi.proto describes it: values of a POLL subscription are   *)
(* sent in response to a Poll, of which there is none.                     *)
(***************************************************************************)
DeviceReceive ==
    /\ request /\ devOpen
    /\ request' = FALSE /\ asked' = TRUE
    /\ UNCHANGED <<resp, sent, devOpen, status>>

Synced == \E i \in DOMAIN sent : sent[i] = "sync_response"

\* One sync_response, which is the last word of a device asked for ONCE.
MaySend(kind) ==
    /\ task.mode # "poll" \/ kind = "error"
    /\ kind = "sync_response" => ~Synced
    /\ task.mode = "once" => ~Synced

DeviceSends(kind) ==
    /\ asked /\ devOpen /\ code = "none" /\ Len(sent) < MaxResponses
    /\ MaySend(kind)
    /\ sent' = Append(sent, kind)
    /\ resp' = Append(resp, Len(sent) + 1)
    /\ UNCHANGED <<request, asked, devOpen, status>>

\* Any end at any time; once the RPC is over the status reaches nobody.
DeviceCloses ==
    /\ devOpen /\ spc # "idle"
    /\ devOpen' = FALSE
    /\ status' \in Codes \ {"none", "DEADLINE_EXCEEDED"}
    /\ UNCHANGED <<request, asked, sent, resp>>

Device ==
    /\ DeviceReceive \/ (\E kind \in Kinds : DeviceSends(kind)) \/ DeviceCloses
    /\ UNCHANGED <<task, mainVars, spc, code>>

-----------------------------------------------------------------------------
\* The device may stop at any point; the task has nothing left to do.
Finished == phase = "disconnected" /\ UNCHANGED vars

Next == Main \/ Transport \/ Device \/ Finished

Spec == Init /\ [][Next]_vars

\* The main thread is scheduled and the deadline of the RPC comes; nothing is
\* assumed of the device or of the network.
FairSpec ==
    /\ Spec /\ WF_vars(Main)
    /\ WF_vars(Deadline /\ UNCHANGED <<task, mainVars, deviceVars>>)

-----------------------------------------------------------------------------
TypeOK ==
    /\ task \in Tasks
    /\ phase \in {"connect", "restrict", "build", "loop", "done", "disconnected"}
    /\ warned \subseteq Modes \cup SubModes
    /\ updates \in Seq(Nat)
    /\ outcome \in {"none", "succeeded", "failed"}
    /\ report \in Seq(Nat)
    /\ spc \in {"idle", "request", "stopped"}
    /\ request \in BOOLEAN
    /\ resp \in Seq(Nat)
    /\ status \in Codes
    /\ code \in Codes
    /\ asked \in BOOLEAN
    /\ sent \in Seq(Kinds)
    /\ devOpen \in BOOLEAN
    /\ taken \in Nat

\* list holds the updates among the first n responses, each once and in
\* their order, and none of the n was one the client could not read.
IsUpTo(list, n) ==
    /\ \A i, j \in DOMAIN list : i < j => list[i] < list[j]
    /\ {list[i] : i \in DOMAIN list} = {k \in 1..n : sent[k] = "update"}
    /\ \A k \in 1..n : sent[k] # "garbled"

\* A success reports everything the device sent, up to the sync_response of a
\* "once" subscription or up to the OK it closed the stream with
\* (gnmi_client.py:967-980): nothing is lost, reordered, invented or hidden.
SuccessReportsTheStream ==
    outcome = "succeeded" =>
        /\ IsUpTo(report, taken)
        /\ \/ /\ task.mode = "once" /\ taken \in DOMAIN sent
              /\ sent[taken] = "sync_response"
           \/ status = "OK" /\ taken = Len(sent)

\* What goes out has passed the restrictions of the platform: no poll, and a
\* warning for every other mode the profile does not list
\* (gnmi_client.py:357-389).
SentIsAllowedOrWarned ==
    asked =>
        /\ {task.mode} \ ListModes(task.platform) \subseteq warned \ {"poll"}
        /\ \A i \in DOMAIN task.subscriptions :
               task.subscriptions[i].mode \in ItemModes(task.platform) \cup warned

\* A subscription with a duration reports and closes its channel, whatever its
\* mode and whatever the device does (gnmi_client.py:959-965); without one
\* only the device or the network ends it.
TimedTaskReturns == task.timed ~> phase = "disconnected" /\ code # "none" /\ outcome # "none"

\* "How long (seconds) to keep a C(stream) subscription open before returning"
\* (subscribe.py:68-69), with the updates "returned: success" (subscribe.py:185).
DurationIsNoFailure ==
    task.mode = "stream" /\ code = "DEADLINE_EXCEEDED" /\ updates # <<>> =>
        outcome # "failed"
=============================================================================
