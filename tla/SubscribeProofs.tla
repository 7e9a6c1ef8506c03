--------------------------- MODULE SubscribeProofs ---------------------------
(***************************************************************************)
(* Proofs about Subscribe, for every set of subscription lists and every   *)
(* number of responses: the type invariant, the inductive invariant of     *)
(* SubscribeInv and the safety properties of the run subscribe.            *)
(***************************************************************************)
EXTENDS SubscribeInv, SequenceTheorems, TLAPS

LEMMA TypeInit == Init => TypeOK
  <1> SUFFICES ASSUME Init PROVE TypeOK
    OBVIOUS
  <1>1. updates \in Seq(Nat) /\ report \in Seq(Nat) /\ resp \in Seq(Nat) /\ sent \in Seq(Kinds)
    BY EmptySeq DEF Init
  <1> QED
    BY <1>1 DEF Init, TypeOK, Codes

\* What the receiver of a queue gets and leaves.
LEMMA TailFacts ==
    ASSUME NEW S, NEW q \in Seq(S), q # <<>>
    PROVE  /\ Head(q) \in S /\ Head(q) = q[1] /\ Len(q) >= 1
           /\ Tail(q) \in Seq(S) /\ Len(Tail(q)) = Len(q) - 1
           /\ \A i \in 1..Len(Tail(q)) : Tail(q)[i] = q[i + 1]
  OBVIOUS

LEMMA AppendFacts ==
    ASSUME NEW S, NEW q \in Seq(S), NEW e \in S
    PROVE  /\ Append(q, e) \in Seq(S) /\ Len(Append(q, e)) = Len(q) + 1
           /\ \A i \in 1..Len(q) : Append(q, e)[i] = q[i]
           /\ Append(q, e)[Len(q) + 1] = e
  OBVIOUS

LEMMA TypeMain == TypeOK /\ Main => TypeOK'
  <1> SUFFICES ASSUME TypeOK, Main PROVE TypeOK'
    OBVIOUS
  <1> USE DEF TypeOK, Main, Codes, deviceVars, Fail, Succeed
  <1>1. CASE Connect
    BY <1>1 DEF Connect
  <1>2. CASE CheckRestrictions
    <2>1. {task.subscriptions[i].mode : i \in DOMAIN task.subscriptions} \subseteq SubModes
      <3>1. task.subscriptions \in Seq(Subscriptions)
        BY ConstantsAssumption DEF Tasks
      <3>2. \A i \in DOMAIN task.subscriptions : task.subscriptions[i] \in Subscriptions
        BY <3>1
      <3> QED
        BY <3>2 DEF Subscriptions
    <2>2. warned' \subseteq Modes \cup SubModes
      BY <1>2, <2>1 DEF CheckRestrictions, Tasks
    <2> QED
      BY <1>2, <2>2 DEF CheckRestrictions
  <1>3. CASE CallSubscribe
    BY <1>3 DEF CallSubscribe
  <1>4. CASE OnUpdate
    <2>1. resp' \in Seq(Nat) /\ updates' \in Seq(Nat)
      BY <1>4, TailFacts, AppendFacts DEF OnUpdate, Take
    <2> QED
      BY <1>4, <2>1 DEF OnUpdate, Take
  <1>5. CASE OnGarbled \/ OnSyncResponse \/ OnError
    <2>0. PICK kind : Take(kind)
      BY <1>5 DEF OnGarbled, OnSyncResponse, OnError
    <2>1. resp' \in Seq(Nat) /\ taken' \in Nat
      BY <2>0, TailFacts DEF Take
    <2> QED
      BY <1>5, <2>1 DEF OnGarbled, OnSyncResponse, OnError, Take
  <1>6. CASE OnStreamEnd
    BY <1>6 DEF OnStreamEnd, Ended
  <1>7. CASE OnRpcError
    BY <1>7 DEF OnRpcError, Ended
  <1>8. CASE Disconnect
    BY <1>8 DEF Disconnect
  <1> QED
    BY <1>1, <1>2, <1>3, <1>4, <1>5, <1>6, <1>7, <1>8

LEMMA TypeTransport == TypeOK /\ Transport => TypeOK'
  <1> SUFFICES ASSUME TypeOK, Transport PROVE TypeOK'
    OBVIOUS
  <1> USE DEF TypeOK, Transport, Codes, mainVars, deviceVars
  <1>1. CASE SendRequest
    BY <1>1 DEF SendRequest
  <1>2. CASE Deadline \/ ConnectionLost
    <2>1. resp' \in Seq(Nat)
      BY <1>2, EmptySeq DEF Deadline, ConnectionLost, EndLocally
    <2> QED
      BY <1>2, <2>1 DEF Deadline, ConnectionLost, EndLocally
  <1>3. CASE StatusArrives
    BY <1>3 DEF StatusArrives
  <1> QED
    BY <1>1, <1>2, <1>3

LEMMA TypeDevice == TypeOK /\ Device => TypeOK'
  <1> SUFFICES ASSUME TypeOK, Device PROVE TypeOK'
    OBVIOUS
  <1> USE DEF TypeOK, Device, mainVars
  <1>1. CASE DeviceReceive
    BY <1>1 DEF DeviceReceive
  <1>2. ASSUME NEW kind \in Kinds, DeviceSends(kind) PROVE TypeOK'
    <2>1. sent' \in Seq(Kinds) /\ resp' \in Seq(Nat)
      BY <1>2, AppendFacts DEF DeviceSends
    <2> QED
      BY <1>2, <2>1 DEF DeviceSends
  <1>3. CASE DeviceCloses
    BY <1>3 DEF DeviceCloses
  <1> QED
    BY <1>1, <1>2, <1>3

LEMMA TypeStep == TypeOK /\ [Next]_vars => TypeOK'
  <1>1. TypeOK /\ UNCHANGED vars => TypeOK'
    BY DEF TypeOK, vars, mainVars, deviceVars
  <1> QED
    BY <1>1, TypeMain, TypeTransport, TypeDevice DEF Next, Finished

\* Every variable stays in its type.
THEOREM TypeCorrect == Spec => []TypeOK
  BY TypeInit, TypeStep, PTL DEF Spec
-----------------------------------------------------------------------------
(***************************************************************************)
(* The inductive invariant.                                                *)
(***************************************************************************)
LEMMA InvInit == Init => IInv
  <1> SUFFICES ASSUME Init PROVE IInv
    OBVIOUS
  <1>1. QueueInv
    BY DEF Init, QueueInv
  <1>2. CollectInv
    BY DEF Init, CollectInv, IsUpTo
  <1> QED
    BY <1>1, <1>2, TypeInit DEF Init, IInv, StatusInv, CodeInv, VerdictInv, RestrictInv

\* Taking a response that is no update leaves the list as it should be.
LEMMA UpToSkips ==
    ASSUME NEW list, NEW n \in Nat, n + 1 \in DOMAIN sent, TypeOK,
           sent[n + 1] \notin {"update", "garbled"}, IsUpTo(list, n)
    PROVE  IsUpTo(list, n + 1)
  <1>1. \A k \in 1..(n + 1) : k \in 1..n \/ k = n + 1
    OBVIOUS
  <1>2. {k \in 1..(n + 1) : sent[k] = "update"} = {k \in 1..n : sent[k] = "update"}
    BY <1>1
  <1> QED
    BY <1>1, <1>2 DEF IsUpTo

\* Taking an update appends it.
LEMMA UpToAppends ==
    ASSUME TypeOK, NEW n \in Nat, n + 1 \in DOMAIN sent,
           sent[n + 1] = "update", IsUpTo(updates, n)
    PROVE  IsUpTo(Append(updates, n + 1), n + 1)
  <1> DEFINE new == Append(updates, n + 1)
  <1>1. /\ new \in Seq(Nat) /\ Len(new) = Len(updates) + 1
        /\ \A i \in 1..Len(updates) : new[i] = updates[i]
        /\ new[Len(updates) + 1] = n + 1
    BY AppendFacts DEF TypeOK
  <1>2. DOMAIN new = 1..(Len(updates) + 1) /\ DOMAIN updates = 1..Len(updates) /\ Len(updates) \in Nat
    BY <1>1 DEF TypeOK
  <1> HIDE DEF new
  <1>3. \A i \in DOMAIN updates : updates[i] \in 1..n /\ sent[updates[i]] = "update"
    BY DEF IsUpTo
  <1>4. \A i, j \in DOMAIN new : i < j => new[i] < new[j]
    <2> TAKE i, j \in DOMAIN new
    <2> HAVE i < j
    <2>1. i \in DOMAIN updates /\ (j \in DOMAIN updates \/ j = Len(updates) + 1)
      BY <1>2
    <2>2. CASE j \in DOMAIN updates
      BY <2>1, <2>2, <1>1, <1>2 DEF IsUpTo
    <2>3. CASE j = Len(updates) + 1
      BY <2>1, <2>3, <1>1, <1>2, <1>3
    <2> QED
      BY <2>1, <2>2, <2>3
  <1>5. {new[i] : i \in DOMAIN new} = {k \in 1..(n + 1) : sent[k] = "update"}
    <2>1. ASSUME NEW k \in 1..(n + 1), sent[k] = "update"
          PROVE  \E i \in DOMAIN new : new[i] = k
      <3>1. CASE k = n + 1
        BY <3>1, <1>1, <1>2
      <3>2. CASE k \in 1..n
        <4>1. PICK i \in DOMAIN updates : updates[i] = k
          BY <2>1, <3>2 DEF IsUpTo
        <4> QED
          BY <4>1, <1>1, <1>2
      <3> QED
        BY <3>1, <3>2
    <2>2. ASSUME NEW i \in DOMAIN new
          PROVE  new[i] \in 1..(n + 1) /\ sent[new[i]] = "update"
      BY <1>1, <1>2, <1>3
    <2> QED
      BY <2>1, <2>2
  <1>6. \A k \in 1..(n + 1) : sent[k] # "garbled"
    <2>1. \A k \in 1..(n + 1) : k \in 1..n \/ k = n + 1
      OBVIOUS
    <2> QED
      BY <2>1 DEF IsUpTo
  <1> QED
    BY <1>4, <1>5, <1>6 DEF IsUpTo, new

\* What a response taken from the queue is, and what it leaves.
LEMMA TakeFacts ==
    ASSUME IInv, NEW kind, Take(kind)
    PROVE  /\ outcome = "none" /\ taken + 1 \in DOMAIN sent
           /\ Head(resp) = taken + 1 /\ sent[taken + 1] = kind
           /\ taken' = taken + 1
           /\ sent' = sent => QueueInv'
  <1> USE DEF IInv, Take, TypeOK
  <1>1. /\ Head(resp) = resp[1] /\ Len(resp) >= 1
        /\ Len(Tail(resp)) = Len(resp) - 1
        /\ \A i \in 1..Len(Tail(resp)) : Tail(resp)[i] = resp[i + 1]
    BY TailFacts
  <1>2. Len(resp) = Len(sent) - taken /\ \A i \in 1..Len(resp) : resp[i] = taken + i
    BY DEF QueueInv
  <1>3. Len(sent) \in Nat /\ Len(resp) \in Nat /\ DOMAIN sent = 1..Len(sent)
    OBVIOUS
  <1>4. Head(resp) = taken + 1 /\ taken + 1 \in DOMAIN sent
    BY <1>1, <1>2, <1>3
  <1>5. ASSUME sent' = sent PROVE QueueInv'
    <2>1. Len(resp') = Len(sent') - taken' /\ taken' <= Len(sent')
      BY <1>1, <1>2, <1>3, <1>5
    <2>2. \A i \in 1..Len(resp') : resp'[i] = taken' + i
      BY <1>1, <1>2, <1>3
    <2> QED
      BY <2>1, <2>2 DEF QueueInv
  <1> QED
    BY <1>4, <1>5 DEF RestrictInv

LEMMA InvMain == IInv /\ Main => IInv'
  <1> SUFFICES ASSUME IInv, Main PROVE IInv'
    OBVIOUS
  <1>0. TypeOK /\ TypeOK'
    BY TypeMain DEF IInv
  <1>s. sent' = sent /\ task' = task /\ status' = status /\ devOpen' = devOpen
    BY DEF Main, deviceVars
  <1>i. \A list, n : IsUpTo(list, n)' <=> IsUpTo(list', n')
    BY <1>s DEF IsUpTo
  <1>1. CASE Connect \/ CheckRestrictions \/ CallSubscribe
    <2> USE <1>0, <1>s, <1>1 DEF Connect, CheckRestrictions, CallSubscribe, Fail, Main, deviceVars
    <2>1. QueueInv'
      BY DEF IInv, QueueInv
    <2>2. CodeInv' /\ StatusInv' /\ CollectInv'
      BY DEF IInv, CodeInv, StatusInv, CollectInv, IsUpTo
    <2>3. VerdictInv'
      BY DEF IInv, VerdictInv, RestrictInv, IsUpTo
    <2>4. RestrictInv'
      <3>1. CASE Connect
        BY <3>1 DEF IInv, RestrictInv, AllowedOrWarned
      <3>2. CASE CheckRestrictions
        <4>1. phase' = "build" => AllowedOrWarned'
          <5> SUFFICES ASSUME phase' = "build" PROVE AllowedOrWarned'
            OBVIOUS
          <5>1. {task.mode} \ ListModes(task.platform) \subseteq warned' \ {"poll"}
            BY <3>2
          <5>2. \A i \in DOMAIN task.subscriptions :
                   task.subscriptions[i].mode \in ItemModes(task.platform) \cup warned'
            BY <3>2
          <5> QED
            BY <5>1, <5>2 DEF AllowedOrWarned
        <4> QED
          BY <3>2, <4>1 DEF IInv, RestrictInv
      <3>3. CASE CallSubscribe
        BY <3>3 DEF IInv, RestrictInv, AllowedOrWarned
      <3> QED
        BY <3>1, <3>2, <3>3
    <2> QED
      BY <2>1, <2>2, <2>3, <2>4 DEF IInv
  <1>2. CASE OnUpdate \/ OnGarbled \/ OnSyncResponse \/ OnError
    <2>1. /\ phase = "loop" /\ outcome = "none" /\ taken + 1 \in DOMAIN sent
          /\ Head(resp) = taken + 1 /\ taken' = taken + 1 /\ QueueInv'
          /\ code' = code /\ spc' = spc /\ warned' = warned
      BY <1>2, <1>s, TakeFacts DEF OnUpdate, OnGarbled, OnSyncResponse, OnError, Take
    <2>2. IsUpTo(updates, taken) /\ taken \in Nat
      BY <2>1, <1>0 DEF IInv, CollectInv, TypeOK
    <2>3. CodeInv' /\ StatusInv'
      BY <2>1, <1>s, <1>0 DEF IInv, CodeInv, StatusInv, TypeOK
    <2>4. RestrictInv'
      BY <1>2, <2>1, <1>s DEF IInv, RestrictInv, AllowedOrWarned, OnUpdate, OnGarbled,
         OnSyncResponse, OnError, Fail, Succeed, Main, deviceVars
    <2>5. CollectInv' /\ VerdictInv'
      <3>1. CASE OnUpdate
        <4>1. sent[taken + 1] = "update"
          BY <3>1, <2>1 DEF OnUpdate, Take
        <4>2. IsUpTo(updates', taken')
          BY <3>1, <4>1, <2>1, <2>2, <1>0, UpToAppends DEF OnUpdate
        <4> QED
          BY <3>1, <4>2, <1>i, <2>1 DEF OnUpdate, CollectInv, VerdictInv
      <3>2. CASE OnGarbled
        BY <3>2 DEF OnGarbled, Fail, CollectInv, VerdictInv
      <3>3. CASE OnSyncResponse
        <4>1. sent[taken + 1] = "sync_response"
          BY <3>3, <2>1 DEF OnSyncResponse, Take
        <4>2. IsUpTo(updates, taken')
          BY <4>1, <2>1, <2>2, <1>0, UpToSkips
        <4>3. CASE task.mode = "once"
          BY <3>3, <4>1, <4>2, <4>3, <2>1, <1>s, <1>i DEF OnSyncResponse, Succeed, CollectInv, VerdictInv
        <4>4. CASE task.mode # "once"
          BY <3>3, <4>2, <4>4, <2>1, <1>i DEF OnSyncResponse, CollectInv, VerdictInv
        <4> QED
          BY <4>3, <4>4
      <3>4. CASE OnError
        <4>1. sent[taken + 1] = "error"
          BY <3>4, <2>1 DEF OnError, Take
        <4>2. IsUpTo(updates, taken')
          BY <4>1, <2>1, <2>2, <1>0, UpToSkips
        <4> QED
          BY <3>4, <4>2, <2>1, <1>i DEF OnError, CollectInv, VerdictInv
      <3> QED
        BY <1>2, <3>1, <3>2, <3>3, <3>4
    <2> QED
      BY <2>1, <2>3, <2>4, <2>5, <1>0 DEF IInv
  <1>3. CASE OnStreamEnd \/ OnRpcError
    <2> USE <1>0, <1>s, <1>3 DEF OnStreamEnd, OnRpcError, Ended, Fail, Succeed
    <2>1. QueueInv' /\ CodeInv' /\ StatusInv'
      BY DEF IInv, QueueInv, CodeInv, StatusInv
    <2>2. CollectInv'
      BY DEF CollectInv
    <2>3. outcome = "none" /\ IsUpTo(updates, taken)
      BY DEF IInv, RestrictInv, CollectInv
    <2>4. VerdictInv'
      BY <2>3, <1>i DEF VerdictInv
    <2>5. RestrictInv'
      BY DEF IInv, RestrictInv, AllowedOrWarned, Main, deviceVars
    <2> QED
      BY <2>1, <2>2, <2>4, <2>5 DEF IInv
  <1>4. CASE Disconnect
    <2> USE <1>0, <1>s, <1>4 DEF Disconnect
    <2>1. QueueInv' /\ CodeInv' /\ StatusInv'
      BY DEF IInv, QueueInv, CodeInv, StatusInv
    <2>2. CollectInv' /\ VerdictInv'
      BY <1>i DEF IInv, CollectInv, VerdictInv
    <2>3. RestrictInv'
      BY DEF IInv, RestrictInv, AllowedOrWarned, Main, deviceVars
    <2> QED
      BY <2>1, <2>2, <2>3 DEF IInv
  <1> QED
    BY <1>1, <1>2, <1>3, <1>4 DEF Main

LEMMA InvTransport == IInv /\ Transport => IInv'
  <1> SUFFICES ASSUME IInv, Transport PROVE IInv'
    OBVIOUS
  <1>0. TypeOK /\ TypeOK'
    BY TypeTransport DEF IInv
  <1> USE <1>0 DEF Transport, mainVars, deviceVars, SendRequest, Deadline, ConnectionLost,
          EndLocally, StatusArrives
  <1>1. QueueInv'
    BY DEF IInv, QueueInv, TypeOK
  <1>2. CodeInv'
    <2>1. CASE StatusArrives /\ code' = "OK"
      <3>1. Len(sent) - taken = Len(resp) /\ Len(resp) = 0
        BY <2>1 DEF IInv, QueueInv
      <3>2. taken = Len(sent)
        BY <3>1 DEF TypeOK
      <3>3. ~devOpen
        BY <2>1 DEF IInv, StatusInv
      <3> QED
        BY <2>1, <3>2, <3>3 DEF CodeInv
    <2> QED
      BY <2>1 DEF IInv, CodeInv
  <1>3. CollectInv' /\ VerdictInv'
    BY DEF IInv, CollectInv, VerdictInv, IsUpTo, RestrictInv
  <1>4. RestrictInv'
    BY DEF IInv, RestrictInv, AllowedOrWarned
  <1> QED
    BY <1>1, <1>2, <1>3, <1>4, <1>0 DEF IInv, StatusInv

LEMMA InvDevice == IInv /\ Device => IInv'
  <1> SUFFICES ASSUME IInv, Device PROVE IInv'
    OBVIOUS
  <1>0. TypeOK /\ TypeOK'
    BY TypeDevice DEF IInv
  <1> USE <1>0 DEF Device, mainVars
  <1>1. CASE DeviceReceive \/ DeviceCloses
    <2> USE <1>1 DEF DeviceReceive, DeviceCloses
    <2>1. QueueInv' /\ CodeInv' /\ StatusInv'
      BY DEF IInv, QueueInv, CodeInv, StatusInv
    <2>2. CollectInv' /\ VerdictInv'
      BY DEF IInv, CollectInv, VerdictInv, IsUpTo
    <2>3. RestrictInv'
      BY DEF IInv, RestrictInv, AllowedOrWarned
    <2> QED
      BY <2>1, <2>2, <2>3 DEF IInv
  <1>2. ASSUME NEW kind \in Kinds, DeviceSends(kind) PROVE IInv'
    <2> USE <1>2 DEF DeviceSends
    <2>1. /\ Len(sent') = Len(sent) + 1 /\ Len(sent) \in Nat
          /\ \A k \in 1..Len(sent) : sent'[k] = sent[k]
      BY AppendFacts DEF TypeOK
    <2>2. /\ Len(resp') = Len(resp) + 1 /\ Len(resp) \in Nat
          /\ \A k \in 1..Len(resp) : resp'[k] = resp[k]
          /\ resp'[Len(resp) + 1] = Len(sent) + 1
      BY AppendFacts DEF TypeOK
    <2>3. QueueInv'
      <3>1. Len(resp) = Len(sent) - taken /\ \A i \in 1..Len(resp) : resp[i] = taken + i
        BY DEF IInv, QueueInv
      <3>2. Len(resp') = Len(sent') - taken' /\ taken' <= Len(sent')
        BY <3>1, <2>1, <2>2 DEF TypeOK, IInv, QueueInv
      <3>3. \A i \in 1..Len(resp') : resp'[i] = taken' + i
        <4> TAKE i \in 1..Len(resp')
        <4>1. i \in 1..Len(resp) \/ i = Len(resp) + 1
          BY <2>2
        <4>2. CASE i \in 1..Len(resp)
          BY <4>2, <3>1, <2>2
        <4>3. CASE i = Len(resp) + 1
          <5>1. Len(resp) + taken = Len(sent)
            BY <3>1, <2>1 DEF TypeOK
          <5> QED
            BY <5>1, <4>3, <2>1, <2>2 DEF TypeOK
        <4> QED
          BY <4>1, <4>2, <4>3
      <3> QED
        BY <3>2, <3>3 DEF QueueInv
    <2>4. CodeInv' /\ StatusInv'
      BY DEF IInv, CodeInv, StatusInv
    <2>5. taken \in Nat /\ taken <= Len(sent)
      BY DEF IInv, QueueInv, TypeOK
    <2>6. CollectInv'
      BY <2>1, <2>5 DEF IInv, CollectInv, IsUpTo
    <2>7. VerdictInv'
      <3>1. taken \in DOMAIN sent => taken \in DOMAIN sent' /\ sent'[taken] = sent[taken]
        BY <2>1 DEF TypeOK
      <3> QED
        BY <3>1, <2>1, <2>5 DEF IInv, VerdictInv, IsUpTo
    <2>8. RestrictInv'
      BY DEF IInv, RestrictInv, AllowedOrWarned
    <2> QED
      BY <2>3, <2>4, <2>6, <2>7, <2>8 DEF IInv
  <1> QED
    BY <1>1, <1>2

LEMMA InvStep == IInv /\ [Next]_vars => IInv'
  <1>1. IInv /\ UNCHANGED vars => IInv'
    <2> SUFFICES ASSUME IInv, UNCHANGED vars PROVE IInv'
      OBVIOUS
    <2> USE DEF vars, mainVars, deviceVars
    <2>1. TypeOK'
      BY TypeStep DEF IInv
    <2>2. QueueInv' /\ CodeInv' /\ StatusInv'
      BY DEF IInv, QueueInv, CodeInv, StatusInv
    <2>3. CollectInv' /\ VerdictInv'
      BY DEF IInv, CollectInv, VerdictInv, IsUpTo
    <2>4. RestrictInv'
      BY DEF IInv, RestrictInv, AllowedOrWarned
    <2> QED
      BY <2>1, <2>2, <2>3, <2>4 DEF IInv
  <1> QED
    BY <1>1, InvMain, InvTransport, InvDevice DEF Next, Finished

\* The inductive invariant holds in every state.
THEOREM InvCorrect == Spec => []IInv
  BY InvInit, InvStep, PTL DEF Spec
-----------------------------------------------------------------------------
\* gnmi_client.py:967-980: a success reports exactly the updates the device
\* sent, up to the sync_response of "once" or up to its OK.
THEOREM ReportsTheStream == Spec => []SuccessReportsTheStream
  <1>1. IInv => SuccessReportsTheStream
    BY DEF IInv, VerdictInv, CodeInv, SuccessReportsTheStream
  <1> QED
    BY <1>1, InvCorrect, PTL

\* gnmi_client.py:357-389: nothing the platform does not list goes out
\* without a warning, and no poll at all.
THEOREM RestrictionsHold == Spec => []SentIsAllowedOrWarned
  <1>1. IInv => SentIsAllowedOrWarned
    BY DEF IInv, RestrictInv, AllowedOrWarned, SentIsAllowedOrWarned
  <1> QED
    BY <1>1, InvCorrect, PTL
=============================================================================
