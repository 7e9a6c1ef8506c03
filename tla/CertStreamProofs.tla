-------------------------- MODULE CertStreamProofs --------------------------
(***************************************************************************)
(* Proofs about CertStream, for every Window: the type invariant, the      *)
(* inductive invariant of CertStreamInv and the safety properties of the   *)
(* run cert_stream.                                                        *)
(***************************************************************************)
EXTENDS CertStreamInv, SequenceTheorems, TLAPS

LEMMA TypeInit == Init => TypeOK
  <1> SUFFICES ASSUME Init PROVE TypeOK
    OBVIOUS
  <1>1. wire \in Seq(Items) /\ resp \in Seq({"load_certificate"})
    BY EmptySeq DEF Init
  <1>2. queue \in Seq(Items)
    BY DEF Init, FirstItems, Items
  <1> QED
    BY <1>1, <1>2 DEF Init, TypeOK, Ops, Items, Codes

\* What the receiver of a queue gets and leaves.
LEMMA TailFacts ==
    ASSUME NEW S, NEW q \in Seq(S), q # <<>>
    PROVE  Head(q) \in S /\ Tail(q) \in Seq(S)
  OBVIOUS

LEMMA TypeMain == TypeOK /\ Main => TypeOK'
  <1> SUFFICES ASSUME TypeOK, Main PROVE TypeOK'
    OBVIOUS
  <1> USE DEF TypeOK, Main, Items, Codes, senderVars, deviceVars
  <1>1. CASE FirstResponse
    BY <1>1 DEF FirstResponse
  <1>2. CASE NoFirstResponse
    BY <1>2 DEF NoFirstResponse, Return
  <1>3. CASE DrainResponse
    BY <1>3 DEF DrainResponse, mainVars
  <1>4. CASE DrainEnds
    BY <1>4 DEF DrainEnds, Return
  <1>5. CASE OnRpcError
    BY <1>5 DEF OnRpcError, Return
  <1>6. CASE Disconnect
    BY <1>6 DEF Disconnect
  <1> QED
    BY <1>1, <1>2, <1>3, <1>4, <1>5, <1>6

LEMMA TypeSender == TypeOK /\ Sender => TypeOK'
  <1> SUFFICES ASSUME TypeOK, Sender PROVE TypeOK'
    OBVIOUS
  <1> USE DEF TypeOK, Sender, mainVars, deviceVars
  <1>1. CASE Get
    BY <1>1, TailFacts DEF Get
  <1>2. CASE HandToTransport
    BY <1>2 DEF HandToTransport
  <1>3. CASE PullNext
    BY <1>3 DEF PullNext
  <1>4. CASE DropMessage
    BY <1>4 DEF DropMessage
  <1>5. CASE HalfClose
    BY <1>5 DEF HalfClose
  <1> QED
    BY <1>1, <1>2, <1>3, <1>4, <1>5

LEMMA TypeChannel == TypeOK /\ Channel => TypeOK'
  <1> SUFFICES ASSUME TypeOK, Channel PROVE TypeOK'
    OBVIOUS
  <1> USE DEF TypeOK, Channel, Clock, ChannelFrame, mainVars, senderVars, deviceVars
  <1>1. CASE TimePasses
    BY <1>1 DEF TimePasses
  <1>2. CASE Deadline \/ ConnectionLost
    <2>1. resp' \in Seq({"load_certificate"})
      BY <1>2, EmptySeq DEF Deadline, ConnectionLost, EndLocally
    <2>2. code' \in Codes
      BY <1>2 DEF Deadline, ConnectionLost, EndLocally, Codes
    <2> QED
      BY <1>2, <2>1, <2>2 DEF Deadline, ConnectionLost, EndLocally
  <1>3. CASE StatusArrives
    BY <1>3 DEF StatusArrives
  <1> QED
    BY <1>1, <1>2, <1>3

LEMMA TypeDevice == TypeOK /\ Device => TypeOK'
  <1> SUFFICES ASSUME TypeOK, Device PROVE TypeOK'
    OBVIOUS
  <1> USE DEF TypeOK, Device, mainVars, senderVars
  <1>1. CASE DeviceReceive
    BY <1>1, TailFacts DEF DeviceReceive
  <1>2. CASE DeviceAnswers
    BY <1>2 DEF DeviceAnswers
  <1>3. CASE DeviceCloses
    <2>1. wire' \in Seq(Items)
      BY <1>3, EmptySeq DEF DeviceCloses
    <2>2. status' \in Codes \ {"DEADLINE_EXCEEDED"}
      BY <1>3 DEF DeviceCloses
    <2>3. binding' \in {"before", "committed"}
      BY <1>3 DEF DeviceCloses, LeftBound
    <2> QED
      BY <1>3, <2>1, <2>2, <2>3 DEF DeviceCloses
  <1> QED
    BY <1>1, <1>2, <1>3

LEMMA TypeStep == TypeOK /\ [Next]_vars => TypeOK'
  <1>1. TypeOK /\ UNCHANGED vars => TypeOK'
    BY DEF TypeOK, vars, mainVars, senderVars, deviceVars
  <1> QED
    BY <1>1, TypeMain, TypeSender, TypeChannel, TypeDevice DEF Next, Finished

\* Every variable stays in its type.
THEOREM TypeCorrect == Spec => []TypeOK
  BY TypeInit, TypeStep, PTL DEF Spec
-----------------------------------------------------------------------------
(***************************************************************************)
(* The queue and the wire as explicit sequences.                           *)
(***************************************************************************)
LEMMA HeadsAndTails ==
    /\ Head(<<"load", "stop">>) = "load" /\ Tail(<<"load", "stop">>) = <<"stop">>
    /\ Head(<<"load">>) = "load" /\ Tail(<<"load">>) = <<>>
    /\ Head(<<"finalize", "stop">>) = "finalize"
    /\ Tail(<<"finalize", "stop">>) = <<"stop">>
    /\ Head(<<"finalize", "stop", "stop">>) = "finalize"
    /\ Tail(<<"finalize", "stop", "stop">>) = <<"stop", "stop">>
    /\ Head(<<"stop", "stop">>) = "stop" /\ Tail(<<"stop", "stop">>) = <<"stop">>
    /\ Head(<<"stop">>) = "stop" /\ Tail(<<"stop">>) = <<>>
    /\ Head(<<"finalize">>) = "finalize" /\ Tail(<<"finalize">>) = <<>>
  OBVIOUS

LEMMA AppendToOne ==
    ASSUME NEW S, NEW a \in S, NEW b \in S
    PROVE  Append(<<a>>, b) = <<a, b>>
  <1>1. Append(<<a>>, b)[1] = a /\ Append(<<a>>, b)[2] = b
    OBVIOUS
  <1>2. <<a, b>>[1] = a /\ <<a, b>>[2] = b
    OBVIOUS
  <1>3. <<a>> \in Seq(S) /\ <<a, b>> \in Seq(S) /\ Len(<<a, b>>) = 2 /\ Len(<<a>>) = 1
    OBVIOUS
  <1>4. Append(<<a>>, b) \in Seq(S) /\ Len(Append(<<a>>, b)) = 2
    BY <1>3, AppendProperties
  <1>5. \A i \in 1 .. 2 : Append(<<a>>, b)[i] = <<a, b>>[i]
    BY <1>1, <1>2
  <1> QED
    BY <1>3, <1>4, <1>5, SeqEqual

LEMMA AppendToTwo ==
    ASSUME NEW S, NEW a \in S, NEW b \in S, NEW c \in S
    PROVE  Append(<<a, b>>, c) = <<a, b, c>>
  <1>1. /\ Append(<<a, b>>, c)[1] = a
        /\ Append(<<a, b>>, c)[2] = b
        /\ Append(<<a, b>>, c)[3] = c
    OBVIOUS
  <1>2. <<a, b, c>>[1] = a /\ <<a, b, c>>[2] = b /\ <<a, b, c>>[3] = c
    OBVIOUS
  <1>3. /\ <<a, b>> \in Seq(S) /\ <<a, b, c>> \in Seq(S)
        /\ Len(<<a, b>>) = 2 /\ Len(<<a, b, c>>) = 3
    OBVIOUS
  <1>4. Append(<<a, b>>, c) \in Seq(S) /\ Len(Append(<<a, b>>, c)) = 3
    BY <1>3, AppendProperties
  <1>5. \A i \in 1 .. 3 : Append(<<a, b>>, c)[i] = <<a, b, c>>[i]
    BY <1>1, <1>2
  <1> QED
    BY <1>3, <1>4, <1>5, SeqEqual

LEMMA Appends ==
    /\ <<>> \o <<"finalize", "stop">> = <<"finalize", "stop">>
    /\ Append(<<>>, "stop") = <<"stop">>
    /\ Append(<<"stop">>, "stop") = <<"stop", "stop">>
    /\ Append(<<"load">>, "stop") = <<"load", "stop">>
    /\ Append(<<"finalize", "stop">>, "stop") = <<"finalize", "stop", "stop">>
    /\ Append(<<>>, "load") = <<"load">>
    /\ Append(<<>>, "finalize") = <<"finalize">>
  <1>0. "load" \in Items /\ "finalize" \in Items /\ "stop" \in Items
    BY DEF Items
  <1>1. <<"finalize", "stop">> \in Seq(Items)
    BY <1>0
  <1>2. <<>> \o <<"finalize", "stop">> = <<"finalize", "stop">>
    BY <1>1, ConcatEmptySeq
  <1>3. Append(<<"stop">>, "stop") = <<"stop", "stop">>
    BY <1>0, AppendToOne
  <1>4. Append(<<"load">>, "stop") = <<"load", "stop">>
    BY <1>0, AppendToOne
  <1>5. Append(<<"finalize", "stop">>, "stop") = <<"finalize", "stop", "stop">>
    BY <1>0, AppendToTwo
  <1>6. /\ Append(<<>>, "stop") = <<"stop">>
        /\ Append(<<>>, "load") = <<"load">>
        /\ Append(<<>>, "finalize") = <<"finalize">>
    OBVIOUS
  <1> QED
    BY <1>2, <1>3, <1>4, <1>5, <1>6

-----------------------------------------------------------------------------
LEMMA InvInit == Init => IInv
  <1> SUFFICES ASSUME Init PROVE IInv
    OBVIOUS
  <1>1. ShapeInv /\ LoadInv
    BY DEF Init, FirstItems, Ops, ShapeInv, QueueShapes, LoadInv, LoadQueued, Yielded
  <1>2. AnswerInv /\ FinalizeInv
    BY DEF Init, FirstItems, Ops, AnswerInv, FinalizeInv, FinalizeQueued, Yielded
  <1>3. EndInv /\ VerdictInv
    BY DEF Init, FirstItems, Ops, EndInv, StopNext, FinalizeQueued, Yielded, VerdictInv
  <1> QED
    BY <1>1, <1>2, <1>3, TypeInit DEF IInv

\* FirstResponse finds the load gone and puts the Finalize in its place.
LEMMA FirstResponseStep ==
    ASSUME IInv, FirstResponse,
           UNCHANGED <<op, senderVars, wire, expired, exists, deviceVars>>
    PROVE  ShapeInv' /\ LoadInv' /\ AnswerInv' /\ FinalizeInv' /\ EndInv' /\ VerdictInv'
  <1> USE DEF senderVars, deviceVars
  <1>1. op = "rotate" /\ ~loadSeen /\ answered /\ queue = <<>>
    BY DEF IInv, TypeOK, Ops, FirstResponse, ShapeInv, LoadInv, AnswerInv, LoadQueued
  <1>2. queue' = <<"finalize", "stop">>
    BY <1>1, Appends DEF FirstResponse
  <1>3. wire = <<>> /\ ~Yielded("load") /\ ~Yielded("finalize")
    BY <1>1 DEF IInv, FirstResponse, ShapeInv, LoadInv, FinalizeInv
  <1>4. ShapeInv' /\ LoadInv'
    BY <1>1, <1>2, <1>3
    DEF IInv, FirstResponse, ShapeInv, QueueShapes, LoadInv, LoadQueued, FinalizeQueued, Yielded
  <1>5. AnswerInv' /\ FinalizeInv'
    BY <1>1, <1>2, <1>3
    DEF IInv, FirstResponse, AnswerInv, FinalizeInv, FinalizeQueued, Yielded
  <1>6. queue' # <<>> /\ ~StopNext'
    BY <1>2 DEF StopNext
  <1>7. code = "none" => spc \in {"get", "sent"}
    BY <1>1, <1>3 DEF IInv, TypeOK, Items, ShapeInv, EndInv, Yielded
  <1>8. op = "rotate" /\ halfClosed /\ devOpen => FinalizeSent'
    BY DEF IInv, EndInv, FinalizeSent, FirstResponse
  <1>9. EndInv'
    BY <1>6, <1>7, <1>8 DEF FirstResponse, EndInv
  <1>10. VerdictInv'
    BY DEF IInv, FirstResponse, VerdictInv, Acceptable
  <1> QED
    BY <1>4, <1>5, <1>9, <1>10

\* The stop an except clause appends changes nothing before it.
LEMMA AppendedStop ==
    ASSUME ShapeInv, op = "rotate", mpc \in {"first", "drain"}, queue' = Append(queue, "stop")
    PROVE  /\ queue' \in QueueShapes
           /\ LoadQueued' <=> LoadQueued
           /\ FinalizeQueued' <=> FinalizeQueued
  <1>1. queue \in {<<"load">>, <<>>, <<"finalize", "stop">>, <<"stop">>}
    BY DEF ShapeInv
  <1>2. CASE queue = <<"load">>
    BY <1>2, Appends DEF QueueShapes, LoadQueued, FinalizeQueued
  <1>3. CASE queue = <<>>
    BY <1>3, Appends DEF QueueShapes, LoadQueued, FinalizeQueued
  <1>4. CASE queue = <<"finalize", "stop">>
    BY <1>4, Appends DEF QueueShapes, LoadQueued, FinalizeQueued
  <1>5. CASE queue = <<"stop">>
    BY <1>5, Appends DEF QueueShapes, LoadQueued, FinalizeQueued
  <1> QED
    BY <1>1, <1>2, <1>3, <1>4, <1>5

MainFrame == UNCHANGED <<op, senderVars, wire, expired, exists, deviceVars>>

\* The handler returns or raises: nothing but a stop is queued.
LEMMA ReturnStep ==
    ASSUME IInv, MainFrame, NEW o \in {"succeeded", "failed"}, Return(o),
           mpc \in {"first", "drain"}, code # "none",
           o = "succeeded" => code = "OK",
           UNCHANGED <<loadSeen, resp, code>>,
           queue' = queue \/ (op = "rotate" /\ queue' = Append(queue, "stop"))
    PROVE  ShapeInv' /\ LoadInv' /\ AnswerInv' /\ FinalizeInv' /\ EndInv' /\ VerdictInv'
  <1> USE DEF MainFrame, senderVars, deviceVars, Return
  <1>1. /\ queue' \in QueueShapes
        /\ LoadQueued' <=> LoadQueued
        /\ FinalizeQueued' <=> FinalizeQueued
    BY AppendedStop DEF IInv, ShapeInv, LoadQueued, FinalizeQueued
  <1>2. op = "install" => queue' = queue
    OBVIOUS
  <1>3. ShapeInv'
    BY <1>1, <1>2 DEF IInv, ShapeInv
  <1>4. LoadInv' /\ AnswerInv' /\ FinalizeInv'
    BY <1>1 DEF IInv, LoadInv, AnswerInv, FinalizeInv, Yielded
  <1>5. EndInv'
    BY DEF IInv, EndInv, FinalizeSent
  <1>6. VerdictInv'
    BY DEF IInv, VerdictInv, Acceptable
  <1> QED
    BY <1>3, <1>4, <1>5, <1>6

LEMMA MainStep ==
    ASSUME IInv, Main
    PROVE  ShapeInv' /\ LoadInv' /\ AnswerInv' /\ FinalizeInv' /\ EndInv' /\ VerdictInv'
  <1>0. MainFrame
    BY DEF Main, MainFrame
  <1>1. CASE FirstResponse
    BY <1>0, <1>1, FirstResponseStep DEF MainFrame
  <1>2. CASE NoFirstResponse
    <2>1. op = "rotate"
      BY <1>2 DEF IInv, TypeOK, Ops, AnswerInv, NoFirstResponse
    <2> QED
      BY <1>0, <1>2, <2>1, ReturnStep DEF NoFirstResponse
  <1>3. CASE DrainResponse
    BY <1>0, <1>3
    DEF MainFrame, DrainResponse, mainVars, senderVars, deviceVars, IInv, ShapeInv,
        LoadInv, AnswerInv, FinalizeInv, EndInv, VerdictInv, Acceptable, LoadQueued,
        FinalizeQueued, StopNext, FinalizeSent, Yielded
  <1>4. CASE DrainEnds
    BY <1>0, <1>4, ReturnStep DEF DrainEnds
  <1>5. CASE OnRpcError
    BY <1>0, <1>5, ReturnStep DEF OnRpcError, RpcFails
  <1>6. CASE Disconnect
    <2>1. VerdictInv'
      BY <1>0, <1>6 DEF MainFrame, Disconnect, IInv, VerdictInv, deviceVars, Acceptable
    <2>2. EndInv'
      BY <1>0, <1>6 DEF MainFrame, Disconnect, IInv, EndInv, FinalizeSent, senderVars, deviceVars
    <2> QED
      BY <1>0, <1>6, <2>1, <2>2
      DEF MainFrame, Disconnect, senderVars, deviceVars, IInv, ShapeInv, LoadInv,
          AnswerInv, FinalizeInv, LoadQueued, FinalizeQueued, Yielded
  <1> QED
    BY <1>1, <1>2, <1>3, <1>4, <1>5, <1>6 DEF Main

SenderFrame == UNCHANGED <<op, mainVars, resp, code, expired, exists, deviceVars>>

\* get() moves the head of the queue into the iterator.
LEMMA GetStep ==
    ASSUME IInv, SenderFrame, Get
    PROVE  ShapeInv' /\ LoadInv' /\ AnswerInv' /\ FinalizeInv' /\ EndInv' /\ VerdictInv'
  <1> USE DEF SenderFrame, mainVars, deviceVars
  <1>1. AnswerInv' /\ VerdictInv'
    BY DEF Get, IInv, AnswerInv, VerdictInv, Acceptable
  <1>2. CASE LoadQueued
    <2>1. /\ item' = "load" /\ spc' = "yielded" /\ wire' = <<>>
          /\ queue' \in {<<>>, <<"stop">>}
          /\ queue' = <<"stop">> => queue = <<"load", "stop">>
      <3>1. wire' = <<>>
        BY <1>2 DEF Get, IInv, LoadInv
      <3>2. CASE queue = <<"load", "stop">>
        BY <3>1, <3>2, HeadsAndTails DEF Get
      <3>3. CASE queue = <<"load">>
        BY <3>1, <3>3, HeadsAndTails DEF Get
      <3> QED
        BY <1>2, <3>2, <3>3 DEF LoadQueued
    <2>2. /\ ~LoadQueued' /\ ~FinalizeQueued' /\ ~Yielded("finalize")'
          /\ binding = "before" /\ ~answered
      BY <1>2, <2>1 DEF IInv, LoadInv, LoadQueued, FinalizeQueued, Yielded
    <2>3. ShapeInv'
      <3>1. op = "rotate" /\ mpc = "first" => queue' = <<>>
        BY <1>2, <2>1 DEF IInv, ShapeInv, LoadQueued
      <3>2. ~(op = "rotate" /\ mpc = "drain")
        BY <1>2 DEF IInv, ShapeInv, LoadQueued
      <3> QED
        BY <2>1, <3>1, <3>2 DEF Get, IInv, ShapeInv, QueueShapes
    <2>4. LoadInv'
      BY <2>1, <2>2 DEF LoadInv
    <2>5. FinalizeInv'
      BY <2>1, <2>2 DEF FinalizeInv, Get, IInv
    <2>6. EndInv'
      <3>1. op = "rotate" /\ code = "none" => ~loadSeen /\ queue' = <<>>
        BY <1>2, <2>1, <2>2 DEF IInv, AnswerInv, EndInv, LoadQueued
      <3>2. op = "rotate" /\ halfClosed /\ devOpen => FinalizeSent'
        BY DEF Get, IInv, EndInv, FinalizeSent
      <3> QED
        BY <2>1, <2>2, <3>1, <3>2 DEF EndInv, Get, StopNext
    <2> QED
      BY <1>1, <2>3, <2>4, <2>5, <2>6
  <1>3. CASE FinalizeQueued
    <2>1. /\ item' = "finalize" /\ spc' = "yielded"
          /\ queue' \in {<<"stop">>, <<"stop", "stop">>}
          /\ queue' = <<"stop">> => queue = <<"finalize", "stop">>
      <3>1. CASE queue = <<"finalize", "stop">>
        BY <3>1, HeadsAndTails DEF Get
      <3>2. CASE queue = <<"finalize", "stop", "stop">>
        BY <3>2, HeadsAndTails DEF Get
      <3> QED
        BY <1>3, <3>1, <3>2 DEF FinalizeQueued
    <2>2. ShapeInv' /\ LoadInv'
      BY <1>3, <2>1 DEF Get, IInv, ShapeInv, QueueShapes, LoadInv, LoadQueued, FinalizeQueued,
         FinalizeInv, Yielded
    <2>3. /\ ~FinalizeQueued' /\ queue' # <<>>
          /\ wire = <<>> /\ binding # "committed" /\ loadSeen /\ op = "rotate"
      BY <1>3, <2>1 DEF IInv, FinalizeInv, FinalizeQueued
    <2>4. FinalizeInv'
      BY <2>1, <2>3 DEF FinalizeInv, Get, Yielded
    <2>5. op = "rotate" /\ halfClosed /\ devOpen => FinalizeSent'
      BY DEF Get, IInv, EndInv, FinalizeSent
    <2>6. EndInv'
      BY <2>1, <2>3, <2>5 DEF EndInv, Get, Yielded
    <2> QED
      BY <1>1, <2>2, <2>4, <2>6
  <1>4. CASE StopNext
    <2>1. /\ item' = "stop" /\ spc' = "returning"
          /\ queue' \in {<<>>, <<"stop">>}
          /\ queue' = <<"stop">> => queue = <<"stop", "stop">>
      <3>1. CASE queue = <<"stop", "stop">>
        BY <3>1, HeadsAndTails DEF Get
      <3>2. CASE queue = <<"stop">>
        BY <3>2, HeadsAndTails DEF Get
      <3> QED
        BY <1>4, <3>1, <3>2 DEF StopNext
    <2>2. ShapeInv' /\ LoadInv'
      BY <1>4, <2>1 DEF Get, IInv, ShapeInv, QueueShapes, LoadInv, LoadQueued, FinalizeQueued,
         StopNext, Yielded
    <2>3. FinalizeInv' /\ EndInv'
      BY <1>4, <2>1 DEF Get, IInv, ShapeInv, LoadInv, AnswerInv, FinalizeInv, EndInv, LoadQueued,
         FinalizeQueued, StopNext, FinalizeSent, Yielded
    <2> QED
      BY <1>1, <2>2, <2>3
  <1> QED
    BY <1>2, <1>3, <1>4
    DEF Get, IInv, ShapeInv, QueueShapes, LoadQueued, FinalizeQueued, StopNext

\* A yielded message finds the wire empty.
LEMMA HandStep ==
    ASSUME IInv, SenderFrame, HandToTransport
    PROVE  ShapeInv' /\ LoadInv' /\ AnswerInv' /\ FinalizeInv' /\ EndInv' /\ VerdictInv'
  <1> USE DEF SenderFrame, mainVars, deviceVars
  <1>1. item \in {"load", "finalize"} /\ wire = <<>>
    BY DEF HandToTransport, IInv, TypeOK, Items, ShapeInv, LoadInv, FinalizeInv, Yielded
  <1>2. wire' = <<item>>
    BY <1>1, Appends DEF HandToTransport
  <1>3. AnswerInv' /\ VerdictInv'
    BY DEF HandToTransport, IInv, AnswerInv, VerdictInv, Acceptable
  <1>4. CASE item = "load"
    BY <1>2, <1>3, <1>4
    DEF HandToTransport, IInv, ShapeInv, LoadInv, AnswerInv, FinalizeInv, EndInv, LoadQueued,
        FinalizeQueued, StopNext, FinalizeSent, Yielded
  <1>5. CASE item = "finalize"
    BY <1>2, <1>3, <1>5
    DEF HandToTransport, IInv, TypeOK, ShapeInv, LoadInv, AnswerInv, FinalizeInv, EndInv, LoadQueued,
        FinalizeQueued, StopNext, FinalizeSent, Yielded
  <1> QED
    BY <1>1, <1>4, <1>5

LEMMA SenderStep ==
    ASSUME IInv, Sender
    PROVE  ShapeInv' /\ LoadInv' /\ AnswerInv' /\ FinalizeInv' /\ EndInv' /\ VerdictInv'
  <1>0. SenderFrame
    BY DEF Sender, SenderFrame
  <1>1. CASE Get
    BY <1>0, <1>1, GetStep
  <1>2. CASE HandToTransport
    BY <1>0, <1>2, HandStep
  <1>3. CASE PullNext \/ DropMessage \/ HalfClose
    <2>1. ShapeInv' /\ LoadInv'
      BY <1>0, <1>3 DEF PullNext, DropMessage, HalfClose, SenderFrame, mainVars, deviceVars, IInv,
         ShapeInv, LoadInv, LoadQueued, FinalizeQueued, Yielded
    <2>2. AnswerInv' /\ FinalizeInv' /\ VerdictInv'
      BY <1>0, <1>3 DEF PullNext, DropMessage, HalfClose, SenderFrame, mainVars, deviceVars, IInv,
         AnswerInv, FinalizeInv, VerdictInv, Acceptable, FinalizeQueued, Yielded
    <2>3. EndInv'
      BY <1>0, <1>3 DEF PullNext, DropMessage, HalfClose, SenderFrame, mainVars, deviceVars, IInv,
         EndInv, FinalizeQueued, StopNext, FinalizeSent, Yielded
    <2> QED
      BY <2>1, <2>2, <2>3
  <1> QED
    BY <1>1, <1>2, <1>3 DEF Sender

LEMMA ChannelStep ==
    ASSUME IInv, Channel
    PROVE  ShapeInv' /\ LoadInv' /\ AnswerInv' /\ FinalizeInv' /\ EndInv' /\ VerdictInv'
  <1>1. UNCHANGED <<op, mainVars, queue, senderVars, wire, exists, deviceVars>>
    BY DEF Channel, Clock, ChannelFrame
  <1>2. resp' = resp \/ resp' = <<>>
    BY DEF Channel, Clock, TimePasses, Deadline, ConnectionLost, StatusArrives, EndLocally
  <1>3. code' = code \/ (code = "none" /\ code' # "none" /\ (code' = "OK" => status = "OK"))
    BY DEF Channel, Clock, TimePasses, Deadline, ConnectionLost, StatusArrives, EndLocally
  <1> USE <1>1 DEF mainVars, senderVars, deviceVars
  <1>4. ShapeInv' /\ LoadInv' /\ FinalizeInv'
    BY DEF IInv, ShapeInv, LoadInv, FinalizeInv, LoadQueued, FinalizeQueued, Yielded
  <1>5. AnswerInv'
    BY <1>2 DEF IInv, AnswerInv
  <1>6. EndInv' /\ VerdictInv'
    BY <1>3 DEF IInv, EndInv, FinalizeQueued, StopNext, FinalizeSent, Yielded, VerdictInv, Acceptable
  <1> QED
    BY <1>4, <1>5, <1>6

DeviceFrame == UNCHANGED <<op, mainVars, queue, senderVars, code, expired, exists>>

LEMMA ReceiveStep ==
    ASSUME IInv, DeviceFrame, DeviceReceive
    PROVE  ShapeInv' /\ LoadInv' /\ AnswerInv' /\ FinalizeInv' /\ EndInv' /\ VerdictInv'
  <1> USE DEF DeviceFrame, mainVars, senderVars
  <1>1. CASE wire = <<"load">>
    <2>1. wire' = <<>> /\ binding' = IF Acceptable THEN "provisional" ELSE "before"
      BY <1>1, HeadsAndTails DEF DeviceReceive, IInv, LoadInv
    <2>2. ShapeInv' /\ LoadInv' /\ AnswerInv'
      BY <1>1, <2>1 DEF DeviceReceive, IInv, ShapeInv, LoadInv, AnswerInv, LoadQueued, FinalizeQueued, Yielded
    <2>3. FinalizeInv' /\ EndInv' /\ VerdictInv'
      BY <1>1, <2>1 DEF DeviceReceive, IInv, LoadInv, AnswerInv, FinalizeInv, EndInv, VerdictInv,
         Acceptable, FinalizeQueued, StopNext, FinalizeSent, Yielded
    <2> QED
      BY <2>2, <2>3
  <1>2. CASE wire = <<"finalize">>
    <2>1. wire' = <<>> /\ binding = "provisional" /\ binding' = "committed"
      BY <1>2, HeadsAndTails DEF DeviceReceive, IInv, FinalizeInv
    <2>2. ShapeInv' /\ LoadInv' /\ AnswerInv'
      BY <1>2, <2>1 DEF DeviceReceive, IInv, ShapeInv, LoadInv, AnswerInv, LoadQueued, FinalizeQueued, Yielded
    <2>3. FinalizeInv' /\ EndInv' /\ VerdictInv'
      BY <1>2, <2>1 DEF DeviceReceive, IInv, LoadInv, AnswerInv, FinalizeInv, EndInv, VerdictInv,
         Acceptable, FinalizeQueued, StopNext, FinalizeSent, Yielded
    <2> QED
      BY <2>2, <2>3
  <1> QED
    BY <1>1, <1>2 DEF DeviceReceive, IInv, ShapeInv

LEMMA DeviceStep ==
    ASSUME IInv, Device
    PROVE  ShapeInv' /\ LoadInv' /\ AnswerInv' /\ FinalizeInv' /\ EndInv' /\ VerdictInv'
  <1>0. DeviceFrame
    BY DEF Device, DeviceFrame
  <1>1. CASE DeviceReceive
    BY <1>0, <1>1, ReceiveStep
  <1>2. CASE DeviceAnswers
    <2>1. ShapeInv' /\ LoadInv' /\ AnswerInv'
      BY <1>0, <1>2 DEF DeviceFrame, mainVars, senderVars, DeviceAnswers, IInv, ShapeInv, LoadInv,
         AnswerInv, LoadQueued, FinalizeQueued, Yielded
    <2>2. FinalizeInv' /\ EndInv' /\ VerdictInv'
      BY <1>0, <1>2 DEF DeviceFrame, mainVars, senderVars, DeviceAnswers, IInv, TypeOK, Ops, AnswerInv,
         FinalizeInv, EndInv, VerdictInv, Acceptable, FinalizeQueued, StopNext, FinalizeSent, Yielded
    <2> QED
      BY <2>1, <2>2
  <1>3. CASE DeviceCloses
    <2>0. binding' = "before" \/ (binding' = binding /\ binding = "committed")
      BY <1>3 DEF DeviceCloses, LeftBound
    <2>1. ShapeInv' /\ LoadInv' /\ AnswerInv'
      BY <1>0, <1>3, <2>0 DEF DeviceFrame, mainVars, senderVars, DeviceCloses, IInv, ShapeInv, LoadInv,
         AnswerInv, LoadQueued, FinalizeQueued, Yielded
    <2>2. FinalizeInv' /\ EndInv' /\ VerdictInv'
      BY <1>0, <1>3, <2>0 DEF DeviceFrame, mainVars, senderVars, DeviceCloses, IInv, AnswerInv,
         FinalizeInv, EndInv, VerdictInv, Acceptable, FinalizeQueued, StopNext, FinalizeSent, Yielded
    <2> QED
      BY <2>1, <2>2
  <1> QED
    BY <1>1, <1>2, <1>3 DEF Device

\* The places of the load, the Finalize and the stop, in every state.
THEOREM InductiveInvariant == Spec => []IInv
  <1>1. IInv /\ [Next]_vars => IInv'
    <2> SUFFICES ASSUME IInv, [Next]_vars PROVE IInv'
      OBVIOUS
    <2>1. TypeOK'
      BY TypeStep DEF IInv
    <2>2. CASE UNCHANGED vars
      BY <2>1, <2>2
      DEF vars, mainVars, senderVars, deviceVars, IInv, ShapeInv, LoadInv, AnswerInv, FinalizeInv,
          EndInv, VerdictInv, Acceptable, LoadQueued, FinalizeQueued, StopNext, FinalizeSent, Yielded
    <2>3. CASE Next
      BY <2>1, <2>2, <2>3, MainStep, SenderStep, ChannelStep, DeviceStep DEF Next, Finished, IInv
    <2> QED
      BY <2>2, <2>3
  <1> QED
    BY <1>1, InvInit, PTL DEF Spec

\* No rotation is committed before its load response was seen
\* (cert.py:145-155).
THEOREM CommitWaitsForAnswer == Spec => []CommitOnlyOnceSeen
  <1>1. IInv => CommitOnlyOnceSeen
    BY DEF IInv, FinalizeInv, CommitOnlyOnceSeen
  <1> QED
    BY <1>1, InductiveInvariant, PTL

\* The stream of a rotation ends behind the Finalize (cert.py:155-156).
THEOREM EndWaitsForFinalize == Spec => []StreamEndsBehindFinalize
  <1>1. IInv => StreamEndsBehindFinalize
    <2> SUFFICES ASSUME IInv, op = "rotate", halfClosed, devOpen, binding # "committed"
                 PROVE  \E i \in DOMAIN wire : wire[i] = "finalize"
      BY DEF StreamEndsBehindFinalize
    <2>1. wire = <<"finalize">>
      BY DEF IInv, EndInv, FinalizeSent
    <2>2. 1 \in DOMAIN wire /\ wire[1] = "finalize"
      BY <2>1
    <2> QED
      BY <2>2
  <1> QED
    BY <1>1, InductiveInvariant, PTL

\* A refused or failed RPC is never reported as done (cert.py:109-110,
\* 161-163).
THEOREM SuccessHasTheDevicesOk == Spec => []SuccessNotOverRefusedId
  <1>1. IInv => SuccessNotOverRefusedId
    BY DEF IInv, VerdictInv, SuccessNotOverRefusedId
  <1> QED
    BY <1>1, InductiveInvariant, PTL
-----------------------------------------------------------------------------
(***************************************************************************)
(* The refinement: each step is one of CertContract's or changes none of   *)
(* its variables.                                                          *)
(***************************************************************************)
LEMMA ContractInit == Init => Contract!Init
  BY DEF Init, Contract!Init, Ops, Ending, Acceptable

LEMMA MainMeetsContract == IInv /\ Main => [Contract!Next]_Contract!vars
  <1> SUFFICES ASSUME IInv, Main PROVE [Contract!Next]_Contract!vars
    OBVIOUS
  <1>1. UNCHANGED <<op, Acceptable, binding, answered, devOpen, Ending>>
    BY DEF Main, deviceVars, Acceptable, Ending
  <1>2. mpc \in {"first", "drain"} => outcome = "none"
    BY DEF IInv, VerdictInv
  <1>3. CASE FirstResponse
    <2>1. op = "rotate" /\ answered /\ ~loadSeen
      BY <1>3 DEF FirstResponse, IInv, TypeOK, Ops, AnswerInv
    <2> QED
      BY <1>1, <1>2, <1>3, <2>1 DEF FirstResponse, Contract!Next, Contract!Confirm
  <1>4. ASSUME mpc \in {"first", "drain"}, code = "OK", outcome' = "succeeded", UNCHANGED loadSeen
        PROVE  Contract!Next
    <2>1. Ending = "OK"
      BY <1>4 DEF IInv, VerdictInv, Ending
    <2> QED
      BY <1>1, <1>2, <1>4, <2>1 DEF Contract!Next, Contract!Report
  <1>5. CASE NoFirstResponse \/ DrainEnds
    BY <1>4, <1>5 DEF NoFirstResponse, DrainEnds, Return
  <1>6. CASE OnRpcError
    BY <1>1, <1>2, <1>6 DEF OnRpcError, RpcFails, Return, Contract!Next, Contract!Report
  <1>7. CASE DrainResponse \/ Disconnect
    BY <1>1, <1>7 DEF DrainResponse, Disconnect, mainVars, Contract!vars
  <1> QED
    BY <1>3, <1>5, <1>6, <1>7 DEF Main

LEMMA DeviceMeetsContract == IInv /\ Device => [Contract!Next]_Contract!vars
  <1> SUFFICES ASSUME IInv, Device PROVE [Contract!Next]_Contract!vars
    OBVIOUS
  <1>1. UNCHANGED <<op, Acceptable, loadSeen, outcome>>
    BY DEF Device, mainVars, Acceptable
  <1>0. DeviceReceive \/ DeviceAnswers => Ending = "none" /\ Ending' = "none"
    BY DEF DeviceReceive, DeviceAnswers, Ending
  <1>2. CASE DeviceReceive
    <2>1. CASE wire = <<"load">>
      <3>1. binding = "before" /\ ~answered
        BY <2>1 DEF IInv, LoadInv
      <3>2. binding' = IF Acceptable THEN "provisional" ELSE binding
        BY <1>2, <2>1, HeadsAndTails DEF DeviceReceive
      <3> QED
        BY <1>0, <1>1, <1>2, <3>1, <3>2 DEF DeviceReceive, Contract!vars, Contract!Next, Contract!Load
    <2>2. CASE wire = <<"finalize">>
      <3>1. loadSeen
        BY <2>2 DEF IInv, FinalizeInv
      <3>2. binding' = IF binding = "provisional" THEN "committed" ELSE binding
        BY <1>2, <2>2, HeadsAndTails DEF DeviceReceive
      <3> QED
        BY <1>0, <1>1, <1>2, <3>1, <3>2 DEF DeviceReceive, Contract!vars, Contract!Next, Contract!Commit
    <2> QED
      BY <1>2, <2>1, <2>2 DEF DeviceReceive, IInv, ShapeInv
  <1>3. CASE DeviceAnswers
    BY <1>0, <1>1, <1>3 DEF DeviceAnswers, Contract!Next, Contract!Validate
  <1>4. CASE DeviceCloses
    <2>1. status = "none" /\ devOpen /\ ~devOpen' /\ UNCHANGED answered
      BY <1>4 DEF DeviceCloses, IInv, VerdictInv
    <2>2. Ending = "none" /\ Ending' \in {"OK", "error", "lost"}
      BY <2>1 DEF Ending
    <2>3. Ending' = "OK" => Acceptable /\ binding # "before"
      <3> SUFFICES ASSUME Ending' = "OK" PROVE Acceptable /\ binding # "before"
        OBVIOUS
      <3>1. status' = "OK"
        BY <2>1 DEF Ending
      <3> QED
        BY <1>4, <2>1, <3>1 DEF DeviceCloses, IInv, VerdictInv
    <2>4. binding' \in {"before", binding} \ {"provisional"}
      BY <1>4 DEF DeviceCloses, LeftBound
    <2>5. Ending' = "OK" /\ binding = "committed" => binding' = "committed"
      BY <1>4, <2>1 DEF DeviceCloses, LeftBound, Ending
    <2>6. Ending' = "error" => binding' = "before"
      BY <1>4, <2>1 DEF DeviceCloses, LeftBound, Ending
    <2> QED
      BY <1>1, <2>1, <2>2, <2>3, <2>4, <2>5, <2>6 DEF Contract!Next, Contract!End
  <1> QED
    BY <1>2, <1>3, <1>4 DEF Device

\* Each handler, with its sender, stream and device, is one transaction
\* (cert.py:85-169).
THEOREM HandlersImplementContract == Spec => ImplementsContract
  <1>1. IInv /\ [Next]_vars => [Contract!Next]_Contract!vars
    <2>1. UNCHANGED <<op, loadSeen, outcome, exists, deviceVars>> => UNCHANGED Contract!vars
      BY DEF Contract!vars, deviceVars, Acceptable, Ending
    <2> QED
      BY <2>1, MainMeetsContract, DeviceMeetsContract
      DEF Next, Sender, Channel, Clock, ChannelFrame, Finished, vars, mainVars
  <1> QED
    BY <1>1, ContractInit, InductiveInvariant, PTL
    DEF Spec, ImplementsContract, Contract!Spec
=============================================================================
