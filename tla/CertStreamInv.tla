---------------------------- MODULE CertStreamInv ----------------------------
(***************************************************************************)
(* The inductive invariant behind the theorems of CertStreamProofs: where  *)
(* the load, the Finalize and the end of the stream may be at each moment. *)
(***************************************************************************)
EXTENDS CertStream

Yielded(m) == spc = "yielded" /\ item = m

\* Every queue the two handlers produce, the trailing stops of the except
\* clauses included.
QueueShapes == {<<"load", "stop">>, <<"load">>, <<"finalize", "stop">>,
                <<"finalize", "stop", "stop">>, <<"stop", "stop">>, <<"stop">>, <<>>}

LoadQueued == queue \in {<<"load", "stop">>, <<"load">>}
FinalizeQueued == queue \in {<<"finalize", "stop">>, <<"finalize", "stop", "stop">>}
StopNext == queue \in {<<"stop", "stop">>, <<"stop">>}

ShapeInv ==
    /\ queue \in QueueShapes
    /\ op = "install" => queue \in {<<"load", "stop">>, <<"stop">>, <<>>}
    /\ op = "rotate" /\ mpc = "first" => queue \in {<<"load">>, <<>>}
    /\ op = "rotate" /\ mpc = "drain" => queue \in {<<"finalize", "stop">>, <<"stop">>, <<>>}
    /\ wire \in {<<>>, <<"load">>, <<"finalize">>}
    /\ spc = "yielded" => item # "stop"

\* The load is in one place and reaches the device once.
LoadInv ==
    /\ LoadQueued => spc = "get" /\ wire = <<>> /\ binding = "before" /\ ~answered
    /\ Yielded("load") => wire = <<>> /\ binding = "before" /\ ~answered
    /\ wire = <<"load">> => binding = "before" /\ ~answered
    /\ Yielded("load") \/ wire = <<"load">> => ~FinalizeQueued /\ ~Yielded("finalize")

\* The answer, and what the client makes of it.
AnswerInv ==
    /\ loadSeen => answered
    /\ resp # <<>> => answered
    /\ answered /\ devOpen => binding # "before"
    /\ op = "rotate" => (mpc = "first" => ~loadSeen) /\ (mpc = "drain" => loadSeen)
    /\ op = "install" => mpc # "first" /\ ~loadSeen

\* Only a rotation whose load was seen has a Finalize.
FinalizeInv ==
    /\ FinalizeQueued \/ Yielded("finalize") \/ wire = <<"finalize">> =>
          loadSeen /\ op = "rotate"
    /\ FinalizeQueued => wire = <<>> /\ binding # "committed"
    /\ Yielded("finalize") => wire = <<>> /\ binding # "committed" /\ ~FinalizeQueued
    /\ wire = <<"finalize">> => (devOpen => binding = "provisional") /\ ~FinalizeQueued
    /\ op = "rotate" /\ binding = "committed" => loadSeen

FinalizeSent == binding = "committed" \/ wire = <<"finalize">>

\* While the RPC is open the end of a rotation is behind its Finalize.
EndInv ==
    /\ op = "rotate" /\ code = "none" =>
          /\ ~loadSeen => queue \in {<<>>, <<"load">>} /\ spc \in {"get", "yielded", "sent"}
          /\ StopNext /\ ~Yielded("finalize") /\ devOpen => FinalizeSent
          /\ spc = "returning" /\ devOpen => FinalizeSent
          /\ queue = <<>> /\ loadSeen => spc \in {"returning", "stopped"}
          /\ FinalizeQueued => spc \in {"get", "sent"}
    /\ op = "rotate" /\ halfClosed /\ devOpen => FinalizeSent

\* A success rests on the status of the device.
VerdictInv ==
    /\ code = "OK" => status = "OK"
    /\ binding # "before" => Acceptable
    /\ status = "OK" => Acceptable
    /\ status # "none" => ~devOpen
    /\ outcome = "succeeded" => status = "OK"
    /\ outcome = "none" <=> mpc \in {"first", "drain"}
    /\ code = "none" => outcome = "none"

IInv ==
    /\ TypeOK /\ ShapeInv /\ LoadInv /\ AnswerInv /\ FinalizeInv /\ EndInv
    /\ VerdictInv
=============================================================================
