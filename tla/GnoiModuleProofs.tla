-------------------------- MODULE GnoiModuleProofs --------------------------
(***************************************************************************)
(* Proofs about GnoiModule, for all sets of versions, certificates and     *)
(* platforms and any number of abandoned requests: the type invariant, the *)
(* inductive invariant of GnoiModuleInv, the safety properties of the run  *)
(* gnoi_module and the refinement of GnoiContract.                         *)
(***************************************************************************)
EXTENDS GnoiModuleInv, TLAPS

\* What the options of a task can be.
LEMMA TaskFacts ==
    ASSUME NEW t \in Tasks
    PROVE  /\ t.op \in Operations
           /\ t.args \in SUBSET (Versions \cup CertIds)
           /\ {t.flag, t.factoryOs, t.confirm, t.check, t.tofu} \subseteq BOOLEAN
           /\ t.op = "os/activate" => t.args \subseteq Versions
           /\ t.op = "cert/revoke" => t.args \subseteq CertIds
  BY DEF Tasks

\* The streaming tasks end in their argument checks.
LEMMA NoStreamRuns ==
    ASSUME NEW t \in Tasks, ~ArgumentsMissing(t)
    PROVE  t.op \notin Streaming
  BY DEF Tasks, Streaming, ArgumentsMissing, ImageMissing, MaterialMissing

\* An accepted request leaves versions, ids and a power state behind.
LEMMA AcceptTypes ==
    ASSUME TypeOK, NEW t \in Tasks, Accept(t)
    PROVE  /\ nextBoot' \in Versions
           /\ certs' \subseteq CertIds
           /\ power' \in {"up", "due", "down"}
  <1>1. CASE t.op = "os/activate"
    BY <1>1, TaskFacts DEF TypeOK, Accept, Activate
  <1>2. CASE t.op = "cert/revoke"
    BY <1>2 DEF TypeOK, Accept, Revoke
  <1>3. CASE t.op \notin {"os/activate", "cert/revoke"}
    BY <1>3, ConstantsAssumption DEF TypeOK, Accept, Reset
  <1> QED
    BY <1>1, <1>2, <1>3

LEMMA TypeInit == Init => TypeOK
  <1> SUFFICES ASSUME Init PROVE TypeOK
    OBVIOUS
  <1>1. reply \in [ok : BOOLEAN, value : SUBSET (Versions \cup CertIds)]
    BY DEF Init, NoReply
  <1>2. task \in Tasks
    BY PlaybookAssumption, Zenon DEF Init
  <1> QED
    BY <1>1, <1>2 DEF Init, TypeOK, Verdicts

LEMMA TypeModule == TypeOK /\ Module => TypeOK'
  <1> SUFFICES ASSUME TypeOK, Module PROVE TypeOK'
    OBVIOUS
  <1>0. NoReply \in [ok : BOOLEAN, value : SUBSET (Versions \cup CertIds)]
    BY DEF NoReply
  <1> USE <1>0 DEF TypeOK, Verdicts, Finish, deviceVars, historyVars
  <1>1. CASE Connect
    <2>1. contacted' \in BOOLEAN
      BY <1>1, TaskFacts DEF Connect
    <2> QED
      BY <1>1, <2>1 DEF Connect
  <1>2. CASE ConnectFails
    <2>1. contacted' \in BOOLEAN
      BY <1>2, TaskFacts, Zenon DEF ConnectFails
    <2> QED
      BY <1>2, <2>1 DEF ConnectFails
  <1>3. CASE DispatchRefuses
    BY <1>3 DEF DispatchRefuses
  <1>4. CASE CheckModeSkips
    BY <1>4 DEF CheckModeSkips
  <1>5. CASE CallHandler
    <2>1. CASE ArgumentsMissing(task)
      BY <1>5, <2>1 DEF CallHandler
    <2>2. CASE ~ArgumentsMissing(task)
      BY <1>5, <2>2 DEF CallHandler
    <2> QED
      BY <2>1, <2>2
  <1>6. CASE Leave
    <2>1. channel' \in BOOLEAN /\ phase' = "idle"
      BY <1>6 DEF Leave
    <2> QED
      BY <1>6, <2>1 DEF Leave
  <1>7. CASE VerifyMatches
    BY <1>7 DEF VerifyMatches
  <1>8. CASE VerifyDiffers
    BY <1>8 DEF VerifyDiffers
  <1>9. CASE VerifyFails
    BY <1>9 DEF VerifyFails
  <1>10. CASE CallReturns
    <2>1. VerdictOf(task.op, reply) \in Verdicts
      BY DEF VerdictOf, RevokeVerdict, ActivateVerdict, ResetVerdict
    <2> QED
      BY <1>10, <2>1 DEF CallReturns
  <1>11. CASE CallFails
    <2>1. abandoned' \subseteq Tasks
      BY <1>11 DEF CallFails, Abandon
    <2> QED
      BY <1>11, <2>1 DEF CallFails
  <1> QED
    BY <1>1, <1>2, <1>3, <1>4, <1>5, <1>6, <1>7, <1>8, <1>9, <1>10, <1>11
       DEF Module

LEMMA TypeDevice == TypeOK /\ Device => TypeOK'
  <1> SUFFICES ASSUME TypeOK, Device PROVE TypeOK'
    OBVIOUS
  <1>0. NoReply \in [ok : BOOLEAN, value : SUBSET (Versions \cup CertIds)]
    BY DEF NoReply
  <1> USE <1>0 DEF TypeOK, Verdicts, moduleVars, deviceVars, historyVars
  <1>1. CASE ServeRead
    BY <1>1 DEF ServeRead
  <1>2. CASE Serve
    <2>1. CASE Accept(task) /\ accepted' = TRUE /\ reply' = ReplyTo(task)
      <3>1. reply' \in [ok : BOOLEAN, value : SUBSET (Versions \cup CertIds)]
        BY <2>1, TaskFacts DEF ReplyTo
      <3>2. touched' \in BOOLEAN
        BY <1>2 DEF Serve
      <3> QED
        BY <1>2, <2>1, <3>1, <3>2, AcceptTypes DEF Serve
    <2>2. CASE reply' = NoReply /\ UNCHANGED <<nextBoot, certs, power, accepted>>
      BY <1>2, <2>2 DEF Serve
    <2> QED
      BY <1>2, <2>1, <2>2 DEF Serve
  <1>3. CASE ServeAbandoned
    BY <1>3, AcceptTypes DEF ServeAbandoned
  <1>4. CASE GoDown
    BY <1>4 DEF GoDown
  <1>5. CASE ComeUp
    BY <1>5 DEF ComeUp
  <1> QED
    BY <1>1, <1>2, <1>3, <1>4, <1>5 DEF Device

LEMMA TypeNext == TypeOK /\ [Next]_vars => TypeOK'
  <1> SUFFICES ASSUME TypeOK, [Next]_vars PROVE TypeOK'
    OBVIOUS
  <1>1. CASE StartTask
    BY <1>1, PlaybookAssumption DEF StartTask, TypeOK, Verdicts, deviceVars
  <1>2. CASE UNCHANGED vars
    BY <1>2 DEF vars, moduleVars, deviceVars, historyVars, TypeOK
  <1> QED
    BY <1>1, <1>2, TypeModule, TypeDevice DEF Next

\* TypeOK: every variable stays in its type, whatever the tasks ask for and
\* whatever the device accepts.
THEOREM TypeCorrect == Spec => []TypeOK
  <1> QED
    BY TypeInit, TypeNext, PTL DEF Spec

-----------------------------------------------------------------------------
(***************************************************************************)
(* The inductive invariant, one lemma per conjunct of IInv.                *)
(***************************************************************************)
LEMMA InitInvariant == Init => IInv
  <1> SUFFICES ASSUME Init PROVE IInv
    OBVIOUS
  <1>1. TypeOK
    BY TypeInit
  <1>2. PhaseInv
    BY DEF Init, PhaseInv
  <1>3. TouchInv
    BY DEF Init, TouchInv
  <1>4. ReplyInv
    BY DEF Init, ReplyInv
  <1>5. VerdictInv
    BY DEF Init, VerdictInv, AlreadyActiveRan
  <1>6. RunningInv
    BY DEF Init, RunningInv, ReactivatesOnlyUnverified
  <1>7. ContactInv
    BY DEF Init, ContactInv
  <1> QED
    BY <1>1, <1>2, <1>3, <1>4, <1>5, <1>6, <1>7 DEF IInv

\* What passed the gates of dispatch is registered, and licensed if it
\* changes the device.
LEMMA GatesLicense ==
    ASSUME NEW t \in Tasks, ~Refused(t), ~(t.check /\ t.op \in Mutating)
    PROVE  t.op \in Registered /\ (t.op \in Mutating => Licensed(t))
  BY DEF Refused, Licensed

LEMMA PhaseModule == IInv /\ Module => PhaseInv'
  <1> SUFFICES ASSUME IInv, Module PROVE PhaseInv'
    OBVIOUS
  <1> USE DEF IInv, PhaseInv, Finish, Licensed, ArgumentsMissing, VersionMissing, ImageMissing,
         IdsMissing, MaterialMissing
  <1>1. CASE Connect
    BY <1>1 DEF Connect
  <1>2. CASE ConnectFails
    BY <1>2 DEF ConnectFails
  <1>3. CASE DispatchRefuses
    BY <1>3 DEF DispatchRefuses
  <1>4. CASE CheckModeSkips
    BY <1>4 DEF CheckModeSkips
  <1>5. CASE CallHandler
    <2>1. CASE ArgumentsMissing(task)
      BY <1>5, <2>1 DEF CallHandler
    <2>2. CASE ~ArgumentsMissing(task)
      <3>1. task.op \in Registered /\ (task.op \in Mutating => Licensed(task))
        BY <1>5, GatesLicense DEF CallHandler, TypeOK
      <3> QED
        BY <1>5, <2>2, <3>1 DEF CallHandler
    <2> QED
      BY <2>1, <2>2
  <1>6. CASE Leave
    BY <1>6 DEF Leave
  <1>7. CASE VerifyMatches
    BY <1>7 DEF VerifyMatches
  <1>8. CASE VerifyDiffers
    BY <1>8 DEF VerifyDiffers
  <1>9. CASE VerifyFails
    BY <1>9 DEF VerifyFails
  <1>10. CASE CallReturns
    BY <1>10 DEF CallReturns
  <1>11. CASE CallFails
    BY <1>11 DEF CallFails
  <1> QED
    BY <1>1, <1>2, <1>3, <1>4, <1>5, <1>6, <1>7, <1>8, <1>9, <1>10, <1>11
       DEF Module

LEMMA PhaseDevice == IInv /\ Device => PhaseInv'
  <1> SUFFICES ASSUME IInv, Device PROVE PhaseInv'
    OBVIOUS
  <1> USE DEF IInv, PhaseInv, moduleVars, Licensed, ArgumentsMissing, VersionMissing, ImageMissing,
         IdsMissing, MaterialMissing
  <1>1. CASE ServeRead
    BY <1>1 DEF ServeRead
  <1>2. CASE Serve
    BY <1>2 DEF Serve
  <1>3. CASE ServeAbandoned
    BY <1>3 DEF ServeAbandoned
  <1>4. CASE GoDown
    BY <1>4 DEF GoDown
  <1>5. CASE ComeUp
    BY <1>5 DEF ComeUp
  <1> QED
    BY <1>1, <1>2, <1>3, <1>4, <1>5 DEF Device

LEMMA TouchModule == IInv /\ Module => TouchInv'
  <1> SUFFICES ASSUME IInv, Module PROVE TouchInv'
    OBVIOUS
  <1> USE DEF IInv, PhaseInv, TouchInv, Finish, historyVars, deviceVars
  <1>1. CASE Connect
    BY <1>1 DEF Connect, Licensed
  <1>2. CASE ConnectFails
    BY <1>2 DEF ConnectFails, Licensed
  <1>3. CASE DispatchRefuses
    BY <1>3 DEF DispatchRefuses, Licensed
  <1>4. CASE CheckModeSkips
    BY <1>4 DEF CheckModeSkips, Licensed
  <1>5. CASE CallHandler
    BY <1>5 DEF CallHandler, Licensed
  <1>6. CASE Leave
    BY <1>6 DEF Leave, Licensed
  <1>7. CASE VerifyMatches
    BY <1>7 DEF VerifyMatches, Licensed
  <1>8. CASE VerifyDiffers
    BY <1>8 DEF VerifyDiffers, Licensed
  <1>9. CASE VerifyFails
    BY <1>9 DEF VerifyFails, Licensed
  <1>10. CASE CallReturns
    BY <1>10 DEF CallReturns, Licensed
  <1>11. CASE CallFails
    <2>1. \A t \in abandoned' : Licensed(t) /\ ~ArgumentsMissing(t)
      BY <1>11 DEF CallFails, Abandon
    <2> QED
      BY <1>11, <2>1 DEF CallFails, Licensed
  <1> QED
    BY <1>1, <1>2, <1>3, <1>4, <1>5, <1>6, <1>7, <1>8, <1>9, <1>10, <1>11
       DEF Module

LEMMA TouchDevice == IInv /\ Device => TouchInv'
  <1> SUFFICES ASSUME IInv, Device PROVE TouchInv'
    OBVIOUS
  <1> USE DEF IInv, PhaseInv, TouchInv, moduleVars, historyVars, deviceVars
  <1>1. CASE ServeRead
    BY <1>1 DEF ServeRead, Licensed
  <1>2. CASE Serve
    <2>1. Licensed(task) /\ Licensed(task)' /\ phase' = "call" /\ call' = "answered"
      BY <1>2 DEF Serve, Licensed
    <2>2. ~touched /\ ~accepted
      BY <1>2 DEF Serve
    <2>3. touched' => accepted'
      BY <1>2, <2>2 DEF Serve
    <2> QED
      BY <1>2, <2>1, <2>3 DEF Serve
  <1>3. CASE ServeAbandoned
    BY <1>3 DEF ServeAbandoned, Licensed
  <1>4. CASE GoDown
    BY <1>4 DEF GoDown, Licensed
  <1>5. CASE ComeUp
    BY <1>5 DEF ComeUp, Licensed
  <1> QED
    BY <1>1, <1>2, <1>3, <1>4, <1>5 DEF Device

LEMMA ContactNext == IInv /\ (Module \/ Device) => ContactInv'
  <1> SUFFICES ASSUME IInv, Module \/ Device PROVE ContactInv'
    OBVIOUS
  <1> USE DEF IInv, ContactInv, Licensed, moduleVars, historyVars
  <1>1. CASE Connect
    BY <1>1 DEF Connect
  <1>2. CASE ConnectFails
    BY <1>2 DEF ConnectFails, Finish
  <1>3. CASE ServeRead \/ Serve
    BY <1>3 DEF ServeRead, Serve, PhaseInv
  <1>4. ASSUME UNCHANGED <<task, contacted>> PROVE ContactInv'
    BY <1>4
  <1>5. CASE DispatchRefuses \/ CheckModeSkips \/ CallHandler \/ Leave
    BY <1>4, <1>5 DEF DispatchRefuses, CheckModeSkips, CallHandler, Leave
  <1>6. CASE VerifyMatches \/ VerifyDiffers \/ VerifyFails \/ CallReturns \/ CallFails
    BY <1>4, <1>6 DEF VerifyMatches, VerifyDiffers, VerifyFails, CallReturns, CallFails
  <1>7. CASE ServeAbandoned \/ GoDown \/ ComeUp
    BY <1>4, <1>7 DEF ServeAbandoned, GoDown, ComeUp
  <1> QED
    BY <1>1, <1>2, <1>3, <1>5, <1>6, <1>7 DEF Module, Device

\* A revocation answered with no id removed none.
LEMMA EmptyRevocation ==
    ASSUME NEW t \in Tasks, t.op = "cert/revoke", Accept(t), ReplyTo(t).value = {}
    PROVE  UNCHANGED <<nextBoot, certs, power>>
  <1>1. PICK gone \in SUBSET t.args : certs' = certs \ gone
    BY DEF Accept, Revoke
  <1>2. t.args \subseteq certs'
    BY DEF ReplyTo
  <1>3. certs' = certs
    BY <1>1, <1>2
  <1> QED
    BY <1>3 DEF Accept, Revoke

LEMMA ReplyNext == IInv /\ (Module \/ Device) => ReplyInv'
  <1> SUFFICES ASSUME IInv, Module \/ Device PROVE ReplyInv'
    OBVIOUS
  <1> USE DEF IInv, ReplyInv, Finish, moduleVars, historyVars, deviceVars
  <1>1. CASE Connect \/ ConnectFails
    BY <1>1 DEF Connect, ConnectFails
  <1>2. CASE DispatchRefuses \/ CheckModeSkips \/ Leave
    BY <1>2 DEF DispatchRefuses, CheckModeSkips, Leave
  <1>3. CASE CallHandler
    <2>1. phase' \in {"call", "verify"} => call' = "waiting"
      BY <1>3 DEF CallHandler
    <2> QED
      BY <2>1
  <1>4. CASE VerifyMatches \/ VerifyDiffers \/ VerifyFails
    BY <1>4 DEF VerifyMatches, VerifyDiffers, VerifyFails
  <1>5. CASE CallReturns \/ CallFails
    BY <1>5 DEF CallReturns, CallFails
  <1>6. CASE ServeRead
    <2>1. CASE phase = "verify"
      <3>1. reply'.value = {running} /\ running' = running /\ running \in ran'
        BY <1>6, <2>1 DEF ServeRead, PhaseInv, RunningInv
      <3>2. phase' = "verify"
        BY <1>6, <2>1 DEF ServeRead
      <3> QED
        BY <3>1, <3>2
    <2>2. CASE phase = "call" /\ task.op \notin Mutating
      BY <1>6, <2>2 DEF ServeRead
    <2> QED
      BY <1>6, <2>1, <2>2 DEF ServeRead
  <1>7. CASE Serve
    <2>0. phase' = "call" /\ task' = task /\ task \in Tasks
      BY <1>7 DEF Serve, TypeOK
    <2>1. CASE Accept(task) /\ accepted' = TRUE /\ reply' = ReplyTo(task)
      <3>1. ASSUME task.op = "cert/revoke", reply'.value = {}
            PROVE  ~touched'
        <4>1. UNCHANGED <<nextBoot, certs, power>>
          BY <2>0, <2>1, <3>1, EmptyRevocation
        <4>2. ~touched
          BY <1>7 DEF Serve, TouchInv
        <4> QED
          BY <1>7, <4>1, <4>2 DEF Serve
      <3> QED
        BY <2>0, <2>1, <3>1
    <2>2. CASE reply' = NoReply /\ UNCHANGED <<nextBoot, certs, power, accepted>>
      <3>1. ~touched'
        BY <1>7, <2>2 DEF Serve, TouchInv
      <3> QED
        BY <2>0, <2>2, <3>1 DEF NoReply
    <2> QED
      BY <1>7, <2>1, <2>2 DEF Serve
  <1>8. CASE ServeAbandoned
    BY <1>8 DEF ServeAbandoned
  <1>9. CASE GoDown
    BY <1>9 DEF GoDown
  <1>10. CASE ComeUp
    BY <1>10 DEF ComeUp
  <1> QED
    BY <1>1, <1>2, <1>3, <1>4, <1>5, <1>6, <1>7, <1>8, <1>9, <1>10 DEF Module, Device

LEMMA VerdictNext == IInv /\ (Module \/ Device) => VerdictInv'
  <1> SUFFICES ASSUME IInv, Module \/ Device PROVE VerdictInv'
    OBVIOUS
  <1> USE DEF IInv, VerdictInv, AlreadyActiveRan, Finish,
              moduleVars, historyVars, deviceVars
  <1>1. CASE Connect \/ ConnectFails
    <2>1. CASE Connect
      BY <2>1 DEF Connect
    <2>2. CASE ConnectFails
      BY <2>2 DEF ConnectFails
    <2> QED
      BY <1>1, <2>1, <2>2
  <1>2. CASE DispatchRefuses \/ CheckModeSkips \/ Leave
    BY <1>2 DEF DispatchRefuses, CheckModeSkips, Leave
  <1>3. CASE CallHandler
    <2>1. CASE ArgumentsMissing(task)
      BY <1>3, <2>1 DEF CallHandler
    <2>2. CASE ~ArgumentsMissing(task)
      BY <1>3, <2>2 DEF CallHandler
    <2> QED
      BY <2>1, <2>2
  <1>4. CASE VerifyMatches
    <2>1. ~touched
      BY <1>4 DEF VerifyMatches, Received, TouchInv
    <2>2. \E v \in ran : task.args = {v}
      BY <1>4 DEF VerifyMatches, Received, ReplyInv
    <2> QED
      BY <1>4, <2>1, <2>2 DEF VerifyMatches
  <1>5. CASE VerifyDiffers \/ VerifyFails
    BY <1>5 DEF VerifyDiffers, VerifyFails
  <1>6. CASE CallReturns
    <2>1. phase = "call" /\ call = "answered" /\ verdict' = VerdictOf(task.op, reply)
      BY <1>6 DEF CallReturns, Received
    <2>0. task.op \notin Streaming
      BY <2>1, NoStreamRuns DEF PhaseInv, TypeOK
    <2>2. verdict' = "unchanged" => ~touched
      BY <2>0, <2>1 DEF VerdictOf, RevokeVerdict, ActivateVerdict, ResetVerdict, Mutating,
                  ReplyInv, TouchInv, Licensed
    <2>3. verdict' = "changed" => accepted
      <3>1. CASE task.op = "cert/revoke"
        BY <2>1, <3>1 DEF VerdictOf, RevokeVerdict, ActivateVerdict, ResetVerdict, Mutating,
                         ReplyInv
      <3>2. CASE task.op \in Mutating /\ task.op # "cert/revoke"
        BY <2>1, <3>2 DEF VerdictOf, RevokeVerdict, ActivateVerdict, ResetVerdict, Mutating,
                         ReplyInv
      <3>3. CASE task.op \notin Mutating
        BY <2>1, <3>3 DEF VerdictOf, RevokeVerdict, ActivateVerdict, ResetVerdict, Mutating
      <3> QED
        BY <3>1, <3>2, <3>3
    <2>4. verdict' \in {"unchanged", "changed", "failed"}
      <3>1. CASE task.op \in Mutating
        BY <2>1, <3>1 DEF VerdictOf, RevokeVerdict, ActivateVerdict, ResetVerdict, Mutating
      <3>2. CASE task.op \notin Mutating
        BY <2>1, <3>2 DEF VerdictOf, RevokeVerdict, ActivateVerdict, ResetVerdict, Mutating
      <3> QED
        BY <3>1, <3>2
    <2> QED
      BY <1>6, <2>2, <2>3, <2>4 DEF CallReturns
  <1>7. CASE CallFails
    BY <1>7 DEF CallFails
  <1>8. CASE ServeRead
    BY <1>8 DEF ServeRead
  <1>9. CASE Serve
    <2>1. verdict' = "none"
      BY <1>9 DEF Serve, PhaseInv
    <2> QED
      BY <2>1
  <1>10. CASE ServeAbandoned
    BY <1>10 DEF ServeAbandoned
  <1>11. CASE GoDown
    BY <1>11 DEF GoDown
  <1>12. CASE ComeUp
    BY <1>12 DEF ComeUp
  <1> QED
    BY <1>1, <1>2, <1>3, <1>4, <1>5, <1>6, <1>7, <1>8, <1>9, <1>10, <1>11, <1>12
       DEF Module, Device

LEMMA RunningNext == IInv /\ (Module \/ Device) => RunningInv'
  <1> SUFFICES ASSUME IInv, Module \/ Device PROVE RunningInv'
    OBVIOUS
  <1> USE DEF IInv, RunningInv, ReactivatesOnlyUnverified, Finish,
              moduleVars, historyVars, deviceVars
  <1>1. CASE Connect \/ ConnectFails
    BY <1>1 DEF Connect, ConnectFails
  <1>2. CASE DispatchRefuses \/ CheckModeSkips \/ Leave
    BY <1>2 DEF DispatchRefuses, CheckModeSkips, Leave
  <1>3. CASE CallHandler
    <2>1. task.op = "os/activate" => phase' # "call"
      BY <1>3 DEF CallHandler
    <2> QED
      BY <1>3, <2>1 DEF CallHandler
  <1>4. CASE VerifyMatches \/ VerifyFails
    BY <1>4 DEF VerifyMatches, VerifyFails
  <1>5. CASE VerifyDiffers
    <2>1. PICK v \in ran : reply.value = {v} /\ (v = running \/ booted)
      BY <1>5 DEF VerifyDiffers, Received, ReplyInv
    <2>2. task.args # {running} \/ booted
      BY <1>5, <2>1 DEF VerifyDiffers
    <2> QED
      BY <1>5, <2>2 DEF VerifyDiffers
  <1>6. CASE CallReturns \/ CallFails
    BY <1>6 DEF CallReturns, CallFails
  <1>7. CASE ServeRead
    <2>1. task.op = "os/activate" => phase # "call"
      BY <1>7 DEF ServeRead, Mutating
    <2> QED
      BY <1>7, <2>1 DEF ServeRead
  <1>8. CASE Serve
    BY <1>8 DEF Serve
  <1>9. CASE ServeAbandoned
    BY <1>9 DEF ServeAbandoned
  <1>10. CASE GoDown
    BY <1>10 DEF GoDown
  <1>11. CASE ComeUp
    BY <1>11 DEF ComeUp
  <1> QED
    BY <1>1, <1>2, <1>3, <1>4, <1>5, <1>6, <1>7, <1>8, <1>9, <1>10, <1>11
       DEF Module, Device

\* A new task starts with no call, no verdict and no history.
LEMMA StartInvariant == IInv /\ StartTask => IInv'
  <1> SUFFICES ASSUME IInv, StartTask PROVE IInv'
    OBVIOUS
  <1>1. TypeOK'
    BY TypeNext DEF IInv, Next
  <1> USE DEF IInv, StartTask, deviceVars
  <1>2. PhaseInv'
    BY DEF PhaseInv
  <1>3. TouchInv'
    BY DEF TouchInv, Licensed, ArgumentsMissing, VersionMissing, ImageMissing,
         IdsMissing, MaterialMissing
  <1>4. ReplyInv'
    BY DEF ReplyInv
  <1>5. VerdictInv'
    BY DEF VerdictInv, AlreadyActiveRan
  <1>6. RunningInv'
    BY DEF RunningInv, ReactivatesOnlyUnverified
  <1>7. ContactInv'
    BY DEF ContactInv
  <1> QED
    BY <1>1, <1>2, <1>3, <1>4, <1>5, <1>6, <1>7

LEMMA StutterInvariant == IInv /\ UNCHANGED vars => IInv'
  BY DEF IInv, TypeOK, PhaseInv, TouchInv, ContactInv, ReplyInv, VerdictInv, AlreadyActiveRan,
         RunningInv, ReactivatesOnlyUnverified, Licensed, ArgumentsMissing,
         VersionMissing, ImageMissing, IdsMissing, MaterialMissing,
         vars, moduleVars, deviceVars, historyVars

LEMMA NextInvariant == IInv /\ [Next]_vars => IInv'
  <1> SUFFICES ASSUME IInv, [Next]_vars PROVE IInv'
    OBVIOUS
  <1>1. CASE Module \/ Device
    <2>1. TypeOK'
      BY <1>1, TypeModule, TypeDevice DEF IInv
    <2>2. PhaseInv'
      BY <1>1, PhaseModule, PhaseDevice
    <2>3. TouchInv'
      BY <1>1, TouchModule, TouchDevice
    <2> QED
      BY <1>1, <2>1, <2>2, <2>3, ContactNext, ReplyNext, VerdictNext, RunningNext
         DEF IInv
  <1> QED
    BY <1>1, StartInvariant, StutterInvariant DEF Next

\* The strengthening holds in every reachable state.
THEOREM InductiveInvariant == Spec => []IInv
  <1> QED
    BY InitInvariant, NextInvariant, PTL DEF Spec

-----------------------------------------------------------------------------
(***************************************************************************)
(* The safety properties.                                                  *)
(***************************************************************************)
\* No gate of dispatch can be got round: check mode, unconfirmed and
\* read-only tasks never change the device, not even through a request that
\* outlives them, nor contact it but for its certificate (handler.py:91-105).
THEOREM OnlyLicensed == Spec => []OnlyLicensedTasksTouch
  <1>1. IInv => OnlyLicensedTasksTouch
    BY DEF IInv, TouchInv, ContactInv, OnlyLicensedTasksTouch
  <1> QED
    BY <1>1, InductiveInvariant, PTL

\* changed: false is true of the device (os.py:353-366, cert.py:203).
THEOREM UnchangedIsUntouched == Spec => []UnchangedMeansUntouched
  <1>1. IInv => UnchangedMeansUntouched
    BY DEF IInv, VerdictInv, UnchangedMeansUntouched
  <1> QED
    BY <1>1, InductiveInvariant, PTL

\* 'already_active' names a version that ran during the task (os.py:353-366).
THEOREM AlreadyActiveIsTrue == Spec => []AlreadyActiveRan
  <1>1. IInv => AlreadyActiveRan
    BY DEF IInv, VerdictInv
  <1> QED
    BY <1>1, InductiveInvariant, PTL

\* Activate is sent for the running version only behind a failed Verify or a
\* reboot (os.py:346-385).
THEOREM ActivatesOnlyWhatDiffers == Spec => []ReactivatesOnlyUnverified
  <1>1. IInv => ReactivatesOnlyUnverified
    BY DEF IInv, RunningInv
  <1> QED
    BY <1>1, InductiveInvariant, PTL

-----------------------------------------------------------------------------
(***************************************************************************)
(* The refinement: each step is one of GnoiContract's or changes none of   *)
(* its variables.                                                          *)
(***************************************************************************)
Stage == CASE phase \in {"idle", "leave"} -> "over"
           [] phase = "call" -> "cleared"
           [] OTHER -> "begun"
Seen  == IF phase = "verify" /\ call = "answered" THEN reply.value ELSE {}

LEMMA ContractInit == Init => Contract!Init
  <1> SUFFICES ASSUME Init PROVE Contract!Init
    OBVIOUS
  <1>1. task \in Tasks /\ certs \in SUBSET CertIds
    BY PlaybookAssumption, Zenon DEF Init
  <1>2. /\ phase = "idle" /\ call = "none" /\ verdict = "none" /\ abandoned = {}
        /\ warned = FALSE /\ accepted = FALSE /\ touched = FALSE
        /\ running \in Versions /\ nextBoot = running
    BY DEF Init
  <1> QED
    BY <1>1, <1>2 DEF Contract!Init

\* What the contract calls an operation that changes the device, and the
\* license for it, are the module's.
LEMMA SameLicense ==
    ASSUME NEW t
    PROVE  /\ Contract!Mutates(t) <=> t.op \in Mutating
           /\ Contract!Licensed(t) <=> Licensed(t)
  BY DEF Contract!Mutates, Contract!Licensed, Contract!Destroys, Licensed,
         Mutating, Streaming, Destructive

\* What the device does with a request it accepts is an effect of it.
LEMMA AcceptHasEffect ==
    ASSUME NEW t \in Tasks, Licensed(t), ~ArgumentsMissing(t), Accept(t)
    PROVE  Contract!Effect(t)
  <1>1. CASE t.op = "os/activate"
    BY <1>1 DEF Accept, Activate, Contract!Effect
  <1>2. CASE t.op = "cert/revoke"
    BY <1>2 DEF Accept, Revoke, Contract!Effect
  <1>3. CASE t.op = "factory_reset/start"
    BY <1>3 DEF Accept, Reset, Contract!Effect
  <1> QED
    BY <1>1, <1>2, <1>3, NoStreamRuns DEF Licensed, Mutating

LEMMA ModuleMeetsContract == IInv /\ Module => [Contract!Next]_Contract!vars
  <1> SUFFICES ASSUME IInv, Module PROVE [Contract!Next]_Contract!vars
    OBVIOUS
  <1>0. /\ task \in Tasks /\ touched \in BOOLEAN
        /\ UNCHANGED <<task, accepted, touched, running, nextBoot, certs>>
        /\ phase \in {"idle", "leave"} => phase' = "idle"
    BY DEF Module, Connect, ConnectFails, DispatchRefuses, CheckModeSkips, CallHandler, Leave,
       VerifyMatches, VerifyDiffers, VerifyFails, CallReturns, CallFails, deviceVars, historyVars,
       IInv, TypeOK
  <1> USE SameLicense DEF Finish, deviceVars, historyVars, Stage, Seen
  \* The report: seen and stage end with it.
  <1>r. ASSUME Stage # "over", phase' = "leave", UNCHANGED warned,
               \/ verdict' = "failed" /\ UNCHANGED abandoned
               \/ /\ verdict' = "failed" /\ Stage = "cleared" /\ Licensed(task) /\ ~accepted
                  /\ abandoned' = abandoned \cup {task}
               \/ verdict' = "skipped" /\ task.op \in Mutating /\ task.check /\ UNCHANGED abandoned
               \/ verdict' = "already_active" /\ task.op = "os/activate" /\ Seen = task.args
                  /\ UNCHANGED abandoned
               \/ verdict' = "unchanged" /\ Stage = "cleared" /\ ~touched /\ UNCHANGED abandoned
               \/ verdict' = "changed" /\ accepted /\ UNCHANGED abandoned
        PROVE  Contract!Report
    BY <1>0, <1>r DEF Contract!Report
  \* The operation is cleared.
  <1>c. ASSUME Stage = "begun", phase' = "call", task.op \in Mutating => Licensed(task),
               UNCHANGED <<verdict, abandoned>>,
               \/ task.op # "os/activate" /\ UNCHANGED warned
               \/ task.op = "os/activate" /\ Seen \notin {{}, task.args} /\ UNCHANGED warned
               \/ task.op = "os/activate" /\ warned' = TRUE
        PROVE  Contract!Clear
    BY <1>0, <1>c DEF Contract!Clear
  <1>n. Contract!Report \/ Contract!Clear => [Contract!Next]_Contract!vars
    BY DEF Contract!Next
  <1>1. CASE Connect
    BY <1>0, <1>1 DEF Connect, Contract!vars
  <1>2. CASE ConnectFails
    BY <1>2, <1>r, <1>n DEF ConnectFails
  <1>3. CASE DispatchRefuses
    BY <1>3, <1>r, <1>n DEF DispatchRefuses
  <1>4. CASE CheckModeSkips
    BY <1>4, <1>r, <1>n DEF CheckModeSkips
  <1>5. CASE CallHandler
    <2>1. CASE ArgumentsMissing(task)
      BY <1>5, <2>1, <1>r, <1>n DEF CallHandler
    <2>2. CASE ~ArgumentsMissing(task) /\ task.op = "os/activate"
      BY <1>0, <1>5, <2>2 DEF CallHandler, Contract!vars
    <2>3. CASE ~ArgumentsMissing(task) /\ task.op # "os/activate"
      <3>1. task.op \in Mutating => Licensed(task)
        BY <1>5 DEF CallHandler, Refused, Licensed
      <3> QED
        BY <1>5, <2>3, <3>1, <1>c, <1>n DEF CallHandler
    <2> QED
      BY <2>1, <2>2, <2>3
  <1>6. CASE Leave
    BY <1>0, <1>6 DEF Leave, Contract!vars
  <1>7. CASE VerifyMatches
    <2>1. task.op = "os/activate"
      BY <1>7 DEF VerifyMatches, IInv, PhaseInv
    <2> QED
      BY <1>7, <2>1, <1>r, <1>n DEF VerifyMatches, Received
  <1>8. CASE VerifyDiffers
    <2>1. task.op = "os/activate" /\ Licensed(task)
      BY <1>8 DEF VerifyDiffers, IInv, PhaseInv, Mutating
    <2>2. reply.value # {}
      BY <1>8 DEF VerifyDiffers, Received, IInv, ReplyInv
    <2> QED
      BY <1>8, <2>1, <2>2, <1>c, <1>n DEF VerifyDiffers, Received
  <1>9. CASE VerifyFails
    <2>1. task.op = "os/activate" /\ Licensed(task)
      BY <1>9 DEF VerifyFails, IInv, PhaseInv, Mutating
    <2> QED
      BY <1>9, <2>1, <1>c, <1>n DEF VerifyFails
  <1>10. CASE CallReturns
    <2> DEFINE v == VerdictOf(task.op, reply)
    <2>1. phase = "call" /\ call = "answered" /\ phase' = "leave" /\ verdict' = v
          /\ UNCHANGED <<warned, abandoned>>
      BY <1>10 DEF CallReturns, Received
    <2>2. \/ v = "failed"
          \/ v = "changed" /\ accepted
          \/ v = "unchanged" /\ ~touched
      <3>0. task.op \notin Streaming
        BY <2>1, NoStreamRuns DEF IInv, PhaseInv, TypeOK
      <3>1. CASE task.op \notin Mutating
        BY <3>1 DEF VerdictOf, Mutating, IInv, TouchInv, Licensed
      <3>2. CASE task.op = "cert/revoke"
        BY <2>1, <3>2 DEF VerdictOf, RevokeVerdict, Mutating, IInv, ReplyInv
      <3>3. CASE task.op \in {"os/activate", "factory_reset/start"}
        BY <2>1, <3>3 DEF VerdictOf, ActivateVerdict, ResetVerdict, Mutating, IInv, ReplyInv
      <3> QED
        BY <3>0, <3>1, <3>2, <3>3 DEF Mutating
    <2> HIDE DEF v
    <2> QED
      BY <2>1, <2>2, <1>r, <1>n
  <1>11. CASE CallFails
    <2>1. phase = "call" /\ phase' = "leave" /\ verdict' = "failed" /\ UNCHANGED warned
      BY <1>11 DEF CallFails
    <2>2. CASE UNCHANGED abandoned
      BY <2>1, <2>2, <1>r, <1>n
    <2>3. CASE abandoned' # abandoned
      <3>1. call = "waiting" /\ task.op \in Mutating /\ abandoned' = abandoned \cup {task}
        BY <1>11, <2>3 DEF CallFails, Abandon
      <3>2. Licensed(task) /\ ~accepted
        BY <2>1, <3>1 DEF IInv, PhaseInv, TouchInv
      <3> QED
        BY <2>1, <3>1, <3>2, <1>r, <1>n
    <2> QED
      BY <2>2, <2>3
  <1> QED
    BY <1>1, <1>2, <1>3, <1>4, <1>5, <1>6, <1>7, <1>8, <1>9, <1>10, <1>11 DEF Module

LEMMA DeviceMeetsContract == IInv /\ Device => [Contract!Next]_Contract!vars
  <1> SUFFICES ASSUME IInv, Device PROVE [Contract!Next]_Contract!vars
    OBVIOUS
  <1>0. task \in Tasks /\ touched \in BOOLEAN /\ (touched => accepted)
    BY DEF IInv, TypeOK, TouchInv
  <1> USE SameLicense DEF moduleVars, deviceVars, historyVars
  <1>1. CASE ServeRead
    <2>1. CASE phase = "verify"
      <3>1. task.op = "os/activate" /\ Licensed(task)
        BY <2>1 DEF IInv, PhaseInv, Mutating
      <3> QED
        BY <1>1, <2>1, <3>1 DEF ServeRead, Contract!Look, Contract!Next
    <2>2. CASE phase # "verify"
      BY <1>1, <2>2 DEF ServeRead, Contract!vars
    <2> QED
      BY <2>1, <2>2
  <1>2. CASE Serve
    <2>1. phase = "call" /\ Licensed(task) /\ ~ArgumentsMissing(task) /\ ~accepted /\ ~touched
      BY <1>0, <1>2 DEF Serve, IInv, PhaseInv, TouchInv
    <2>2. CASE Accept(task) /\ accepted' = TRUE
      <3>1. Contract!Effect(task)
        BY <1>0, <2>1, <2>2, AcceptHasEffect
      <3>2. touched' \in BOOLEAN /\ (<<nextBoot, certs>>' # <<nextBoot, certs>> => touched')
        BY <1>2 DEF Serve
      <3>3. UNCHANGED <<task, phase, verdict, warned, running, abandoned>>
        BY <1>2 DEF Serve
      <3> QED
        BY <2>1, <2>2, <3>1, <3>2, <3>3 DEF Contract!Operate, Contract!Next
    <2>3. CASE UNCHANGED <<nextBoot, certs, power, accepted>>
      <3>1. touched' = FALSE /\ touched = FALSE
        BY <1>0, <1>2, <2>1, <2>3 DEF Serve
      <3>2. /\ UNCHANGED <<task, phase, verdict, warned, running, abandoned>>
            /\ phase = "call"
        BY <1>2 DEF Serve
      <3> QED
        BY <2>3, <3>1, <3>2 DEF Contract!vars
    <2> QED
      BY <1>2, <2>2, <2>3 DEF Serve
  <1>3. CASE ServeAbandoned
    <2>1. PICK t \in abandoned : /\ abandoned' = abandoned \ {t}
                                 /\ Accept(t) \/ UNCHANGED <<nextBoot, certs, power>>
      BY <1>3 DEF ServeAbandoned
    <2>2. t \in Tasks /\ Licensed(t) /\ ~ArgumentsMissing(t)
      BY DEF IInv, TypeOK, TouchInv
    <2>3. Contract!Effect(t) \/ UNCHANGED <<nextBoot, certs>>
      BY <2>1, <2>2, AcceptHasEffect
    <2> QED
      BY <1>3, <2>1, <2>3 DEF ServeAbandoned, Contract!OperateLate, Contract!Next
  <1>4. CASE GoDown
    <2>1. call = "answered" <=> call' = "answered"
      BY <1>4 DEF GoDown
    <2> QED
      BY <1>4, <2>1 DEF GoDown, Contract!Forget, Contract!Next
  <1>5. CASE ComeUp
    BY <1>5 DEF ComeUp, Contract!Boot, Contract!Next
  <1> QED
    BY <1>1, <1>2, <1>3, <1>4, <1>5 DEF Device

\* A task of the playbook, with the device it runs against, is a sequence of
\* atomic steps in the promised order: look, be cleared, operate at most
\* once, report (handler.py:91-112, os.py:346-396, reset.py:55-74,
\* cert.py:196-203).
THEOREM TasksImplementContract == Spec => ImplementsContract
  <1>1. IInv /\ StartTask => [Contract!Next]_Contract!vars
    <2> SUFFICES ASSUME IInv, StartTask PROVE Contract!Next
      OBVIOUS
    <2>1. Contract!Start
      BY PlaybookAssumption DEF StartTask, deviceVars, Contract!Start
    <2> QED
      BY <2>1 DEF Contract!Next
  <1>2. UNCHANGED vars => UNCHANGED Contract!vars
    BY DEF vars, moduleVars, deviceVars, historyVars, Contract!vars
  <1>3. IInv /\ [Next]_vars => [Contract!Next]_Contract!vars
    BY <1>1, <1>2, ModuleMeetsContract, DeviceMeetsContract DEF Next
  <1> QED
    BY <1>3, ContractInit, InductiveInvariant, PTL DEF Spec, ImplementsContract, Contract!Spec
=============================================================================
