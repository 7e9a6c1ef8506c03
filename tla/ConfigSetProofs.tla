-------------------------- MODULE ConfigSetProofs --------------------------
(***************************************************************************)
(* Proofs about ConfigSet, for all configurations and any number of        *)
(* abandoned Sets: the type invariant, the inductive invariant of          *)
(* ConfigSetInv, the safety properties of the run config_set and the       *)
(* refinement of ConfigContract.                                           *)
(***************************************************************************)
EXTENDS ConfigSetInv, TLAPS

\* What the parameters of a task can be.
LEMMA TaskFacts ==
    ASSUME NEW t \in Tasks
    PROVE  /\ t.items \in {"none", "some", "invalid"}
           /\ t.want \in Values /\ t.origin \in Origins
           /\ t.backup \in BOOLEAN /\ t.diff \in BOOLEAN /\ t.check \in BOOLEAN
           /\ SetRequest(t) \in SetRequests
  BY DEF Tasks, SetRequest, SetRequests

\* execute_set goes on with an RPC the task wants, or leaves.
LEMMA Steps ==
    ASSUME NEW t \in Tasks
    PROVE  /\ FirstStep(t) \in {"backup", "before", "set", "leave"}
           /\ FirstStep(t) = "backup" <=> WantsBackup(t)
           /\ FirstStep(t) # "backup" => FirstStep(t) = AfterBackup(t)
           /\ AfterBackup(t) \in {"before", "set", "leave"}
           /\ AfterBackup(t) = "before" => WantsDiff(t)
           /\ AfterBackup(t) = "set" => ~t.check
           /\ AfterBefore(t) \in {"set", "leave"}
           /\ AfterBefore(t) = "set" <=> ~t.check
           /\ AfterBackup(t) = "leave" => t.check
           /\ AfterSet(t) \in {"after", "leave"}
           /\ AfterSet(t) = "after" <=> WantsDiff(t)
           /\ Reports(t) \in {"changed", "skipped"}
           /\ Reports(t) = "changed" <=> ~t.check
           /\ WantsBackup(t) => ~t.check /\ t.items = "some"
           /\ WantsDiff(t) => t.items = "some"
  BY TaskFacts DEF FirstStep, AfterBackup, AfterBefore, AfterSet, Reports, WantsBackup, WantsDiff

\* One SetRequest leaves a configuration behind.
LEMMA AppliedType ==
    ASSUME NEW r \in SetRequests, config \in [Origins -> Values]
    PROVE  Applied(r) \in [Origins -> Values]
  BY DEF Applied, SetRequests

\* The history of the current task holds configurations and no other thing.
LEMMA RecordType ==
    ASSUME TypeOK, Record, config' \in [Origins -> Values]
    PROVE  heldBefore' \in [Origins -> SUBSET Values] /\ heldAfter' \subseteq Values
  <1>1. "default" \in Origins
    BY DEF Origins
  <1> QED
    BY <1>1 DEF Record, TypeOK

LEMMA TypeInit == Init => TypeOK
  <1> SUFFICES ASSUME Init PROVE TypeOK
    OBVIOUS
  <1>1. task \in Tasks
    BY Zenon DEF Init
  <1>2. heldBefore \in [Origins -> SUBSET Values]
    BY DEF Init
  <1> QED
    BY <1>1, <1>2 DEF Init, TypeOK, Snapshots

LEMMA TypeModule == TypeOK /\ Module => TypeOK'
  <1> SUFFICES ASSUME TypeOK, Module PROVE TypeOK'
    OBVIOUS
  <1> USE Steps DEF TypeOK, Snapshots, Proceed, Fail, historyVars
  <1>1. CASE Begin
    BY <1>1 DEF Begin
  <1>2. CASE BeginFails
    BY <1>2 DEF BeginFails
  <1>3. CASE BackupWritten
    BY <1>3 DEF BackupWritten
  <1>4. CASE BackupFails
    BY <1>4 DEF BackupFails
  <1>5. CASE TakeBefore
    BY <1>5 DEF TakeBefore
  <1>6. CASE SetReturns
    BY <1>6 DEF SetReturns
  <1>7. CASE SetFails
    <2>1. abandoned' \subseteq SetRequests
      BY <1>7, TaskFacts DEF SetFails, Abandon
    <2> QED
      BY <1>7, <2>1 DEF SetFails
  <1>8. CASE TakeAfter
    BY <1>8 DEF TakeAfter
  <1>9. CASE Leave
    BY <1>9 DEF Leave
  <1> QED
    BY <1>1, <1>2, <1>3, <1>4, <1>5, <1>6, <1>7, <1>8, <1>9 DEF Module

LEMMA TypeDevice == TypeOK /\ Device => TypeOK'
  <1> SUFFICES ASSUME TypeOK, Device PROVE TypeOK'
    OBVIOUS
  <1>0. "default" \in Origins
    BY DEF Origins
  <1>1. CASE ServeGet
    BY <1>0, <1>1 DEF ServeGet, TypeOK, Snapshots, moduleVars, historyVars
  <1>2. CASE ServeSet
    <2>1. config' \in [Origins -> Values]
      BY <1>2, TaskFacts, AppliedType DEF ServeSet, TypeOK
    <2> QED
      BY <1>0, <1>2, <2>1 DEF ServeSet, TypeOK, moduleVars
  <1>3. CASE ServeAbandoned
    <2>1. config' \in [Origins -> Values] /\ abandoned' \subseteq SetRequests
      BY <1>3, AppliedType DEF ServeAbandoned, TypeOK
    <2>2. heldBefore' \in [Origins -> SUBSET Values] /\ heldAfter' \subseteq Values
      BY <1>3, <2>1, RecordType DEF ServeAbandoned
    <2> QED
      BY <1>3, <2>1, <2>2 DEF ServeAbandoned, TypeOK, moduleVars
  <1>4. CASE OtherClient
    <2>1. config' \in [Origins -> Values]
      BY <1>4 DEF OtherClient, TypeOK
    <2>2. heldBefore' \in [Origins -> SUBSET Values] /\ heldAfter' \subseteq Values
      BY <1>4, <2>1, RecordType DEF OtherClient
    <2> QED
      BY <1>4, <2>1, <2>2 DEF OtherClient, TypeOK, moduleVars
  <1> QED
    BY <1>1, <1>2, <1>3, <1>4 DEF Device

LEMMA TypeNext == TypeOK /\ [Next]_vars => TypeOK'
  <1> SUFFICES ASSUME TypeOK, [Next]_vars PROVE TypeOK'
    OBVIOUS
  <1>1. CASE StartTask
    <2>1. heldBefore' \in [Origins -> SUBSET Values]
      BY <1>1 DEF StartTask, TypeOK
    <2> QED
      BY <1>1, <2>1 DEF StartTask, TypeOK, Snapshots
  <1>2. CASE UNCHANGED vars
    BY <1>2 DEF vars, moduleVars, historyVars, TypeOK
  <1> QED
    BY <1>1, <1>2, TypeModule, TypeDevice DEF Next

\* TypeOK: every variable stays in its type, whatever the tasks ask for and
\* whoever else configures the device.
THEOREM TypeCorrect == Spec => []TypeOK
  <1> QED
    BY TypeInit, TypeNext, PTL DEF Spec

-----------------------------------------------------------------------------
LEMMA InvInit == Init => IInv
  <1> SUFFICES ASSUME Init PROVE IInv
    OBVIOUS
  <1> QED
    BY TypeInit DEF Init, IInv, PhaseInv, AcceptInv, HistoryInv, ReadInv,
       BackupInv, BackupIsPreChange, FreshInv

LEMMA BeginKeeps == IInv /\ Begin => IInv'
  <1> SUFFICES ASSUME IInv, Begin PROVE IInv'
    OBVIOUS
  <1>0. TypeOK'
    BY TypeModule DEF IInv, Module
  <1> USE Steps DEF IInv, TypeOK, Begin, Proceed, Fail, historyVars
  <1>1. PhaseInv'
    BY DEF PhaseInv
  <1>2. AcceptInv'
    BY DEF AcceptInv, PhaseInv
  <1>3. HistoryInv'
    BY DEF HistoryInv, PhaseInv, AcceptInv
  <1>4. ReadInv'
    BY DEF ReadInv, PhaseInv, AcceptInv, Snapshot, Snapshots
  <1>5. BackupInv'
    BY DEF BackupInv, BackupIsPreChange, ReadInv, PhaseInv, AcceptInv
  <1>6. FreshInv'
    BY DEF FreshInv, PhaseInv
  <1> QED
    BY <1>0, <1>1, <1>2, <1>3, <1>4, <1>5, <1>6 DEF IInv

LEMMA BeginFailsKeeps == IInv /\ BeginFails => IInv'
  <1> SUFFICES ASSUME IInv, BeginFails PROVE IInv'
    OBVIOUS
  <1>0. TypeOK'
    BY TypeModule DEF IInv, Module
  <1> USE Steps DEF IInv, TypeOK, BeginFails, Proceed, Fail, historyVars
  <1>1. PhaseInv'
    BY DEF PhaseInv
  <1>2. AcceptInv'
    BY DEF AcceptInv, PhaseInv
  <1>3. HistoryInv'
    BY DEF HistoryInv, PhaseInv, AcceptInv
  <1>4. ReadInv'
    BY DEF ReadInv, PhaseInv, AcceptInv, Snapshot, Snapshots
  <1>5. BackupInv'
    BY DEF BackupInv, BackupIsPreChange, ReadInv, PhaseInv, AcceptInv
  <1>6. FreshInv'
    BY DEF FreshInv, PhaseInv
  <1> QED
    BY <1>0, <1>1, <1>2, <1>3, <1>4, <1>5, <1>6 DEF IInv

LEMMA BackupWrittenKeeps == IInv /\ BackupWritten => IInv'
  <1> SUFFICES ASSUME IInv, BackupWritten PROVE IInv'
    OBVIOUS
  <1>0. TypeOK'
    BY TypeModule DEF IInv, Module
  <1> USE Steps DEF IInv, TypeOK, BackupWritten, Proceed, Fail, historyVars
  <1>1. PhaseInv'
    BY DEF PhaseInv
  <1>2. AcceptInv'
    BY DEF AcceptInv, PhaseInv
  <1>3. HistoryInv'
    BY DEF HistoryInv, PhaseInv, AcceptInv
  <1>4. ReadInv'
    BY DEF ReadInv, PhaseInv, AcceptInv, Snapshot, Snapshots
  <1>5. BackupInv'
    BY DEF BackupInv, BackupIsPreChange, ReadInv, PhaseInv, AcceptInv
  <1>6. FreshInv'
    BY DEF FreshInv, PhaseInv
  <1> QED
    BY <1>0, <1>1, <1>2, <1>3, <1>4, <1>5, <1>6 DEF IInv

LEMMA BackupFailsKeeps == IInv /\ BackupFails => IInv'
  <1> SUFFICES ASSUME IInv, BackupFails PROVE IInv'
    OBVIOUS
  <1>0. TypeOK'
    BY TypeModule DEF IInv, Module
  <1> USE Steps DEF IInv, TypeOK, BackupFails, Proceed, Fail, historyVars
  <1>1. PhaseInv'
    BY DEF PhaseInv
  <1>2. AcceptInv'
    BY DEF AcceptInv, PhaseInv
  <1>3. HistoryInv'
    BY DEF HistoryInv, PhaseInv, AcceptInv
  <1>4. ReadInv'
    BY DEF ReadInv, PhaseInv, AcceptInv, Snapshot, Snapshots
  <1>5. BackupInv'
    BY DEF BackupInv, BackupIsPreChange, ReadInv, PhaseInv, AcceptInv
  <1>6. FreshInv'
    BY DEF FreshInv, PhaseInv
  <1> QED
    BY <1>0, <1>1, <1>2, <1>3, <1>4, <1>5, <1>6 DEF IInv

LEMMA TakeBeforeKeeps == IInv /\ TakeBefore => IInv'
  <1> SUFFICES ASSUME IInv, TakeBefore PROVE IInv'
    OBVIOUS
  <1>0. TypeOK'
    BY TypeModule DEF IInv, Module
  <1> USE Steps DEF IInv, TypeOK, TakeBefore, Proceed, Fail, historyVars
  <1>1. PhaseInv'
    BY DEF PhaseInv
  <1>2. AcceptInv'
    BY DEF AcceptInv, PhaseInv
  <1>3. HistoryInv'
    BY DEF HistoryInv, PhaseInv, AcceptInv
  <1>4. ReadInv'
    BY DEF ReadInv, PhaseInv, AcceptInv, Snapshot, Snapshots
  <1>5. BackupInv'
    BY DEF BackupInv, BackupIsPreChange, ReadInv, PhaseInv, AcceptInv
  <1>6. FreshInv'
    BY DEF FreshInv, PhaseInv
  <1> QED
    BY <1>0, <1>1, <1>2, <1>3, <1>4, <1>5, <1>6 DEF IInv

LEMMA SetReturnsKeeps == IInv /\ SetReturns => IInv'
  <1> SUFFICES ASSUME IInv, SetReturns PROVE IInv'
    OBVIOUS
  <1>0. TypeOK'
    BY TypeModule DEF IInv, Module
  <1> USE Steps DEF IInv, TypeOK, SetReturns, Proceed, Fail, historyVars
  <1>1. PhaseInv'
    BY DEF PhaseInv
  <1>2. AcceptInv'
    BY DEF AcceptInv, PhaseInv
  <1>3. HistoryInv'
    BY DEF HistoryInv, PhaseInv, AcceptInv
  <1>4. ReadInv'
    BY DEF ReadInv, PhaseInv, AcceptInv, Snapshot, Snapshots
  <1>5. BackupInv'
    BY DEF BackupInv, BackupIsPreChange, ReadInv, PhaseInv, AcceptInv
  <1>6. FreshInv'
    BY DEF FreshInv, PhaseInv
  <1> QED
    BY <1>0, <1>1, <1>2, <1>3, <1>4, <1>5, <1>6 DEF IInv

LEMMA SetFailsKeeps == IInv /\ SetFails => IInv'
  <1> SUFFICES ASSUME IInv, SetFails PROVE IInv'
    OBVIOUS
  <1>0. TypeOK'
    BY TypeModule DEF IInv, Module
  <1> USE Steps DEF IInv, TypeOK, SetFails, Proceed, Fail, historyVars
  <1>1. PhaseInv'
    BY DEF PhaseInv
  <1>2. AcceptInv'
    BY DEF AcceptInv, PhaseInv, Abandon, SetRequest
  <1>3. HistoryInv'
    BY DEF HistoryInv, PhaseInv, AcceptInv
  <1>4. ReadInv'
    BY DEF ReadInv, PhaseInv, AcceptInv, Snapshot, Snapshots
  <1>5. BackupInv'
    BY DEF BackupInv, BackupIsPreChange, ReadInv, PhaseInv, AcceptInv
  <1>6. FreshInv'
    BY DEF FreshInv, PhaseInv
  <1> QED
    BY <1>0, <1>1, <1>2, <1>3, <1>4, <1>5, <1>6 DEF IInv

LEMMA TakeAfterKeeps == IInv /\ TakeAfter => IInv'
  <1> SUFFICES ASSUME IInv, TakeAfter PROVE IInv'
    OBVIOUS
  <1>0. TypeOK'
    BY TypeModule DEF IInv, Module
  <1> USE Steps DEF IInv, TypeOK, TakeAfter, Proceed, Fail, historyVars
  <1>1. PhaseInv'
    BY DEF PhaseInv
  <1>2. AcceptInv'
    BY DEF AcceptInv, PhaseInv
  <1>3. HistoryInv'
    BY DEF HistoryInv, PhaseInv, AcceptInv
  <1>4. ReadInv'
    BY DEF ReadInv, PhaseInv, AcceptInv, Snapshot, Snapshots
  <1>5. BackupInv'
    BY DEF BackupInv, BackupIsPreChange, ReadInv, PhaseInv, AcceptInv
  <1>6. FreshInv'
    BY DEF FreshInv, PhaseInv
  <1> QED
    BY <1>0, <1>1, <1>2, <1>3, <1>4, <1>5, <1>6 DEF IInv

LEMMA LeaveKeeps == IInv /\ Leave => IInv'
  <1> SUFFICES ASSUME IInv, Leave PROVE IInv'
    OBVIOUS
  <1>0. TypeOK'
    BY TypeModule DEF IInv, Module
  <1> USE Steps DEF IInv, TypeOK, Leave, Proceed, Fail, historyVars
  <1>1. PhaseInv'
    BY DEF PhaseInv
  <1>2. AcceptInv'
    BY DEF AcceptInv, PhaseInv
  <1>3. HistoryInv'
    BY DEF HistoryInv, PhaseInv, AcceptInv
  <1>4. ReadInv'
    BY DEF ReadInv, PhaseInv, AcceptInv, Snapshot, Snapshots
  <1>5. BackupInv'
    BY DEF BackupInv, BackupIsPreChange, ReadInv, PhaseInv, AcceptInv
  <1>6. FreshInv'
    BY DEF FreshInv, PhaseInv
  <1> QED
    BY <1>0, <1>1, <1>2, <1>3, <1>4, <1>5, <1>6 DEF IInv

LEMMA ModuleKeeps == IInv /\ Module => IInv'
  <1> QED
    BY BeginKeeps, BeginFailsKeeps, BackupWrittenKeeps, BackupFailsKeeps, TakeBeforeKeeps,
       SetReturnsKeeps, SetFailsKeeps, TakeAfterKeeps, LeaveKeeps DEF Module

LEMMA ServeGetKeeps == IInv /\ ServeGet => IInv'
  <1> SUFFICES ASSUME IInv, ServeGet PROVE IInv'
    OBVIOUS
  <1>0. TypeOK'
    BY TypeDevice DEF IInv, Device
  <1> USE DEF IInv, TypeOK, ServeGet, moduleVars, historyVars
  <1>1. PhaseInv'
    BY DEF PhaseInv
  <1>2. AcceptInv'
    BY DEF AcceptInv
  <1>3. HistoryInv'
    BY DEF HistoryInv
  <1>4. ReadInv'
    BY DEF ReadInv, HistoryInv, AcceptInv, Origins
  <1>5. BackupInv'
    BY DEF BackupInv, BackupIsPreChange
  <1>6. FreshInv'
    BY DEF FreshInv
  <1> QED
    BY <1>0, <1>1, <1>2, <1>3, <1>4, <1>5, <1>6 DEF IInv

LEMMA ServeSetKeeps == IInv /\ ServeSet => IInv'
  <1> SUFFICES ASSUME IInv, ServeSet PROVE IInv'
    OBVIOUS
  <1>0. TypeOK'
    BY TypeDevice DEF IInv, Device
  <1> USE DEF IInv, TypeOK, ServeSet, moduleVars
  <1>a. ~accepted
    BY DEF AcceptInv
  <1>1. PhaseInv'
    BY DEF PhaseInv
  <1>2. AcceptInv'
    BY DEF AcceptInv, PhaseInv
  <1>3. HistoryInv'
    BY DEF HistoryInv
  <1>4. ReadInv'
    BY <1>a DEF ReadInv, AcceptInv
  <1>5. BackupInv'
    BY DEF BackupInv, BackupIsPreChange
  <1>6. FreshInv'
    BY DEF FreshInv
  <1> QED
    BY <1>0, <1>1, <1>2, <1>3, <1>4, <1>5, <1>6 DEF IInv

\* A change of the configuration from elsewhere, recorded by the history.
LEMMA RecordKeeps ==
    ASSUME IInv, Record, config' \in [Origins -> Values], TypeOK',
           UNCHANGED <<moduleVars, call, reply, file, accepted>>,
           abandoned' \subseteq abandoned
    PROVE  IInv'
  <1> USE DEF moduleVars
  <1>d. "default" \in Origins
    BY DEF Origins
  <1>1. PhaseInv'
    BY DEF IInv, PhaseInv
  <1>2. AcceptInv'
    BY DEF IInv, AcceptInv
  <1>3. HistoryInv'
    BY <1>d DEF IInv, HistoryInv, Record, TypeOK
  <1>h. /\ heldAfter \subseteq heldAfter'
        /\ heldBefore["default"] \subseteq heldBefore'["default"]
    BY <1>d DEF Record, IInv, TypeOK
  <1>4. ReadInv'
    BY <1>h DEF IInv, ReadInv
  <1>5. BackupInv'
    BY <1>h DEF IInv, BackupInv, BackupIsPreChange
  <1>6. FreshInv'
    BY DEF IInv, FreshInv
  <1> QED
    BY <1>1, <1>2, <1>3, <1>4, <1>5, <1>6 DEF IInv

LEMMA DeviceKeeps == IInv /\ Device => IInv'
  <1> SUFFICES ASSUME IInv, Device PROVE IInv'
    OBVIOUS
  <1>0. TypeOK'
    BY TypeDevice DEF IInv
  <1>1. CASE ServeAbandoned
    BY <1>0, <1>1, RecordKeeps DEF ServeAbandoned, TypeOK
  <1>2. CASE OtherClient
    BY <1>0, <1>2, RecordKeeps DEF OtherClient, TypeOK
  <1> QED
    BY <1>1, <1>2, ServeGetKeeps, ServeSetKeeps DEF Device

LEMMA StartTaskKeeps == IInv /\ StartTask => IInv'
  <1> SUFFICES ASSUME IInv, StartTask PROVE IInv'
    OBVIOUS
  <1>0. TypeOK'
    BY TypeNext DEF IInv, Next
  <1> QED
    BY <1>0 DEF IInv, TypeOK, StartTask, PhaseInv, AcceptInv, HistoryInv, ReadInv,
       BackupInv, BackupIsPreChange, FreshInv

LEMMA InvNext == IInv /\ [Next]_vars => IInv'
  <1> SUFFICES ASSUME IInv, [Next]_vars PROVE IInv'
    OBVIOUS
  <1>1. CASE UNCHANGED vars
    BY <1>1, TypeNext DEF vars, moduleVars, historyVars, IInv, PhaseInv, AcceptInv,
       HistoryInv, ReadInv, BackupInv, BackupIsPreChange, FreshInv
  <1> QED
    BY <1>1, StartTaskKeeps, ModuleKeeps, DeviceKeeps DEF Next

\* IInv is inductive: it holds in every reachable state.
THEOREM InductiveInvariant == Spec => []IInv
  <1> QED
    BY InvInit, InvNext, PTL DEF Spec

-----------------------------------------------------------------------------
\* BackupIsPreChange: a backup the result names holds a configuration from
\* before the change, whoever else configures the device between the RPCs.
THEOREM BackupPrecedesTheChange == Spec => []BackupIsPreChange
  <1>1. IInv => BackupIsPreChange
    BY DEF IInv, BackupInv
  <1> QED
    BY <1>1, InductiveInvariant, PTL

\* NoEffectInCheckMode: check mode and malformed items change neither the
\* device nor the disk, not even through a request that outlives its task.
THEOREM CheckModeIsHarmless == Spec => []NoEffectInCheckMode
  <1>1. IInv => NoEffectInCheckMode
    BY DEF IInv, AcceptInv, BackupInv, NoEffectInCheckMode
  <1> QED
    BY <1>1, InductiveInvariant, PTL

\* DiffBracketsTheSet: changed: true is said of an accepted Set, with before
\* configured ahead of it and after behind it.
THEOREM DiffIsAroundTheSet == Spec => []DiffBracketsTheSet
  <1>1. IInv => DiffBracketsTheSet
    BY DEF IInv, AcceptInv, ReadInv, DiffBracketsTheSet
  <1> QED
    BY <1>1, InductiveInvariant, PTL

-----------------------------------------------------------------------------
(***************************************************************************)
(* The refinement: each step is one of ConfigContract's or changes none of *)
(* its variables.                                                          *)
(***************************************************************************)
Backup == Answer("backup", IF backupFile THEN file ELSE Nothing)
Before == Answer("before", before)
After  == Answer("after", after)

LEMMA ContractInit == Init => Contract!Init
  <1> SUFFICES ASSUME Init PROVE Contract!Init
    OBVIOUS
  <1>1. task \in Tasks /\ config \in [Origins -> Values]
    BY Zenon DEF Init
  <1>2. /\ phase = "idle" /\ verdict = "none" /\ warned = FALSE /\ accepted = FALSE /\ backupFile = FALSE
        /\ before = Nothing /\ after = Nothing /\ call = "none" /\ abandoned = {}
    BY DEF Init
  <1> QED
    BY <1>1, <1>2 DEF Contract!Init, Answer

\* What a task asks for, in the words of the contract.
LEMMA SameTask ==
    ASSUME NEW t \in Tasks
    PROVE  /\ Contract!BacksUp(t) <=> WantsBackup(t)
           /\ Contract!Compares(t) <=> WantsDiff(t)
           /\ Contract!MayChange(t) <=> ~t.check /\ t.items # "invalid"
           /\ Contract!Change(t) = SetRequest(t)
  BY TaskFacts DEF Contract!BacksUp, Contract!Compares, Contract!MayChange, Contract!Change,
     WantsBackup, WantsDiff, SetRequest

\* A snapshot that was taken is none of a Get that failed.
LEMMA ReplyIsValue ==
    ASSUME IInv, phase \in {"backup", "before", "after"}, call = "answered"
    PROVE  reply # Nothing
  <1>1. heldBefore["default"] \subseteq Values /\ heldAfter \subseteq Values
    BY DEF IInv, TypeOK, Origins
  <1>2. reply \in heldBefore["default"] \cup heldAfter
    BY DEF IInv, ReadInv
  <1> QED
    BY <1>1, <1>2, ConstantsAssumption

\* Behind the phase of the backup the change is secured.
LEMMA IsSecured ==
    ASSUME IInv, phase \in {"before", "set", "after"}
    PROVE  Contract!Secured
  <1>1. task \in Tasks
    BY DEF IInv, TypeOK
  <1>2. WantsBackup(task) => backupFile \/ warned
    BY DEF IInv, BackupInv
  <1>3. backupFile => file # Nothing
    <2>1. heldBefore["default"] \subseteq Values
      BY DEF IInv, TypeOK, Origins
    <2>2. backupFile => file \in heldBefore["default"]
      BY DEF IInv, BackupInv, BackupIsPreChange
    <2> QED
      BY <2>1, <2>2, ConstantsAssumption
  <1>4. Backup = IF backupFile THEN file ELSE Nothing
    BY DEF Backup, Answer
  <1> QED
    BY <1>1, <1>2, <1>3, <1>4, SameTask DEF Contract!Secured, Backup

LEMMA ModuleMeetsContract == IInv /\ Module => [Contract!Next]_Contract!vars
  <1> SUFFICES ASSUME IInv, Module PROVE [Contract!Next]_Contract!vars
    OBVIOUS
  <1>0. /\ task \in Tasks /\ UNCHANGED <<task, config, accepted>>
        /\ phase \notin {"leave", "idle"} => verdict = "none" /\ after = Nothing
    BY DEF Module, Begin, BeginFails, BackupWritten, BackupFails, TakeBefore, SetReturns, SetFails,
       TakeAfter, Leave, historyVars, IInv, TypeOK, PhaseInv, FreshInv
  <1> USE DEF IInv, Proceed, Fail, historyVars
  \* The report, of a task that is at none of its snapshots behind it.
  <1>r. ASSUME phase \notin {"leave", "idle"}, phase' = "leave", call' = "none",
               UNCHANGED <<warned, Backup>>,
               before' \in {Before, Nothing}, after' \in {After, Nothing},
               \/ verdict' = "changed" /\ accepted /\ UNCHANGED abandoned
               \/ verdict' = "skipped" /\ task.check /\ UNCHANGED abandoned
               \/ verdict' = "failed" /\ UNCHANGED abandoned
               \/ /\ verdict' = "failed" /\ ~accepted /\ phase = "set" /\ ~task.check /\ task.items # "invalid"
                  /\ abandoned' = abandoned \cup {SetRequest(task)}
        PROVE  Contract!Report
    <2>1. Before' = before' /\ After' = after'
      BY <1>r DEF Before, After, Answer
    <2>2. phase = "set" => Contract!Secured
      BY IsSecured
    <2> QED
      BY <1>0, <1>r, <2>1, <2>2, SameTask DEF Contract!Report, Backup, Before, After
  <1>1. CASE Begin
    BY <1>0, <1>1, <1>r, Steps
    DEF Begin, PhaseInv, FreshInv, Backup, Before, After, Answer, Contract!vars, Contract!Next
  <1>2. CASE BeginFails
    BY <1>0, <1>2, <1>r DEF BeginFails, FreshInv, Backup, Before, After, Answer, Contract!Next
  <1>3. CASE BackupWritten
    BY <1>0, <1>3, Steps DEF BackupWritten, PhaseInv, FreshInv, Answer, Contract!vars
  <1>4. CASE BackupFails
    BY <1>0, <1>4, Steps, SameTask
    DEF BackupFails, PhaseInv, AcceptInv, FreshInv, Answer, Contract!GiveUpBackup, Contract!Ahead, Contract!Next
  <1>5. CASE TakeBefore
    BY <1>0, <1>5, <1>r, Steps
    DEF TakeBefore, Snapshot, PhaseInv, AcceptInv, FreshInv, Backup, Before, After, Answer,
        Contract!LoseBefore, Contract!Ahead, Contract!vars, Contract!Next
  <1>6. CASE SetReturns
    BY <1>0, <1>6, <1>r, Steps
    DEF SetReturns, PhaseInv, AcceptInv, FreshInv, Backup, Before, After, Answer, Contract!vars, Contract!Next
  <1>7. CASE SetFails
    BY <1>0, <1>7, <1>r DEF SetFails, Abandon, PhaseInv, AcceptInv, Backup, Before, After, Answer, Contract!Next
  <1>8. CASE TakeAfter
    BY <1>0, <1>8, <1>r, Steps
    DEF TakeAfter, Snapshot, PhaseInv, AcceptInv, Backup, Before, After, Answer, Contract!Next
  <1>9. CASE Leave
    BY <1>0, <1>9 DEF Leave, Answer, Contract!vars
  <1> QED
    BY <1>1, <1>2, <1>3, <1>4, <1>5, <1>6, <1>7, <1>8, <1>9 DEF Module

LEMMA DeviceMeetsContract == IInv /\ Device => [Contract!Next]_Contract!vars
  <1> SUFFICES ASSUME IInv, Device PROVE [Contract!Next]_Contract!vars
    OBVIOUS
  <1>0. task \in Tasks
    BY DEF IInv, TypeOK
  <1>1. CASE ServeGet
    <2> USE <1>1 DEF ServeGet, moduleVars, historyVars, Answer
    <2>1. CASE phase = "backup"
      <3>1. ~backupFile /\ ~warned /\ before = Nothing /\ ~accepted /\ WantsBackup(task)
        BY <2>1 DEF IInv, PhaseInv, AcceptInv, FreshInv
      <3> QED
        BY <1>0, <2>1, <3>1, SameTask DEF Contract!TakeBackup, Contract!Ahead, Contract!Secured, Contract!Next
    <2>2. CASE phase = "before"
      <3>1. before = Nothing /\ ~accepted /\ WantsDiff(task)
        BY <2>2 DEF IInv, PhaseInv, AcceptInv, FreshInv
      <3> QED
        BY <1>0, <2>2, <3>1, SameTask, IsSecured DEF Contract!TakeBefore, Contract!Ahead, Contract!Next
    <2>3. CASE phase = "after"
      <3>1. after = Nothing /\ accepted /\ WantsDiff(task)
        BY <2>3 DEF IInv, PhaseInv, AcceptInv, FreshInv
      <3> QED
        BY <1>0, <2>3, <3>1, SameTask DEF Contract!TakeAfter, Contract!Next
    <2> QED
      BY <2>1, <2>2, <2>3
  <1>2. CASE ServeSet
    <2>1. ~accepted /\ ~task.check /\ task.items # "invalid"
      BY <1>2 DEF ServeSet, IInv, PhaseInv, AcceptInv
    <2>2. Contract!Secured
      BY <1>2, IsSecured DEF ServeSet
    <2>3. config' = Contract!Made(Contract!Change(task))
      BY <1>0, <1>2, SameTask DEF ServeSet, Applied, Contract!Made
    <2> QED
      BY <1>0, <1>2, <2>1, <2>2, <2>3, SameTask
      DEF ServeSet, moduleVars, Answer, Contract!MakeChange, Contract!Ahead, Contract!Next
  <1>3. CASE ServeAbandoned
    BY <1>3 DEF ServeAbandoned, Applied, moduleVars, Answer, Contract!Made, Contract!MakeLateChange, Contract!Next
  <1>4. CASE OtherClient
    BY <1>4 DEF OtherClient, moduleVars, Answer, Contract!Others, Contract!Next
  <1> QED
    BY <1>1, <1>2, <1>3, <1>4 DEF Device

\* A task of the playbook, with the device and everyone else who configures
\* it, is a sequence of atomic steps in the promised order
\* (module_helper.py:186-211, 252-318).
THEOREM TasksImplementContract == Spec => ImplementsContract
  <1>1. IInv /\ StartTask => [Contract!Next]_Contract!vars
    <2> SUFFICES ASSUME IInv, StartTask PROVE Contract!Next
      OBVIOUS
    <2>1. Contract!Start
      BY DEF StartTask, Answer, Contract!Start
    <2> QED
      BY <2>1 DEF Contract!Next
  <1>2. UNCHANGED vars => UNCHANGED Contract!vars
    BY DEF vars, moduleVars, historyVars, Answer, Contract!vars
  <1>3. IInv /\ [Next]_vars => [Contract!Next]_Contract!vars
    BY <1>1, <1>2, ModuleMeetsContract, DeviceMeetsContract DEF Next
  <1> QED
    BY <1>3, ContractInit, InductiveInvariant, PTL DEF Spec, ImplementsContract, Contract!Spec
=============================================================================
