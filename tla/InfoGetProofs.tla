---------------------------- MODULE InfoGetProofs ----------------------------
(***************************************************************************)
(* Proofs about InfoGet and Transport, for every set of options,           *)
(* certificates, tasks and places: the type invariant, the inductive       *)
(* invariants of InfoGetInv, the trust in what a request goes out to, and  *)
(* what the texts of GnmiPath become on their way from the task into the   *)
(* request and from the answer into the report.                            *)
(***************************************************************************)
EXTENDS InfoGetInv, GnmiPathProofs

\* What a task's paths and prefix become is a path that was built.
LEMMA PathsAreBuilt ==
    ASSUME TypeOK
    PROVE  /\ [i \in DOMAIN task.paths |-> PathOf[task.paths[i]][task.origin]] \in Seq(Built)
           /\ [i \in DOMAIN task.prefix |-> PathOf[task.prefix[i]][task.origin]] \in Seq(Built)
  <1>1. task \in Tasks /\ task.paths \in Seq(PathRecords) /\ task.prefix \in Seq(PathRecords)
    BY TasksAssumption DEF TypeOK
  <1>2. \A p \in Paths : PathOf[p][task.origin] \in Built
    BY <1>1 DEF Built, Origins
  <1>3. /\ \A i \in DOMAIN task.paths : task.paths[i] \in Paths
        /\ \A i \in DOMAIN task.prefix : task.prefix[i] \in Paths
    BY <1>1 DEF Paths
  <1>4. DOMAIN task.paths = 1..Len(task.paths) /\ DOMAIN task.prefix = 1..Len(task.prefix)
        /\ Len(task.paths) \in Nat /\ Len(task.prefix) \in Nat
    BY <1>1
  <1> QED
    BY <1>2, <1>3, <1>4, IsASeq

LEMMA TypeInit == Init => TypeOK
  <1> SUFFICES ASSUME Init PROVE TypeOK
    OBVIOUS
  <1>1. TransportTypeOK
    BY DEF Init, TransportInit, TransportTypeOK
  <1>2. request.path \in Seq(Built) /\ request.prefix \in Seq(Built) /\ DOMAIN answer = {}
    BY EmptySeq DEF Init
  <1> QED
    BY <1>1, <1>2 DEF Init, TransportInit, TypeOK, Phases

LEMMA TypeTransport == TypeOK /\ (Connect \/ CertificateChanges) /\ UNCHANGED taskVars => TypeOK'
  <1> SUFFICES ASSUME TypeOK, Connect \/ CertificateChanges, UNCHANGED taskVars PROVE TypeOK'
    OBVIOUS
  <1>1. TransportTypeOK' /\ phase' \in Phases
    <2> USE DEF TypeOK, TransportTypeOK, Phases, ConnectFails, connVars
    <2>1. CASE CreateClient \/ OpenPlaintext \/ CertificateChanges
      BY <2>1 DEF CreateClient, OpenPlaintext, CertificateChanges
    <2>2. CASE ReadCaCert
      BY <2>2 DEF ReadCaCert
    <2>3. CASE FetchServerCertificate
      BY <2>3 DEF FetchServerCertificate
    <2>4. CASE OpenSecure
      <3>1. TargetName = "none" \/ TargetName \in {opts.serverName} \cup {c.cn : c \in Certs \cup {CaCert}}
        BY DEF TargetName
      <3> QED
        BY <2>4, <3>1 DEF OpenSecure
    <2> QED
      BY <2>1, <2>2, <2>3, <2>4 DEF Connect
  <1> QED
    BY <1>1 DEF TypeOK, taskVars

LEMMA TypeTask ==
    TypeOK /\ (Prepare \/ CallRpc \/ DeviceAnswers \/ RpcFails \/ ParseResponse \/ Disconnect) => TypeOK'
  <1> SUFFICES ASSUME TypeOK,
                      Prepare \/ CallRpc \/ DeviceAnswers \/ RpcFails \/ ParseResponse \/ Disconnect
               PROVE  TypeOK'
    OBVIOUS
  <1>0. /\ [i \in DOMAIN task.paths |-> PathOf[task.paths[i]][task.origin]] \in Seq(Built)
        /\ [i \in DOMAIN task.prefix |-> PathOf[task.prefix[i]][task.origin]] \in Seq(Built)
    BY PathsAreBuilt
  <1> USE DEF TypeOK, TransportTypeOK, Phases, Fail, connVars
  <1>1. CASE Prepare
    <2> DEFINE paths == [i \in DOMAIN task.paths |-> PathOf[task.paths[i]][task.origin]]
               prefix == [i \in DOMAIN task.prefix |-> PathOf[task.prefix[i]][task.origin]]
    <2>1. request' = request \/ request' = [path |-> paths, prefix |-> prefix]
      BY <1>1 DEF Prepare
    <2>2. request'.path \in Seq(Built) /\ request'.prefix \in Seq(Built)
      <3>1. paths \in Seq(Built) /\ prefix \in Seq(Built)
        BY <1>0
      <3> HIDE DEF paths, prefix
      <3> QED
        BY <2>1, <3>1
    <2>3. phase' \in {"call", "failed"}
      BY <1>1 DEF Prepare
    <2> QED
      BY <1>1, <2>2, <2>3 DEF Prepare
  <1>2. CASE CallRpc
    BY <1>2 DEF CallRpc, Reached, NotReached, Metadata
  <1>3. CASE DeviceAnswers
    <2>1. \A j \in DOMAIN answer' : \E place : answer'[j] \in Updates(place)
      BY <1>3 DEF DeviceAnswers
    <2>2. \A place : \A u \in Updates(place) : u.val.field \in Formats
      BY DEF Updates, Values
    <2>3. \A j \in DOMAIN answer' : answer'[j].val.field \in Formats
      BY <2>1, <2>2
    <2> QED
      BY <1>3, <2>3 DEF DeviceAnswers
  <1>4. CASE RpcFails
    BY <1>4 DEF RpcFails
  <1>5. CASE ParseResponse
    BY <1>5 DEF ParseResponse
  <1>6. CASE Disconnect
    BY <1>6 DEF Disconnect, CloseChannel
  <1> QED
    BY <1>1, <1>2, <1>3, <1>4, <1>5, <1>6

LEMMA TypeStep == TypeOK /\ [Next]_vars => TypeOK'
  <1>1. TypeOK /\ UNCHANGED vars => TypeOK'
    BY DEF TypeOK, TransportTypeOK, vars, transportVars, connVars, taskVars
  <1> QED
    BY <1>1, TypeTransport, TypeTask DEF Next, Module, Device, Finished

\* Every variable stays in its type.
THEOREM TypeCorrect == Spec => []TypeOK
  BY TypeInit, TypeStep, PTL DEF Spec
-----------------------------------------------------------------------------
(***************************************************************************)
(* The inductive invariant.                                                *)
(***************************************************************************)
LEMMA InvInit == Init => IInv
  BY TypeInit DEF Init, TransportInit, IInv, UntrustedInv, Early, ChannelInv, SessionInv

LEMMA InvConnect == IInv /\ Connect /\ UNCHANGED taskVars => IInv'
  <1> SUFFICES ASSUME IInv, Connect, UNCHANGED taskVars PROVE IInv'
    OBVIOUS
  <1>0. TypeOK' /\ TypeOK
    BY TypeTransport DEF IInv
  <1>t. NoCert \notin Certs \cup {CaCert} /\ opts \in OptionRecords /\ held \in Certs
    BY <1>0, TransportAssumption DEF TypeOK, TransportTypeOK
  <1> USE DEF IInv, UntrustedInv, Early, ChannelInv, SessionInv, taskVars, ConnectFails, connVars
  <1>1. CASE CreateClient
    BY <1>0, <1>1 DEF CreateClient, RootsAsked, UsesFirstUse, TargetName, Accepts, Verifies, Vouches
  <1>2. CASE OpenPlaintext
    BY <1>0, <1>2 DEF OpenPlaintext, RootsAsked, UsesFirstUse, TargetName, Accepts, Verifies, Vouches
  <1>3. CASE ReadCaCert
    BY <1>0, <1>t, <1>3 DEF ReadCaCert, RootsAsked, UsesFirstUse, OptionRecords
  <1>4. CASE FetchServerCertificate
    BY <1>0, <1>t, <1>4 DEF FetchServerCertificate, RootsAsked, UsesFirstUse
  <1>5. CASE OpenSecure
    BY <1>0, <1>5 DEF OpenSecure, RootsAsked, UsesFirstUse, TargetName
  <1> QED
    BY <1>1, <1>2, <1>3, <1>4, <1>5 DEF Connect

LEMMA InvTask ==
    IInv /\ (Prepare \/ DeviceAnswers \/ RpcFails \/ ParseResponse \/ Disconnect) => IInv'
  <1> SUFFICES ASSUME IInv, Prepare \/ DeviceAnswers \/ RpcFails \/ ParseResponse \/ Disconnect
               PROVE  IInv'
    OBVIOUS
  <1>0. TypeOK'
    BY TypeTask DEF IInv
  <1>1. UNCHANGED <<opts, roots, override, warned, fetched, session, sent>>
    BY DEF Prepare, DeviceAnswers, RpcFails, ParseResponse, Disconnect, connVars
  <1>2. RootsAsked' = RootsAsked /\ TargetName' = TargetName /\ Accepts(session)' = Accepts(session)
    BY <1>1 DEF RootsAsked, UsesFirstUse, TargetName, Accepts, Verifies, Vouches
  <1>3. channel' = channel \/ channel' \in {"none", "closed"}
    BY DEF Prepare, DeviceAnswers, RpcFails, ParseResponse, Disconnect, connVars, CloseChannel
  <1>4. phase' \notin {"create", "connect", "fetch", "credentials"}
    BY DEF Prepare, DeviceAnswers, RpcFails, ParseResponse, Disconnect, Fail
  <1>5. phase' \notin {"disconnected", "failed"} => phase \notin {"disconnected", "failed"} /\ channel' = channel
    BY DEF Prepare, DeviceAnswers, RpcFails, ParseResponse, Disconnect, Fail, connVars
  <1> QED
    BY <1>0, <1>1, <1>2, <1>3, <1>4, <1>5 DEF IInv, UntrustedInv, Early, ChannelInv, SessionInv

LEMMA InvCall == IInv /\ CallRpc => IInv'
  <1> SUFFICES ASSUME IInv, CallRpc PROVE IInv'
    OBVIOUS
  <1>0. TypeOK' /\ TypeOK
    BY TypeTask DEF IInv
  <1>1. UNCHANGED <<opts, roots, override, channel, warned, fetched, held>>
    BY DEF CallRpc, connVars
  <1>2. RootsAsked' = RootsAsked /\ TargetName' = TargetName
    BY <1>1 DEF RootsAsked, UsesFirstUse, TargetName
  <1>3. \A cert : Accepts(cert)' = Accepts(cert)
    BY <1>1 DEF Accepts, Verifies, Vouches
  <1>4. CASE Reached /\ sent' = Metadata /\ phase' = "wait"
    <2>1. \/ channel = "plaintext" /\ session' = session
          \/ channel = "tls" /\ session' = held /\ held \in Certs /\ Accepts(session')
      BY <1>0, <1>4 DEF Reached, TypeOK, TransportTypeOK
    <2>2. sent' # "none"
      BY <1>4 DEF Metadata
    <2> QED
      BY <1>0, <1>1, <1>2, <1>3, <1>4, <2>1, <2>2
      DEF IInv, UntrustedInv, Early, ChannelInv, SessionInv
  <1>5. CASE NotReached /\ phase' = "failed" /\ UNCHANGED <<session, sent>>
    <2>1. Accepts(session)' = Accepts(session)
      BY <1>1, <1>5 DEF Accepts, Verifies, Vouches
    <2> QED
      BY <1>0, <1>1, <1>2, <1>5, <2>1 DEF IInv, UntrustedInv, Early, ChannelInv, SessionInv
  <1> QED
    BY <1>4, <1>5 DEF CallRpc, Fail

LEMMA InvStep == IInv /\ [Next]_vars => IInv'
  <1>1. IInv /\ (UNCHANGED vars \/ Device) => IInv'
    <2> SUFFICES ASSUME IInv, UNCHANGED vars \/ Device PROVE IInv'
      OBVIOUS
    <2>0. TypeOK'
      BY TypeStep DEF IInv, Next
    <2>1. UNCHANGED <<opts, phase, roots, override, channel, warned, fetched, session, sent>>
      BY DEF vars, transportVars, connVars, taskVars, Device, CertificateChanges
    <2>2. RootsAsked' = RootsAsked /\ TargetName' = TargetName /\ Accepts(session)' = Accepts(session)
      BY <2>1 DEF RootsAsked, UsesFirstUse, TargetName, Accepts, Verifies, Vouches
    <2>3. UsesFirstUse' = UsesFirstUse
      BY <2>1 DEF UsesFirstUse
    <2> QED
      BY <2>0, <2>1, <2>2, <2>3 DEF IInv, UntrustedInv, Early, ChannelInv, SessionInv
  <1> QED
    BY <1>1, InvConnect, InvTask, InvCall DEF Next, Module, Finished

\* The inductive invariant holds in every state.
THEOREM InvCorrect == Spec => []IInv
  BY InvInit, InvStep, PTL DEF Spec
-----------------------------------------------------------------------------
\* gnmi_client.py:410-457: whatever the options and however the device's
\* certificate changes, a request goes out in plaintext only if asked to and
\* otherwise to a certificate the options ask for.
THEOREM TrustIsAsked == Spec => []RequestsAreTrusted
  <1>1. IInv => RequestsAreTrusted
    <2> SUFFICES ASSUME IInv, sent # "none"
                 PROVE  IF opts.insecure THEN session = NoCert /\ fetched = NoCert
                                         ELSE session \in Certs /\ Trusted(session)
      BY DEF RequestsAreTrusted
    <2>1. CASE opts.insecure
      BY <2>1 DEF IInv, ChannelInv
    <2>2. CASE ~opts.insecure
      <3>1. session \in Certs /\ Verifies(session) /\ Vouches(session) /\ RootsAsked /\ override = TargetName
        BY <2>2 DEF IInv, SessionInv, Accepts
      <3>2. NoCert \notin Certs \cup {CaCert}
        BY TransportAssumption
      <3>3. opts.serverName # "none" => opts.serverName \in session.names
        <4>1. opts.serverName # "none" => TargetName = opts.serverName
          BY DEF TargetName
        <4> QED
          BY <3>1, <4>1 DEF Vouches
      <3>4. CASE opts.ca = "file"
        <4>1. ~UsesFirstUse /\ opts.ca # "none"
          BY <3>4 DEF UsesFirstUse
        <4>2. roots = CaCert
          BY <3>1, <3>4, <4>1 DEF RootsAsked
        <4>3. Anchors(CaCert, session)
          BY <3>1, <3>2, <4>2 DEF Verifies, Anchors
        <4>4. Trusted(session)
          BY <3>3, <3>4, <4>1, <4>3 DEF Trusted
        <4> QED
          BY <2>2, <3>1, <4>4
      <3>5. CASE UsesFirstUse
        <4>1. opts.ca = "none" /\ opts.skipVerify /\ opts.ca # "file"
          BY <3>5 DEF UsesFirstUse
        <4>2. roots = fetched /\ fetched \in Certs /\ warned
          <5>1. ~(opts.ca = "none" /\ ~opts.skipVerify)
            BY <4>1
          <5> QED
            BY <3>1, <3>5, <4>1, <5>1 DEF RootsAsked
        <4>3. Anchors(fetched, session) /\ fetched # NoCert
          BY <3>1, <3>2, <4>2 DEF Verifies, Anchors
        <4>4. Trusted(session)
          BY <3>3, <4>1, <4>2, <4>3 DEF Trusted
        <4> QED
          BY <2>2, <3>1, <4>4
      <3>6. CASE opts.ca = "none" /\ ~opts.skipVerify
        BY <2>2, <3>1, <3>3, <3>6 DEF RootsAsked, UsesFirstUse, Verifies, Trusted
      <3> QED
        BY <3>1, <3>4, <3>5, <3>6 DEF RootsAsked, UsesFirstUse
    <2> QED
      BY <2>1, <2>2
  <1> QED
    BY <1>1, InvCorrect, PTL
-----------------------------------------------------------------------------
(***************************************************************************)
(* From the text to the report.                                            *)
(***************************************************************************)
LEMMA SameReport ==
    /\ UNCHANGED <<task, request>> => Requested' = Requested /\ Named' = Named
    /\ UNCHANGED <<request, answer>> => Answered' = Answered
    /\ UNCHANGED answer => ReportOf(answer)' = ReportOf(answer)
  <1>1. UNCHANGED <<task, request>> => Requested' = Requested
    BY DEF Requested
  <1>2. UNCHANGED <<task, request>> => Named' = Named
    BY DEF Named, PlaceNamed
  <1>3. UNCHANGED <<request, answer>> => Answered' = Answered
    <2> SUFFICES ASSUME UNCHANGED <<request, answer>> PROVE Answered' = Answered
      OBVIOUS
    <2>1. \A path : PlaceNamed(path)' = PlaceNamed(path)
      BY DEF PlaceNamed
    <2> QED
      BY <2>1 DEF Answered
  <1>4. UNCHANGED answer => ReportOf(answer)' = ReportOf(answer)
    BY DEF ReportOf
  <1> QED
    BY <1>1, <1>2, <1>3, <1>4

LEMMA ReportInit == Init => ReportInv
  BY DEF Init, TransportInit, ReportInv, Succeeded

LEMMA ReportConnect == ReportInv /\ (Connect \/ CertificateChanges) /\ UNCHANGED taskVars => ReportInv'
  <1> SUFFICES ASSUME ReportInv, Connect \/ CertificateChanges, UNCHANGED taskVars PROVE ReportInv'
    OBVIOUS
  <1>1. Requested' = Requested /\ Named' = Named /\ Answered' = Answered /\ ReportOf(answer)' = ReportOf(answer)
    BY SameReport DEF taskVars
  <1>2. UNCHANGED <<task, code, outcome, data>>
    BY DEF taskVars
  <1>3. \/ phase' = phase
        \/ /\ phase \in Early \cup {"fetch", "credentials", "connected", "call", "wait"}
           /\ phase' \in Early \cup {"fetch", "credentials", "connected", "failed"}
    BY DEF Early, Connect, CertificateChanges, CreateClient, OpenPlaintext, ReadCaCert,
           FetchServerCertificate, OpenSecure, ConnectFails
  <1> QED
    BY <1>1, <1>2, <1>3 DEF ReportInv, Succeeded, Early

LEMMA ReportTask ==
    ReportInv /\ (Prepare \/ CallRpc \/ DeviceAnswers \/ RpcFails \/ ParseResponse \/ Disconnect) => ReportInv'
  <1> SUFFICES ASSUME ReportInv,
                      Prepare \/ CallRpc \/ DeviceAnswers \/ RpcFails \/ ParseResponse \/ Disconnect
               PROVE  ReportInv'
    OBVIOUS
  <1>0. UNCHANGED task
    BY DEF Prepare, CallRpc, DeviceAnswers, RpcFails, ParseResponse, Disconnect
  <1>1. CASE Prepare
    <2>1. code = "none" /\ outcome = "none" /\ phase = "connected" /\ UNCHANGED <<code, outcome, data>>
      BY <1>1 DEF Prepare, ReportInv, Early
    <2>2. phase' \in {"call", "failed"}
      BY <1>1 DEF Prepare, Fail
    <2>3. task.operation = "get" /\ phase' = "call" => Requested'
      BY <1>0, <1>1 DEF Prepare, Fail, Requested
    <2> QED
      BY <1>0, <2>1, <2>2, <2>3 DEF ReportInv, Succeeded, Early
  <1>2. CASE CallRpc
    <2>1. Requested' = Requested /\ code = "none" /\ outcome = "none" /\ phase = "call"
      BY <1>0, <1>2, SameReport DEF CallRpc, ReportInv, Early
    <2>2. UNCHANGED <<outcome, data>> /\ ((phase' = "wait" /\ code' = code) \/ (phase' = "failed" /\ code' = "UNAVAILABLE"))
      BY <1>2 DEF CallRpc, Fail
    <2> QED
      BY <1>0, <2>1, <2>2 DEF ReportInv, Succeeded, Early
  <1>3. CASE DeviceAnswers
    <2>1. Requested' = Requested /\ outcome = "none" /\ phase = "wait"
      BY <1>0, <1>3, SameReport DEF DeviceAnswers, ReportInv
    <2>2. UNCHANGED <<outcome, request>> /\ phase' = "answered" /\ code' = "OK"
      BY <1>3 DEF DeviceAnswers
    <2>3. Answered'
      <3>1. PICK order \in Orders(DOMAIN request.path) :
                /\ DOMAIN answer' = DOMAIN request.path
                /\ \A n \in DOMAIN request.path : answer'[n] \in Updates(PlaceNamed(request.path[order[n]]))
        BY <1>3 DEF DeviceAnswers
      <3>2. /\ \A n \in DOMAIN request.path : order[n] \in DOMAIN request.path
            /\ \A i \in DOMAIN request.path : \E n \in DOMAIN request.path : order[n] = i
        BY <3>1 DEF Orders
      <3>3. \A path : PlaceNamed(path)' = PlaceNamed(path)
        BY <2>2 DEF PlaceNamed
      <3>4. \A place : Updates(place)' = Updates(place)
        BY DEF Updates, Values
      <3>5. /\ \A n \in DOMAIN answer' : \E i \in DOMAIN request.path :
                   answer'[n] \in Updates(PlaceNamed(request.path[i]))
            /\ \A i \in DOMAIN request.path : \E n \in DOMAIN answer' :
                   answer'[n] \in Updates(PlaceNamed(request.path[i]))
        BY <3>1, <3>2
      <3> QED
        BY <2>2, <3>1, <3>3, <3>4, <3>5 DEF Answered
    <2> QED
      BY <1>0, <2>1, <2>2, <2>3 DEF ReportInv, Succeeded, Early
  <1>4. CASE RpcFails
    <2>1. Requested' = Requested /\ Named' = Named /\ outcome = "none" /\ phase = "wait"
      BY <1>0, <1>4, SameReport DEF RpcFails, ReportInv
    <2>2. UNCHANGED <<outcome, data>> /\ phase' = "failed"
      BY <1>4 DEF RpcFails, Fail
    <2>3. code' = "NOT_FOUND" => task.operation = "get" /\ ~(Named \subseteq Tree)
      BY <1>4 DEF RpcFails
    <2> QED
      BY <1>0, <2>1, <2>2, <2>3 DEF ReportInv, Succeeded, Early
  <1>5. CASE ParseResponse
    <2>1. /\ Requested' = Requested /\ Named' = Named /\ Answered' = Answered
          /\ ReportOf(answer)' = ReportOf(answer) /\ outcome = "none" /\ phase = "answered"
      BY <1>0, <1>5, SameReport DEF ParseResponse, ReportInv
    <2>2. UNCHANGED <<outcome, code>> /\ (phase' = "failed" \/ (phase' = "succeeded" /\ data' = ReportOf(answer)))
      BY <1>5 DEF ParseResponse, Fail
    <2> QED
      BY <1>0, <2>1, <2>2 DEF ReportInv, Succeeded, Early
  <1>6. CASE Disconnect
    <2>1. /\ Requested' = Requested /\ Named' = Named /\ Answered' = Answered
          /\ ReportOf(answer)' = ReportOf(answer)
      BY <1>0, <1>6, SameReport DEF Disconnect
    <2>2. UNCHANGED <<code, data>> /\ outcome' = phase /\ phase' = "disconnected"
      BY <1>6 DEF Disconnect
    <2> QED
      BY <1>0, <2>1, <2>2 DEF ReportInv, Succeeded, Early
  <1> QED
    BY <1>1, <1>2, <1>3, <1>4, <1>5, <1>6

LEMMA ReportStep == ReportInv /\ [Next]_vars => ReportInv'
  <1>1. ReportInv /\ UNCHANGED vars => ReportInv'
    <2> SUFFICES ASSUME ReportInv, UNCHANGED vars PROVE ReportInv'
      OBVIOUS
    <2>1. Requested' = Requested /\ Named' = Named /\ Answered' = Answered /\ ReportOf(answer)' = ReportOf(answer)
      BY SameReport DEF vars, taskVars
    <2> QED
      BY <2>1 DEF ReportInv, Succeeded, vars, transportVars, taskVars
  <1> QED
    BY <1>1, ReportConnect, ReportTask DEF Next, Module, Device, Finished

LEMMA ReportCorrect == Spec => []ReportInv
  BY ReportInit, ReportStep, PTL DEF Spec
-----------------------------------------------------------------------------
(***************************************************************************)
(* What the request names is what the user meant.                          *)
(***************************************************************************)
LEMMA LastIndex ==
    ASSUME NEW n \in Nat, NEW T \in SUBSET (1..n), T # {}
    PROVE  \E m \in T : \A k \in T : k <= m
  <1> DEFINE N == {l \in Nat : \A U \in SUBSET (1..l) : U # {} => \E m \in U : \A k \in U : k <= m}
  <1>1. 0 \in N
    <2>1. 1..0 = {}
      OBVIOUS
    <2> QED
      BY <2>1
  <1>2. ASSUME NEW l \in Nat, l \in N PROVE l + 1 \in N
    <2> SUFFICES ASSUME NEW U \in SUBSET (1..(l + 1)), U # {} PROVE \E m \in U : \A k \in U : k <= m
      OBVIOUS
    <2>1. CASE l + 1 \in U
      BY <2>1
    <2>2. CASE l + 1 \notin U
      <3>1. U \in SUBSET (1..l)
        BY <2>2
      <3> QED
        BY <1>2, <3>1
    <2> QED
      BY <2>1, <2>2
  <1>3. Nat \subseteq N
    <2> HIDE DEF N
    <2> QED
      BY <1>1, <1>2, SetInduction
  <1> QED
    BY <1>3

LEMMA TaskFacts ==
    ASSUME TypeOK
    PROVE  /\ task.origin \in Words \cup {NoOrigin, NotGiven}
           /\ Len(task.prefix) \in Nat /\ Len(task.prefix) <= 1
           /\ DOMAIN task.prefix = 1..Len(task.prefix)
           /\ Len(task.paths) \in Nat /\ DOMAIN task.paths = 1..Len(task.paths)
           /\ \A i \in DOMAIN task.paths : task.paths[i] \in PathRecords
           /\ \A i \in DOMAIN task.prefix : task.prefix[i] \in PathRecords
           /\ \A i \in DOMAIN task.paths : task.paths[i] \in Paths
           /\ \A i \in DOMAIN task.prefix : task.prefix[i] \in Paths
           /\ task.origin \in Origins
  <1>1. task \in Tasks /\ task.paths \in Seq(PathRecords) /\ task.prefix \in Seq(PathRecords)
        /\ task.origin \in Words \cup {NoOrigin, NotGiven} /\ Len(task.prefix) <= 1
    BY TasksAssumption DEF TypeOK
  <1>2. \A s \in Seq(PathRecords) : Len(s) \in Nat /\ DOMAIN s = 1..Len(s) /\ \A i \in DOMAIN s : s[i] \in PathRecords
    BY LenProperties, ElementOfSeq
  <1>3. /\ \A i \in DOMAIN task.paths : task.paths[i] \in Paths
        /\ \A i \in DOMAIN task.prefix : task.prefix[i] \in Paths
        /\ task.origin \in Origins
    BY <1>1 DEF Paths, Origins
  <1> QED
    BY <1>1, <1>2, <1>3

\* The Path of a text, by BuildPathOfText.
LEMMA PathOfText ==
    ASSUME TypeOK, NEW p \in Paths, p \in PathRecords, Carried(p)
    PROVE  PathOf[p][task.origin] =
               [origin |-> IF task.origin # NotGiven THEN task.origin ELSE Own(p),
                elem   |-> PlaceElems(p.elems)]
  <1>1. task.origin \in Origins /\ task.origin \in Words \cup {NoOrigin, NotGiven}
    BY TaskFacts
  <1>2. PathOf[p][task.origin] = BuildPath(AsText(p), task.origin)
    BY <1>1 DEF PathOf
  <1> QED
    BY <1>1, <1>2, BuildPathOfText

\* The elements of a place, element by element.
LEMMA PlaceElemsFacts ==
    ASSUME NEW a \in Seq(ElemRecords)
    PROVE  /\ PlaceElems(a) \in Seq({[name |-> NameOf(e), key |-> KeysMeant(e)] : e \in ElemRecords})
           /\ Len(PlaceElems(a)) = Len(a) /\ Len(a) \in Nat
           /\ \A i \in 1..Len(a) : PlaceElems(a)[i] = [name |-> NameOf(a[i]), key |-> KeysMeant(a[i])]
           /\ \A i \in 1..Len(a) : a[i] \in ElemRecords
  <1> DEFINE S == {[name |-> NameOf(e), key |-> KeysMeant(e)] : e \in ElemRecords}
             f(i) == [name |-> NameOf(a[i]), key |-> KeysMeant(a[i])]
  <1>1. Len(a) \in Nat /\ DOMAIN a = 1..Len(a) /\ \A i \in 1..Len(a) : a[i] \in ElemRecords
    BY LenProperties, ElementOfSeq
  <1>2. PlaceElems(a) = [i \in 1..Len(a) |-> f(i)]
    BY <1>1 DEF PlaceElems
  <1>3. \A i \in 1..Len(a) : f(i) \in S
    BY <1>1
  <1>4. \A i \in 1..Len(a) : PlaceElems(a)[i] = f(i)
    BY <1>2
  <1> HIDE DEF f, S
  <1>5. PlaceElems(a) \in Seq(S)
    BY <1>1, <1>2, <1>3, IsASeq
  <1>6. DOMAIN PlaceElems(a) = 1..Len(a)
    BY <1>2
  <1>7. Len(PlaceElems(a)) = Len(a)
    BY <1>1, <1>5, <1>6, LenProperties
  <1> QED
    BY <1>1, <1>4, <1>5, <1>7 DEF f, S

LEMMA PlaceElemsConcat ==
    ASSUME NEW a \in Seq(ElemRecords), NEW b \in Seq(ElemRecords)
    PROVE  /\ a \o b \in Seq(ElemRecords)
           /\ PlaceElems(a \o b) = PlaceElems(a) \o PlaceElems(b)
  <1> DEFINE S == {[name |-> NameOf(e), key |-> KeysMeant(e)] : e \in ElemRecords}
             f(e) == [name |-> NameOf(e), key |-> KeysMeant(e)]
  <1>1. a \o b \in Seq(ElemRecords) /\ Len(a \o b) = Len(a) + Len(b)
        /\ \A i \in 1..(Len(a) + Len(b)) : (a \o b)[i] = IF i <= Len(a) THEN a[i] ELSE b[i - Len(a)]
    BY ConcatProperties
  <1>2. /\ PlaceElems(a) \in Seq(S) /\ Len(PlaceElems(a)) = Len(a) /\ Len(a) \in Nat
        /\ \A i \in 1..Len(a) : PlaceElems(a)[i] = f(a[i])
    BY PlaceElemsFacts
  <1>3. /\ PlaceElems(b) \in Seq(S) /\ Len(PlaceElems(b)) = Len(b) /\ Len(b) \in Nat
        /\ \A i \in 1..Len(b) : PlaceElems(b)[i] = f(b[i])
    BY PlaceElemsFacts
  <1>4. /\ PlaceElems(a \o b) \in Seq(S) /\ Len(PlaceElems(a \o b)) = Len(a) + Len(b)
        /\ \A i \in 1..(Len(a) + Len(b)) : PlaceElems(a \o b)[i] = f((a \o b)[i])
    BY <1>1, PlaceElemsFacts
  <1> HIDE DEF S, f
  <1> DEFINE pa == PlaceElems(a)  pb == PlaceElems(b)
  <1>5. /\ pa \o pb \in Seq(S) /\ Len(pa \o pb) = Len(a) + Len(b)
        /\ \A i \in 1..(Len(a) + Len(b)) : (pa \o pb)[i] = IF i <= Len(a) THEN pa[i] ELSE pb[i - Len(a)]
    <2>1. pa \in Seq(S) /\ pb \in Seq(S) /\ Len(pa) = Len(a) /\ Len(pb) = Len(b)
      BY <1>2, <1>3
    <2> HIDE DEF pa, pb
    <2>2. /\ pa \o pb \in Seq(S)
          /\ Len(pa \o pb) = Len(pa) + Len(pb)
          /\ \A i \in 1..(Len(pa) + Len(pb)) :
                (pa \o pb)[i] = IF i <= Len(pa) THEN pa[i] ELSE pb[i - Len(pa)]
      BY <2>1, ConcatProperties
    <2> QED
      BY <2>1, <2>2
  <1>6. \A i \in 1..(Len(a) + Len(b)) : PlaceElems(a \o b)[i] = (pa \o pb)[i]
    <2> SUFFICES ASSUME NEW i \in 1..(Len(a) + Len(b)) PROVE PlaceElems(a \o b)[i] = (pa \o pb)[i]
      OBVIOUS
    <2>1. CASE i <= Len(a)
      <3>1. i \in 1..Len(a)
        BY <1>2, <1>3, <2>1
      <3>2. PlaceElems(a)[i] = f(a[i]) /\ PlaceElems(a \o b)[i] = f((a \o b)[i]) /\ (a \o b)[i] = a[i]
        BY <1>1, <1>2, <1>4, <2>1, <3>1
      <3> QED
        BY <1>5, <2>1, <3>2
    <2>2. CASE ~(i <= Len(a))
      <3>1. i - Len(a) \in 1..Len(b)
        BY <1>2, <1>3, <2>2
      <3>2. /\ PlaceElems(b)[i - Len(a)] = f(b[i - Len(a)])
            /\ PlaceElems(a \o b)[i] = f((a \o b)[i]) /\ (a \o b)[i] = b[i - Len(a)]
        BY <1>1, <1>3, <1>4, <2>2, <3>1
      <3> QED
        BY <1>5, <2>2, <3>2
    <2> QED
      BY <2>1, <2>2
  <1>7. PlaceElems(a \o b) = pa \o pb
    <2> HIDE DEF pa, pb
    <2> QED
      BY <1>4, <1>5, <1>6, SeqEqual
  <1> QED
    BY <1>1, <1>7

LEMMA PlaceElemsFrom ==
    ASSUME NEW a \in Seq(ElemRecords), NEW k \in Nat, k <= Len(a)
    PROVE  /\ From(a, k + 1) \in Seq(ElemRecords)
           /\ \A i \in 1..Len(From(a, k + 1)) : \E n \in 1..Len(a) : From(a, k + 1)[i] = a[n]
           /\ From(PlaceElems(a), k + 1) = PlaceElems(From(a, k + 1))
  <1> DEFINE S == {[name |-> NameOf(e), key |-> KeysMeant(e)] : e \in ElemRecords}
             f(e) == [name |-> NameOf(e), key |-> KeysMeant(e)]
             pa == PlaceElems(a)  n == Len(a)  m == n - k
             t == From(a, k + 1)  pt == From(pa, k + 1)
  <1>1. /\ pa \in Seq(S) /\ Len(pa) = n /\ n \in Nat
        /\ \A i \in 1..n : pa[i] = f(a[i])
        /\ \A i \in 1..n : a[i] \in ElemRecords
    BY PlaceElemsFacts
  <1>2. \A i \in 1..n : pa[i] \in S
    BY <1>1, ElementOfSeq
  <1> HIDE DEF pa, f, S
  <1>3. /\ t \in Seq(ElemRecords) /\ Len(t) = m /\ m \in Nat
        /\ \A i \in 1..m : t[i] = a[k + i]
    <2>1. k + 1 \in Int /\ n \in Int /\ \A i \in (k + 1)..n : a[i] \in ElemRecords
      BY <1>1
    <2>2. /\ SubSeq(a, k + 1, n) \in Seq(ElemRecords)
          /\ Len(SubSeq(a, k + 1, n)) = IF k + 1 <= n THEN n - (k + 1) + 1 ELSE 0
          /\ \A i \in 1..(n - (k + 1) + 1) : SubSeq(a, k + 1, n)[i] = a[(k + 1) + i - 1]
      BY <2>1, SubSeqProperties
    <2>3. t = SubSeq(a, k + 1, n)
      BY DEF From
    <2> HIDE DEF t, n
    <2> QED
      BY <1>1, <2>2, <2>3 DEF n
  <1>4. /\ pt \in Seq(S) /\ Len(pt) = m /\ \A i \in 1..m : pt[i] = pa[k + i]
    <2>1. k + 1 \in Int /\ n \in Int /\ \A i \in (k + 1)..n : pa[i] \in S
      BY <1>1, <1>2
    <2>2. /\ SubSeq(pa, k + 1, n) \in Seq(S)
          /\ Len(SubSeq(pa, k + 1, n)) = IF k + 1 <= n THEN n - (k + 1) + 1 ELSE 0
          /\ \A i \in 1..(n - (k + 1) + 1) : SubSeq(pa, k + 1, n)[i] = pa[(k + 1) + i - 1]
      BY <2>1, SubSeqProperties
    <2>3. pt = SubSeq(pa, k + 1, n)
      BY <1>1 DEF From
    <2> HIDE DEF pt, n
    <2> QED
      BY <1>1, <2>2, <2>3 DEF n
  <1>5. /\ PlaceElems(t) \in Seq(S) /\ Len(PlaceElems(t)) = m
        /\ \A i \in 1..m : PlaceElems(t)[i] = f(t[i])
    <2>1. \A b \in Seq(ElemRecords) : /\ PlaceElems(b) \in Seq(S) /\ Len(PlaceElems(b)) = Len(b)
                                      /\ \A i \in 1..Len(b) : PlaceElems(b)[i] = f(b[i])
      BY PlaceElemsFacts DEF S, f
    <2> HIDE DEF t
    <2> QED
      BY <1>3, <2>1
  <1>6. \A i \in 1..m : k + i \in 1..n
    BY <1>1
  <1>7. \A i \in 1..m : pt[i] = PlaceElems(t)[i]
    <2> HIDE DEF pt, t, m, n
    <2> QED
      BY <1>1, <1>3, <1>4, <1>5, <1>6
  <1>8. pt = PlaceElems(t)
    <2> HIDE DEF pt, t, m, n
    <2> QED
      BY <1>4, <1>5, <1>7, SeqEqual
  <1>9. \A i \in 1..Len(t) : \E l \in 1..n : t[i] = a[l]
    <2> HIDE DEF t, m, n
    <2> QED
      BY <1>3, <1>6
  <1> QED
    BY <1>3, <1>8, <1>9 DEF pa

\* The elements a task puts in front of its paths.
LEMMA PrefixFacts ==
    ASSUME TypeOK
    PROVE  /\ PrefixElems \in Seq(ElemRecords)
           /\ \A i \in DOMAIN task.paths : task.paths[i].elems \in Seq(ElemRecords)
           /\ task.prefix # <<>> => 1 \in DOMAIN task.prefix
  <1>1. task.prefix # <<>> => 1 \in DOMAIN task.prefix
    <2>1. Len(task.prefix) \in Nat /\ DOMAIN task.prefix = 1..Len(task.prefix)
      BY TaskFacts
    <2>2. task.prefix \in Seq(PathRecords)
      BY TasksAssumption DEF TypeOK
    <2>3. task.prefix # <<>> => Len(task.prefix) # 0
      BY <2>2, EmptySeq
    <2> QED
      BY <2>1, <2>3
  <1>2. task.prefix # <<>> => task.prefix[1].elems \in Seq(ElemRecords)
    BY <1>1, TaskFacts, CarriedMeans
  <1> QED
    BY <1>1, <1>2, TaskFacts, CarriedMeans, EmptySeq DEF PrefixElems

LEMMA PlaceNamedIsMeant ==
    ASSUME TypeOK, Requested, \A i \in DOMAIN task.prefix : Carried(task.prefix[i]),
           NEW i \in DOMAIN task.paths, Carried(task.paths[i]), ~Overrides(task.paths[i])
    PROVE  PlaceNamed(request.path[i]) = PlaceMeant(task.paths[i])
  <1> DEFINE p == task.paths[i]  path == request.path[i]  prefix == request.prefix
             own == Own(p)  above == Own(task.prefix[1])
             option == task.origin  first == prefix[1]
  <1>1. p \in PathRecords /\ p \in Paths /\ option \in Origins
    BY TaskFacts
  <1>2. path.origin = (IF option # NotGiven THEN option ELSE own) /\ path.elem = PlaceElems(p.elems)
    <2>1. path = PathOf[p][option]
      BY DEF Requested
    <2>2. PathOf[p][option] = [origin |-> IF option # NotGiven THEN option ELSE own, elem |-> PlaceElems(p.elems)]
      <3> HIDE DEF p
      <3> QED
        BY <1>1, PathOfText DEF p
    <2> HIDE DEF path, p, own, option
    <2> QED
      BY <2>1, <2>2
  <1>3. prefix = [k \in DOMAIN task.prefix |-> PathOf[task.prefix[k]][option]]
    BY DEF Requested
  <1>4. CASE task.prefix = <<>>
    <2>1. prefix = <<>> /\ PrefixElems = <<>>
      BY <1>3, <1>4 DEF PrefixElems
    <2>2. PlaceNamed(path) = [origin |-> path.origin, elem |-> path.elem]
      BY <2>1 DEF PlaceNamed
    <2>3. FullElems(p) = p.elems
      <3>1. p.elems \in Seq(ElemRecords)
        BY PrefixFacts
      <3> HIDE DEF p
      <3> QED
        BY <2>1, <3>1, ConcatEmptySeq DEF FullElems
    <2>4. OriginMeant(p) = path.origin
      <3>1. OriginMeant(p) = IF p.origin # NoOrigin THEN p.origin ELSE IF option # NotGiven THEN option ELSE own
        BY <1>4 DEF OriginMeant
      <3>2. p.origin # NoOrigin => own = p.origin /\ option \in {NotGiven, p.origin}
        BY DEF Own, Overrides
      <3> HIDE DEF p, path, own, option
      <3> QED
        BY <1>2, <3>1, <3>2
    <2> HIDE DEF p, path
    <2> QED
      BY <1>2, <2>2, <2>3, <2>4 DEF PlaceMeant, p, path
  <1>5. CASE task.prefix # <<>>
    <2>1. 1 \in DOMAIN task.prefix /\ PrefixElems = task.prefix[1].elems
      BY <1>5, PrefixFacts DEF PrefixElems
    <2>2. task.prefix[1] \in PathRecords /\ task.prefix[1] \in Paths /\ Carried(task.prefix[1])
      BY <2>1, TaskFacts
    <2>3. prefix # <<>> /\ first = PathOf[task.prefix[1]][option]
      BY <1>3, <2>1
    <2>4. PathOf[task.prefix[1]][option] =
              [origin |-> IF option # NotGiven THEN option ELSE above,
               elem   |-> PlaceElems(task.prefix[1].elems)]
      BY <2>2, PathOfText
    <2>5. first.origin = (IF option # NotGiven THEN option ELSE above) /\ first.elem = PlaceElems(PrefixElems)
      <3> HIDE DEF first, above, option
      <3> QED
        BY <2>1, <2>3, <2>4
    <2>6. PlaceNamed(path) = [origin |-> IF path.origin # NoOrigin THEN path.origin ELSE first.origin,
                              elem   |-> first.elem \o path.elem]
      <3> HIDE DEF path
      <3> QED
        BY <2>3 DEF PlaceNamed
    <2>7. PlaceElems(FullElems(p)) = first.elem \o path.elem
      <3>1. PrefixElems \in Seq(ElemRecords) /\ p.elems \in Seq(ElemRecords)
        BY PrefixFacts
      <3> HIDE DEF p, path, first
      <3> QED
        BY <1>2, <2>5, <3>1, PlaceElemsConcat DEF FullElems
    <2>8. OriginMeant(p) = IF path.origin # NoOrigin THEN path.origin ELSE first.origin
      <3>1. OriginMeant(p) = IF p.origin # NoOrigin THEN p.origin ELSE IF option # NotGiven THEN option
                             ELSE IF own # NoOrigin THEN own ELSE above
        BY <1>5 DEF OriginMeant
      <3>2. p.origin # NoOrigin => own = p.origin /\ option \in {NotGiven, p.origin}
        BY DEF Own, Overrides
      <3> HIDE DEF p, path, first, own, above, option
      <3> QED
        BY <1>2, <2>5, <3>1, <3>2
    <2> HIDE DEF p, path, first
    <2> QED
      BY <2>6, <2>7, <2>8 DEF PlaceMeant, p, path
  <1> QED
    BY <1>4, <1>5

\* gnmi_client.py:556-626, 795-838: a task whose key values are free of slashes
\* and brackets, and whose option origin no path contradicts, fails with
\* NOT_FOUND only if the device lacks a place the user asked for, in whatever
\* origin, namespace, prefix and keys it was written; proved through the text of
\* the paths.
THEOREM NotFoundIsAbsent == Spec => []NotFoundOnlyIfAbsent
  <1>1. TypeOK /\ ReportInv => NotFoundOnlyIfAbsent
    <2> SUFFICES ASSUME TypeOK, ReportInv, code = "NOT_FOUND",
                        \A i \in DOMAIN task.prefix : Carried(task.prefix[i]),
                        \A i \in DOMAIN task.paths : Carried(task.paths[i]) /\ ~Overrides(task.paths[i]),
                        \A i \in DOMAIN task.paths : PlaceMeant(task.paths[i]) \in Tree
                 PROVE  FALSE
      BY DEF NotFoundOnlyIfAbsent
    <2>1. Requested /\ ~(Named \subseteq Tree)
      BY DEF ReportInv
    <2>2. PICK i \in DOMAIN request.path : PlaceNamed(request.path[i]) \notin Tree
      BY <2>1 DEF Named
    <2>3. i \in DOMAIN task.paths
      BY <2>1 DEF Requested
    <2>4. PlaceNamed(request.path[i]) = PlaceMeant(task.paths[i])
      BY <2>1, <2>3, PlaceNamedIsMeant
    <2> QED
      BY <2>2, <2>3, <2>4
  <1> QED
    BY <1>1, TypeCorrect, ReportCorrect, PTL
-----------------------------------------------------------------------------
(***************************************************************************)
(* What the report holds under a key is the value of the place the user    *)
(* wrote like this.                                                        *)
(***************************************************************************)
LEMMA TextOfUpdate ==
    ASSUME TypeOK, Requested,
           \A i \in DOMAIN task.prefix : Carried(task.prefix[i]) /\ OneKey(task.prefix[i]),
           NEW i \in DOMAIN task.paths,
           Carried(task.paths[i]) /\ OneKey(task.paths[i]) /\ ~Overrides(task.paths[i]),
           NEW u \in Updates(PlaceNamed(request.path[i]))
    PROVE  /\ EndsIn(task.paths[i], PathToString(u.path))
           /\ u.val.data = PlaceMeant(task.paths[i])
           /\ u.prefix = PlaceElems(PrefixElems) => PathToString(u.path) = ElemsText(task.paths[i].elems)
  <1> DEFINE p == task.paths[i]  full == FullElems(p)  place == PlaceMeant(p)
  <1>1. PlaceNamed(request.path[i]) = place
    BY PlaceNamedIsMeant
  <1>2. PrefixElems \in Seq(ElemRecords) /\ p.elems \in Seq(ElemRecords)
    BY PrefixFacts
  <1>3. full \in Seq(ElemRecords) /\ Len(full) \in Nat
    <2> HIDE DEF p
    <2>1. full \in Seq(ElemRecords)
      BY <1>2, ConcatProperties DEF FullElems
    <2> QED
      BY <2>1, LenProperties
  <1>4. place.elem = PlaceElems(full)
    BY DEF PlaceMeant
  <1>5. PICK k \in 0..Len(place.elem) :
            /\ u.prefix = SubSeq(place.elem, 1, k)
            /\ u.path = [origin |-> place.origin, elem |-> From(place.elem, k + 1)]
            /\ u.val.data = place
    <2> HIDE DEF place
    <2>1. u \in Updates(place)
      BY <1>1
    <2>2. PICK k \in 0..Len(place.elem), v \in Values :
              u = [prefix |-> SubSeq(place.elem, 1, k),
                   path   |-> [origin |-> place.origin, elem |-> From(place.elem, k + 1)],
                   val    |-> [field |-> v.field, valid |-> v.valid, data |-> place]]
      BY <2>1 DEF Updates
    <2> QED
      BY <2>2
  <1> DEFINE rest == From(full, k + 1)  r == [origin |-> NoOrigin, elems |-> rest]
  <1>6. Len(place.elem) = Len(full) /\ k \in Nat /\ k <= Len(full)
    <2>1. Len(place.elem) = Len(full)
      <3> HIDE DEF full, place
      <3> QED
        BY <1>3, <1>4, PlaceElemsFacts
    <2> HIDE DEF full, place
    <2> QED
      BY <1>3, <2>1
  <1>7. /\ rest \in Seq(ElemRecords) /\ From(place.elem, k + 1) = PlaceElems(rest)
        /\ \A n \in 1..Len(rest) : \E l \in 1..Len(full) : rest[n] = full[l]
    <2> HIDE DEF full, place
    <2> QED
      BY <1>3, <1>4, <1>6, PlaceElemsFrom
  <1>8. \A l \in 1..Len(full) : Len(full[l].keys) <= 1
    <2>1. /\ Len(full) = Len(PrefixElems) + Len(p.elems)
          /\ \A l \in 1..(Len(PrefixElems) + Len(p.elems)) :
                 full[l] = IF l <= Len(PrefixElems) THEN PrefixElems[l] ELSE p.elems[l - Len(PrefixElems)]
          /\ Len(PrefixElems) \in Nat /\ DOMAIN PrefixElems = 1..Len(PrefixElems)
          /\ Len(p.elems) \in Nat /\ DOMAIN p.elems = 1..Len(p.elems)
      <3> HIDE DEF p
      <3> QED
        BY <1>2, ConcatProperties, LenProperties DEF FullElems
    <2>2. \A l \in DOMAIN p.elems : Len(p.elems[l].keys) <= 1
      BY DEF OneKey
    <2>3. \A l \in DOMAIN PrefixElems : Len(PrefixElems[l].keys) <= 1
      <3>1. CASE task.prefix = <<>>
        BY <3>1 DEF PrefixElems
      <3>2. CASE task.prefix # <<>>
        <4>1. PrefixElems = task.prefix[1].elems /\ OneKey(task.prefix[1])
          BY <3>2, PrefixFacts DEF PrefixElems
        <4> QED
          BY <4>1 DEF OneKey
      <3> QED
        BY <3>1, <3>2
    <2> HIDE DEF p, full
    <2> SUFFICES ASSUME NEW l \in 1..Len(full) PROVE Len(full[l].keys) <= 1
      OBVIOUS
    <2>4. CASE l <= Len(PrefixElems)
      BY <2>1, <2>3, <2>4
    <2>5. CASE ~(l <= Len(PrefixElems))
      <3>1. l - Len(PrefixElems) \in DOMAIN p.elems
        BY <2>1, <2>5
      <3>2. full[l] = p.elems[l - Len(PrefixElems)]
        BY <2>1, <2>5
      <3> QED
        BY <2>2, <3>1, <3>2
    <2> QED
      BY <2>4, <2>5
  <1>9. r \in PathRecords /\ OneKey(r) /\ r.elems = rest
    <2>1. DOMAIN rest = 1..Len(rest)
      <3> HIDE DEF rest
      <3> QED
        BY <1>7, LenProperties
    <2>2. \A n \in DOMAIN rest : Len(rest[n].keys) <= 1
      <3> HIDE DEF rest, full
      <3> QED
        BY <1>7, <1>8, <2>1
    <2> HIDE DEF rest
    <2> QED
      BY <1>7, <2>2 DEF PathRecords, OneKey
  <1>10. PathToString(u.path) = ElemsText(rest)
    <2> HIDE DEF r, rest, place
    <2>1. PathToString([origin |-> place.origin, elem |-> PlaceElems(r.elems)]) = ElemsText(r.elems)
      BY <1>9, PathToStringOfPlace
    <2> QED
      BY <1>5, <1>7, <1>9, <2>1
  <1>11. EndsIn(p, PathToString(u.path))
    <2>1. k + 1 \in 1..(Len(full) + 1)
      <3> HIDE DEF full
      <3> QED
        BY <1>3, <1>6
    <2> HIDE DEF p
    <2> QED
      BY <1>10, <2>1 DEF EndsIn
  <1>12. u.prefix = PlaceElems(PrefixElems) => rest = p.elems
    <2> SUFFICES ASSUME u.prefix = PlaceElems(PrefixElems) PROVE rest = p.elems
      OBVIOUS
    <2>1. Len(PlaceElems(PrefixElems)) = Len(PrefixElems)
      BY <1>2, PlaceElemsFacts
    <2>2. Len(SubSeq(place.elem, 1, k)) = k
      <3>1. PlaceElems(full) \in Seq({[name |-> NameOf(e), key |-> KeysMeant(e)] : e \in ElemRecords})
        <4> HIDE DEF full
        <4> QED
          BY <1>3, PlaceElemsFacts
      <3> DEFINE S == {[name |-> NameOf(e), key |-> KeysMeant(e)] : e \in ElemRecords}  e == place.elem
      <3>2. e \in Seq(S) /\ k <= Len(e) /\ k \in Nat
        BY <1>4, <1>6, <3>1
      <3> HIDE DEF S, e
      <3>3. \A n \in 1..k : e[n] \in S
        BY <3>2, ElementOfSeq, LenProperties
      <3>4. Len(SubSeq(e, 1, k)) = IF 1 <= k THEN k - 1 + 1 ELSE 0
        BY <3>2, <3>3, SubSeqProperties
      <3> QED
        BY <3>2, <3>4 DEF e
    <2>3. k = Len(PrefixElems)
      BY <1>5, <2>1, <2>2
    <2>4. From(PrefixElems \o p.elems, Len(PrefixElems) + 1) = p.elems
      <3> HIDE DEF p
      <3> QED
        BY <1>2, CutBehind
    <2> QED
      BY <2>3, <2>4 DEF FullElems
  <1> QED
    BY <1>5, <1>10, <1>11, <1>12

\* The value under a key is the one of an update with that key.
LEMMA ReportHolds ==
    ASSUME NEW updates, NEW m \in Nat, DOMAIN updates = 1..m, NEW n \in DOMAIN updates
    PROVE  /\ PathToString(updates[n].path) \in DOMAIN ReportOf(updates)
           /\ \E l \in DOMAIN updates :
                 /\ PathToString(updates[l].path) = PathToString(updates[n].path)
                 /\ ReportOf(updates)[PathToString(updates[n].path)] = ParseTypedValue(updates[l].val)
  <1> DEFINE key(i) == PathToString(updates[i].path)
             Last(k, i) == key(i) = k /\ \A j \in DOMAIN updates : key(j) = k => j <= i
             last(k) == CHOOSE i \in DOMAIN updates : Last(k, i)
             k0 == key(n)
             T == {i \in DOMAIN updates : key(i) = k0}
  <1>1. ReportOf(updates) = [k \in {key(i) : i \in DOMAIN updates} |-> ParseTypedValue(updates[last(k)].val)]
    BY DEF ReportOf
  <1>2. k0 \in {key(i) : i \in DOMAIN updates}
    OBVIOUS
  <1>3. T \in SUBSET (1..m) /\ T # {}
    OBVIOUS
  <1>4. PICK i \in T : \A j \in T : j <= i
    <2> HIDE DEF T
    <2> QED
      BY <1>3, LastIndex
  <1>5. i \in DOMAIN updates /\ Last(k0, i)
    BY <1>4
  <1>6. last(k0) \in DOMAIN updates /\ key(last(k0)) = k0
    <2>1. last(k0) \in DOMAIN updates /\ Last(k0, last(k0))
      <3> HIDE DEF Last, k0
      <3> QED
        BY <1>5
    <2> QED
      BY <2>1
  <1> HIDE DEF last
  <1>7. k0 \in DOMAIN ReportOf(updates) /\ ReportOf(updates)[k0] = ParseTypedValue(updates[last(k0)].val)
    BY <1>1, <1>2
  <1> QED
    BY <1>6, <1>7

LEMMA ReportKeys ==
    ASSUME NEW updates, NEW key \in DOMAIN ReportOf(updates)
    PROVE  \E n \in DOMAIN updates : key = PathToString(updates[n].path)
  BY DEF ReportOf

\* gnmi_client.py:556-626, 650-659, 795-838: for a task whose key values are free
\* of slashes and brackets, with at most one key to an element and no path that
\* contradicts the option origin, and whatever prefixes and order the device
\* answers with: every value of the report is that of a place the task asked
\* for, under how the end of that place is written; if the device keeps to the
\* prefix of the task, each path asked for is a key, and the value there is that
\* of its place or of one asked for that differs in its origin alone.  Proved
\* through the text of the paths, the order of the updates and the keys of the
\* report.
THEOREM ReportIsAnswer == Spec => []ReportAnswersTheTask
  <1>1. TypeOK /\ ReportInv => ReportAnswersTheTask
    <2> DEFINE asked == {task.paths[i] : i \in DOMAIN task.paths}
               parsed == \A j \in DOMAIN answer : answer[j].val.field \in ParsedFields
    <2> SUFFICES ASSUME TypeOK, ReportInv, outcome = "succeeded", task.operation = "get",
                        \A p \in asked : Carried(p) /\ OneKey(p) /\ ~Overrides(p),
                        \A i \in DOMAIN task.prefix : Carried(task.prefix[i]) /\ OneKey(task.prefix[i])
                 PROVE  /\ \A key \in DOMAIN data : \E p \in asked :
                               EndsIn(p, key) /\ (parsed => data[key] = PlaceMeant(p))
                        /\ Aligned => \A p \in asked :
                               /\ ElemsText(p.elems) \in DOMAIN data
                               /\ parsed => \E q \in asked :
                                      /\ PlaceElems(q.elems) = PlaceElems(p.elems)
                                      /\ data[ElemsText(p.elems)] = PlaceMeant(q)
      BY DEF ReportAnswersTheTask
    <2>1. Requested /\ Answered /\ data = ReportOf(answer)
      BY DEF ReportInv, Succeeded
    <2>2. /\ DOMAIN answer = DOMAIN task.paths
          /\ \A j \in DOMAIN answer : \E i \in DOMAIN task.paths :
                 answer[j] \in Updates(PlaceNamed(request.path[i]))
          /\ \A i \in DOMAIN task.paths : \E j \in DOMAIN answer :
                 answer[j] \in Updates(PlaceNamed(request.path[i]))
      BY <2>1 DEF Answered, Requested
    <2>3. DOMAIN answer = 1..Len(task.paths) /\ Len(task.paths) \in Nat
      BY <2>2, TaskFacts
    <2>4. \A i \in DOMAIN task.paths : task.paths[i] \in asked
      OBVIOUS
    <2>5. \A i \in DOMAIN task.paths :
              Carried(task.paths[i]) /\ OneKey(task.paths[i]) /\ ~Overrides(task.paths[i])
      OBVIOUS
    <2>6. \A i \in DOMAIN task.paths : \A u \in Updates(PlaceNamed(request.path[i])) :
              /\ EndsIn(task.paths[i], PathToString(u.path))
              /\ u.val.data = PlaceMeant(task.paths[i])
              /\ u.prefix = PlaceElems(PrefixElems) =>
                     PathToString(u.path) = ElemsText(task.paths[i].elems)
      BY <2>1, <2>5, TextOfUpdate
    <2>7. ASSUME NEW n \in DOMAIN answer
          PROVE  LET key == PathToString(answer[n].path) IN
                 /\ key \in DOMAIN data
                 /\ \E l \in DOMAIN answer :
                        /\ PathToString(answer[l].path) = key
                        /\ data[key] = ParseTypedValue(answer[l].val)
      BY <2>1, <2>3, <2>7, ReportHolds
    <2>8. ASSUME parsed, NEW l \in DOMAIN answer
          PROVE  ParseTypedValue(answer[l].val) = answer[l].val.data
      BY <2>8 DEF ParseTypedValue
    <2>9. ASSUME NEW key \in DOMAIN data
          PROVE  \E p \in asked : EndsIn(p, key) /\ (parsed => data[key] = PlaceMeant(p))
      <3>1. PICK n \in DOMAIN answer : key = PathToString(answer[n].path)
        BY <2>1, <2>9, ReportKeys
      <3>2. PICK l \in DOMAIN answer : /\ PathToString(answer[l].path) = key
                                       /\ data[key] = ParseTypedValue(answer[l].val)
        BY <2>7, <3>1
      <3>3. PICK i \in DOMAIN task.paths : answer[l] \in Updates(PlaceNamed(request.path[i]))
        BY <2>2
      <3>4. EndsIn(task.paths[i], key) /\ answer[l].val.data = PlaceMeant(task.paths[i])
        BY <2>6, <3>2, <3>3
      <3>5. parsed => data[key] = PlaceMeant(task.paths[i])
        BY <2>8, <3>2, <3>4
      <3> HIDE DEF asked, parsed
      <3> QED
        BY <2>4, <3>4, <3>5
    <2>10. ASSUME Aligned, NEW n \in DOMAIN task.paths
           PROVE  /\ ElemsText(task.paths[n].elems) \in DOMAIN data
                  /\ parsed => \E q \in asked :
                         /\ PlaceElems(q.elems) = PlaceElems(task.paths[n].elems)
                         /\ data[ElemsText(task.paths[n].elems)] = PlaceMeant(q)
      <3> DEFINE key == ElemsText(task.paths[n].elems)
      <3>1. PICK j \in DOMAIN answer : answer[j] \in Updates(PlaceNamed(request.path[n]))
        BY <2>2
      <3>2. \A l \in DOMAIN answer : answer[l].prefix = PlaceElems(PrefixElems)
        BY <2>10 DEF Aligned
      <3>3. key = PathToString(answer[j].path)
        BY <2>6, <3>1, <3>2
      <3> HIDE DEF key
      <3>4. key \in DOMAIN data
        BY <2>7, <3>3
      <3>5. PICK l \in DOMAIN answer : /\ PathToString(answer[l].path) = key
                                       /\ data[key] = ParseTypedValue(answer[l].val)
        BY <2>7, <3>3
      <3>6. PICK i \in DOMAIN task.paths : answer[l] \in Updates(PlaceNamed(request.path[i]))
        BY <2>2
      <3>7. ElemsText(task.paths[i].elems) = key /\ answer[l].val.data = PlaceMeant(task.paths[i])
        BY <2>6, <3>2, <3>5, <3>6
      <3>8. PlaceElems(task.paths[i].elems) = PlaceElems(task.paths[n].elems)
        BY <2>5, <3>7, TaskFacts, ElemsTextIsUnambiguous DEF key
      <3>9. parsed => data[key] = PlaceMeant(task.paths[i])
        BY <2>8, <3>5, <3>7
      <3>10. task.paths[i] \in asked
        BY <2>4
      <3> HIDE DEF asked, parsed
      <3> QED
        BY <3>4, <3>8, <3>9, <3>10 DEF key
    <2> HIDE DEF parsed
    <2> QED
      BY <2>9, <2>10
  <1> QED
    BY <1>1, TypeCorrect, ReportCorrect, PTL
=============================================================================
