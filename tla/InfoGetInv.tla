----------------------------- MODULE InfoGetInv ------------------------------
(***************************************************************************)
(* The inductive invariants behind the theorems of InfoGetProofs.          *)
(***************************************************************************)
EXTENDS InfoGet

Early == {"create", "connect"}

\* Nothing is trusted before the options were read.
UntrustedInv ==
    /\ phase \in Early => roots = NoCert
    /\ phase \in Early \cup {"fetch"} => fetched = NoCert
    /\ phase \in Early \cup {"fetch", "credentials"} => channel = "none"
    /\ phase \in {"fetch", "credentials"} => ~opts.insecure
    /\ phase = "fetch" => UsesFirstUse

\* The roots of a channel with TLS are those the options ask for.
RootsAsked ==
    CASE opts.ca = "file" -> roots = CaCert
      [] UsesFirstUse     -> roots = fetched /\ fetched \in Certs /\ warned
      [] opts.ca = "none" /\ ~opts.skipVerify -> roots = NoCert
      [] OTHER            -> FALSE

ChannelInv ==
    /\ channel = "plaintext" => opts.insecure
    /\ opts.insecure => fetched = NoCert /\ session = NoCert
    /\ phase = "credentials" \/ channel = "tls" => RootsAsked
    /\ channel = "tls" => ~opts.insecure /\ override = TargetName

\* A session is one the handshake accepted with those roots.
SessionInv ==
    /\ phase \notin {"disconnected", "failed"} /\ channel = "none" => sent = "none"
    /\ sent = "none" => session = NoCert
    /\ sent # "none" /\ ~opts.insecure => session \in Certs /\ Accepts(session) /\ RootsAsked /\ override = TargetName

IInv == TypeOK /\ UntrustedInv /\ ChannelInv /\ SessionInv

-----------------------------------------------------------------------------
Requested ==
    request = [path   |-> [i \in DOMAIN task.paths |-> PathOf[task.paths[i]][task.origin]],
               prefix |-> [i \in DOMAIN task.prefix |-> PathOf[task.prefix[i]][task.origin]]]

\* Each update is one of a place the request names, and each of these has one.
Answered ==
    /\ DOMAIN answer = DOMAIN request.path
    /\ \A j \in DOMAIN answer : \E i \in DOMAIN request.path :
           answer[j] \in Updates(PlaceNamed(request.path[i]))
    /\ \A i \in DOMAIN request.path : \E j \in DOMAIN answer :
           answer[j] \in Updates(PlaceNamed(request.path[i]))

Succeeded == phase = "succeeded" \/ outcome = "succeeded"

\* What a Get has come to at each of its steps.
ReportInv ==
    /\ phase # "disconnected" => outcome = "none"
    /\ phase \in Early \cup {"fetch", "credentials", "connected", "call", "wait"} => code = "none"
    /\ code = "NOT_FOUND" => task.operation = "get" /\ ~(Named \subseteq Tree)
    /\ task.operation = "get" =>
           /\ phase \in {"call", "wait", "answered"} \/ Succeeded \/ code # "none" => Requested
           /\ phase = "answered" \/ Succeeded => Answered
           /\ Succeeded => data = ReportOf(answer)
=============================================================================
