------------------------------ MODULE Transport ------------------------------
(***************************************************************************)
(* How both clients reach the device: connect and what it calls            *)
(* (gnmi_client.py 404-543, gnoi/client.py 160-328), the handshake of the  *)
(* first RPC, disconnect.  The certificate of trust on first use is        *)
(* fetched over a connection of its own; the channel shakes hands only     *)
(* when the first RPC is called, and the device may present another        *)
(* certificate by then.                                                    *)
(*                                                                         *)
(* The actions are those of one task; a module that EXTENDS this one adds  *)
(* the RPC.                                                                *)
(***************************************************************************)
EXTENDS Naturals

CONSTANTS
    Options,    \* the connection options of the tasks
    Certs,      \* the certificates a device may present
    CaCert,     \* the certificate in the file ca_cert
    Host,       \* the name the task connects to
    NoCert      \* no certificate

\* issuer: "self", "pinned" (CaCert) or "public" (a root the system trusts);
\* names: what the certificate vouches for; cn: its common name or
\* "none".
OptionRecords ==
    [port : {"valid", "invalid"}, insecure : BOOLEAN, ca : {"none", "file", "missing"},
     skipVerify : BOOLEAN, clientCert : {"none", "file", "missing"}, clientKey : {"none", "file", "missing"},
     serverName : STRING, token : BOOLEAN]

ASSUME TransportAssumption ==
    /\ Options \subseteq OptionRecords
    /\ NoCert \notin Certs \cup {CaCert}

VARIABLES
    opts,       \* the options
    phase,      \* where the task is
    roots,      \* root_certificates: a certificate, or NoCert for None
    override,   \* grpc.ssl_target_name_override, or "none"
    channel,    \* "none", "plaintext", "tls" or "closed"
    warned,     \* the warning of tls_skip_verify was given
    session,    \* the certificate the handshake accepted
    held,       \* the certificate the device presents now
    fetched     \* history: the certificate that was fetched

connVars == <<roots, override, channel, warned, fetched>>
transportVars == <<opts, phase, connVars, session, held>>

-----------------------------------------------------------------------------
TransportInit ==
    /\ opts \in Options /\ phase = "create"
    /\ roots = NoCert /\ override = "none"
    /\ channel = "none" /\ warned = FALSE
    /\ session = NoCert /\ held \in Certs /\ fetched = NoCert

\* GnmiClient(...): _validate_config; the choices of
\* encoding and platform have been checked by the argument spec.
CreateClient ==
    /\ phase = "create"
    /\ phase' = IF opts.port = "valid" THEN "connect" ELSE "failed"
    /\ UNCHANGED <<opts, connVars, session, held>>

\* GnmiConnectionError, which run turns into fail_json.
ConnectFails == phase' = "failed" /\ UNCHANGED <<roots, override, channel, warned, fetched>>

\* insecure wins over every other option: no file is read.
OpenPlaintext ==
    /\ phase = "connect" /\ opts.insecure
    /\ channel' = "plaintext" /\ phase' = "connected"
    /\ UNCHANGED <<opts, roots, override, warned, fetched, session, held>>

\* Seeded fault: tls_skip_verify wins over a pinned CA.
UsesFirstUseOverPin == opts.skipVerify

\* ca_cert_data is None and self.tls_skip_verify
UsesFirstUse == opts.ca = "none" /\ opts.skipVerify

\* _read_cert_file of ca_cert; a file that cannot be read is an error.
ReadCaCert ==
    /\ phase = "connect" /\ ~opts.insecure
    /\ \/ opts.ca = "missing" /\ ConnectFails
       \/ /\ opts.ca # "missing"
          /\ roots' = IF opts.ca = "file" THEN CaCert ELSE NoCert
          /\ phase' = IF UsesFirstUse THEN "fetch" ELSE "credentials"
          /\ UNCHANGED <<override, channel, warned, fetched>>
    /\ UNCHANGED <<opts, session, held>>

\* _fetch_server_certificate: what the device presents now, or an error.
FetchServerCertificate ==
    /\ phase = "fetch"
    /\ \/ ConnectFails
       \/ /\ roots' = held /\ fetched' = held /\ warned' = TRUE
          /\ phase' = "credentials"
          /\ UNCHANGED <<override, channel>>
    /\ UNCHANGED <<opts, session, held>>

\* An explicit name, else the common name of the root that is trusted, which
\* takes the cryptography package: taken to be installed.
TargetName ==
    IF opts.serverName # "none" THEN opts.serverName
    ELSE IF roots # NoCert THEN roots.cn
    ELSE "none"

\* A client certificate counts only together with its key.
UsesClientCert == opts.clientCert # "none" /\ opts.clientKey # "none"

ClientCertMissing == UsesClientCert /\ "missing" \in {opts.clientCert, opts.clientKey}

\* _read_cert_file of both, ssl_channel_credentials, secure_channel, the stub.
OpenSecure ==
    /\ phase = "credentials"
    /\ \/ ClientCertMissing /\ ConnectFails
       \/ /\ ~ClientCertMissing
          /\ override' = TargetName
          /\ channel' = "tls" /\ phase' = "connected"
          /\ UNCHANGED <<roots, warned, fetched>>
    /\ UNCHANGED <<opts, session, held>>

Connect == CreateClient \/ OpenPlaintext \/ ReadCaCert \/ FetchServerCertificate \/ OpenSecure

-----------------------------------------------------------------------------
(***************************************************************************)
(* TLS in gRPC.                                                            *)
(***************************************************************************)
\* root is the certificate itself, or the authority that issued it.
Anchors(root, cert) ==
    \/ cert = root
    \/ root = CaCert /\ cert.issuer = "pinned"

\* Without roots of its own a channel takes the system's.
Verifies(cert) == IF roots = NoCert THEN cert.issuer = "public" ELSE Anchors(roots, cert)

\* The name asked for is one the certificate vouches for.
Vouches(cert) == (IF override = "none" THEN Host ELSE override) \in cert.names

Accepts(cert) == Verifies(cert) /\ Vouches(cert)

\* The first RPC of the channel: its request goes out behind the handshake.
Reached ==
    \/ channel = "plaintext" /\ UNCHANGED session
    \/ channel = "tls" /\ Accepts(held) /\ session' = held

NotReached == channel = "tls" /\ ~Accepts(held)

\* Seeded fault: only a task that succeeded closes its channel.
ClosesAfterSuccess ==
    channel' = IF channel = "none" \/ phase = "failed" THEN channel ELSE "closed"

\* channel.close() of the finally, if there is a channel.
CloseChannel == channel' = IF channel = "none" THEN "none" ELSE "closed"

\* The device gets another certificate, or another device has the address.
CertificateChanges ==
    /\ held' \in Certs
    /\ UNCHANGED <<opts, phase, connVars, session>>

-----------------------------------------------------------------------------
TransportTypeOK ==
    /\ opts \in Options
    /\ roots \in Certs \cup {NoCert, CaCert}
    /\ override = "none" \/ override \in {opts.serverName} \cup {c.cn : c \in Certs \cup {CaCert}}
    /\ warned \in BOOLEAN
    /\ channel \in {"none", "plaintext", "tls", "closed"}
    /\ session \in Certs \cup {NoCert}
    /\ held \in Certs
    /\ fetched \in Certs \cup {NoCert}

\* What the options ask of the certificate of a session: "insecure (plaintext)
\* wins if set; otherwise an explicit ca_cert pin takes priority over
\* tls_skip_verify" (README.md:175-176).
Trusted(cert) ==
    /\ CASE opts.ca = "file" -> Anchors(CaCert, cert)
         [] opts.ca = "none" /\ opts.skipVerify -> warned /\ fetched # NoCert /\ Anchors(fetched, cert)
         [] OTHER -> cert.issuer = "public"
    /\ opts.serverName # "none" => opts.serverName \in cert.names
=============================================================================
