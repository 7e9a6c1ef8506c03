------------------------------ MODULE MCInfoGet ------------------------------
(***************************************************************************)
(* Instance for TLC: every order of precedence among the connection        *)
(* options, and every form a path can be written in: with an origin of its *)
(* own, by the namespace of its first element, by the option, an empty one *)
(* included, below a prefix, with no, one or two keys.  The device lacks   *)
(* one of the places asked for.                                            *)
(***************************************************************************)
EXTENDS InfoGetInv

Cert(i, cn, names) == [issuer |-> i, cn |-> cn, names |-> names]
MCCaCert == Cert("self", "lab-ca", {"lab-ca"})

\* The authority itself, two that a device makes up for itself, one that the
\* authority and one that a public root issued.
MCCerts ==
    {MCCaCert, Cert("self", "router", {"router"}), Cert("self", "none", {"10.0.0.1"}),
     Cert("pinned", "none", {"10.0.0.1", "lab-ca"}), Cert("public", "router", {"router", "10.0.0.1"})}

Plain ==
    [port |-> "valid", insecure |-> FALSE, ca |-> "none", skipVerify |-> FALSE,
     clientCert |-> "none", clientKey |-> "none", serverName |-> "none", token |-> FALSE]

MCOptions ==
    {Plain, [Plain EXCEPT !.port = "invalid"],
     [Plain EXCEPT !.insecure = TRUE, !.ca = "missing", !.skipVerify = TRUE],
     [Plain EXCEPT !.skipVerify = TRUE, !.clientCert = "missing"],
     [Plain EXCEPT !.skipVerify = TRUE, !.ca = "file", !.token = TRUE],
     [Plain EXCEPT !.ca = "missing"],
     [Plain EXCEPT !.ca = "file", !.serverName = "router"],
     [Plain EXCEPT !.clientCert = "missing", !.clientKey = "file"],
     [Plain EXCEPT !.clientCert = "file", !.clientKey = "missing"]}

-----------------------------------------------------------------------------
Elem(ns, name, keys) == [ns |-> ns, name |-> name, keys |-> keys]
Path(origin, elems) == [origin |-> origin, elems |-> elems]

Interface(keys) == <<Elem("", "interfaces", <<>>), Elem("", "interface", keys)>>
Key(name, value) == [name |-> name, value |-> value]
Named1(name) == <<Key("name", name)>>

Gi1 == Path("", Interface(Named1(<<"Gi1">>)))
OriginGi1 == Path("openconfig", Interface(Named1(<<"Gi1">>)))
SlashGi == Path("", Interface(Named1(<<"Gi1", "/", "0">>)))
Native == Path("", <<Elem("Cisco-IOS-XE-native", "native", <<>>), Elem("", "hostname", <<>>)>>)
Openconfig == Path("", <<Elem("openconfig-interfaces", "interfaces", <<>>)>>)
Vendor == Path("", <<Elem("vendor", "top", Named1(<<"a", "=", "b", ":", "10.0.0.1">>))>>)
Neighbor(keys) == Path("", <<Elem("", "neighbor", keys)>>)
Relative == Neighbor(<<Key("afi", <<"ipv4">>), Key("id", <<>>)>>)
Siblings == <<Neighbor(<<Key("id", <<"a">>)>>), Neighbor(<<Key("id", <<"b">>)>>)>>
Root == Path("openconfig", <<>>)

Get(paths) ==
    [operation |-> "get", paths |-> paths, prefix |-> <<>>, origin |-> NotGiven,
     platform |-> "auto", encoding |-> "json_ietf"]

MCTasks ==
    {[Get(<<>>) EXCEPT !.operation = "capabilities"],
     Get(<<>>), [Get(<<Gi1>>) EXCEPT !.platform = "iosxe", !.encoding = "proto"],
     Get(<<Gi1, Native>>), Get(<<OriginGi1, Gi1>>), Get(<<SlashGi>>), Get(<<Vendor>>), Get(<<Openconfig, Vendor>>), Get(<<Root>>),
     [Get(<<Relative>>) EXCEPT !.prefix = <<Openconfig>>],
     [Get(Siblings) EXCEPT !.prefix = <<Openconfig>>],
     [Get(<<Native>>) EXCEPT !.origin = "openconfig"],
     [Get(<<OriginGi1, Gi1>>) EXCEPT !.origin = "openconfig"],
     [Get(<<Openconfig>>) EXCEPT !.origin = NoOrigin],
     [Get(<<Gi1, OriginGi1>>) EXCEPT !.origin = "rfc7951"]}

At(origin, p) == [origin |-> origin, elem |-> PlaceElems(p.elems)]

MCTree ==
    {At("", Gi1), At("openconfig", Gi1), At("rfc7951", Gi1), At("", SlashGi), At("", Vendor), At("rfc7951", Native), At("openconfig", Root),
     At("openconfig", Native), At("", Openconfig)} \cup
    {At("openconfig", Path("", Openconfig.elems \o p.elems)) : p \in {Relative, Siblings[1], Siblings[2]}}

MCIdentifiers ==
    {"openconfig", "rfc7951", "Cisco-IOS-XE-native", "openconfig-interfaces", "vendor",
     "interfaces", "interface", "native", "hostname", "top", "neighbor",
     "name", "afi", "id", "Gi1", "0", "a", "b", "ipv4"}
MCWords == MCIdentifiers \cup {"10.0.0.1"}
MCNativeNamespaces == {"Cisco-IOS-XE-native"}
MCOpenconfigNamespaces == {"openconfig-interfaces"}
=============================================================================
