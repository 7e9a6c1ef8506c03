------------------------------- MODULE InfoGet -------------------------------
(***************************************************************************)
(* One task of cisco.gnmi.info or cisco.gnmi.capabilities: connect,        *)
(* execute_get or execute_capabilities (module_helper.py 217-246),         *)
(* GnmiClient.get or capabilities (gnmi_client.py 723-838), disconnect.    *)
(* It composes Transport, which brings the request to a device, with       *)
(* GnmiPath, which says what device data a request names and under which   *)
(* key the report holds it.                                                *)
(*                                                                         *)
(* The user asks for places in the device's data, structured paths that    *)
(* AsText writes down.  The device answers with the value of each place    *)
(* that was named to it; the value of a place is the place itself, so a    *)
(* report that mixes up two places can be told.                            *)
(***************************************************************************)
EXTENDS Transport, GnmiPath

CONSTANTS
    Tasks,    \* what the playbook asks for
    Tree      \* the places the device has

ASSUME TasksAssumption ==
    /\ Tasks \subseteq
           [operation : {"get", "capabilities"}, paths : Seq(PathRecords), prefix : Seq(PathRecords),
            origin : Words \cup {NoOrigin, NotGiven}, platform : STRING, encoding : STRING]
    /\ \A t \in Tasks : Len(t.prefix) <= 1

VARIABLES
    task,      \* operation, paths, prefix, origin, platform and encoding
    request,   \* path and prefix of the GetRequest
    sent,      \* the metadata the request went out with, or "none"
    code,      \* status of the RPC
    answer,    \* the updates of the response, each with the prefix it came under
    data,      \* result['data']
    outcome    \* "succeeded" or "failed", once reported

taskVars == <<task, request, sent, code, answer, data, outcome>>
vars == <<transportVars, taskVars>>

Formats == {"json_ietf_val", "string_val", "double_val"}

-----------------------------------------------------------------------------
\* "This per-path origin overrides the module-level origin option"
\* (info.py:50-51): the origin in front of a path, else the option, else what
\* the namespace says, else what the prefix says.
OriginMeant(p) ==
    IF p.origin # NoOrigin THEN p.origin
    ELSE IF task.origin # NotGiven THEN task.origin
    ELSE IF Own(p) # NoOrigin \/ task.prefix = <<>> THEN Own(p)
    ELSE Own(task.prefix[1])

\* A path that says otherwise than the option; the code lets the option win
\* (gnmi_client.py:625).
Overrides(p) == p.origin # NoOrigin /\ task.origin \notin {NotGiven, p.origin}

PrefixElems == IF task.prefix = <<>> THEN <<>> ELSE task.prefix[1].elems
FullElems(p) == PrefixElems \o p.elems

PlaceMeant(p) == [origin |-> OriginMeant(p), elem |-> PlaceElems(FullElems(p))]

-----------------------------------------------------------------------------
\* _build_path over the texts of the tasks.
Paths == UNION {{t.paths[i] : i \in DOMAIN t.paths} \cup {t.prefix[i] : i \in DOMAIN t.prefix} : t \in Tasks}
Origins == {t.origin : t \in Tasks}
PathOf == [p \in Paths |-> [origin \in Origins |-> BuildPath(AsText(p), origin)]]
Built == UNION {{PathOf[p][origin] : origin \in Origins} : p \in Paths}

Init ==
    /\ TransportInit /\ task \in Tasks
    /\ request = [path |-> <<>>, prefix |-> <<>>]
    /\ sent = "none" /\ code = "none" /\ answer = <<>>
    /\ data = <<>> /\ outcome = "none"

Fail == phase' = "failed"

\* PLATFORM_PROFILES blocks PROTO for Get on the one platform it lists it for.
Blocked == task.platform = "iosxe" /\ task.encoding = "proto"

\* execute_get: 'paths' must not be empty, then _check_encoding_for_op, then
\* the request is built; capabilities has none of it.
Prepare ==
    /\ phase = "connected"
    /\ \/ task.operation = "capabilities" /\ phase' = "call" /\ UNCHANGED request
       \/ task.operation = "get" /\ (task.paths = <<>> \/ Blocked) /\ Fail /\ UNCHANGED request
       \/ /\ task.operation = "get" /\ task.paths # <<>> /\ ~Blocked
          /\ request' =
               [path   |-> [i \in DOMAIN task.paths |-> PathOf[task.paths[i]][task.origin]],
                prefix |-> [i \in DOMAIN task.prefix |-> PathOf[task.prefix[i]][task.origin]]]
          /\ phase' = "call"
    /\ UNCHANGED <<opts, connVars, session, held, task, sent, code, answer, data, outcome>>

\* Seeded fault: without a token no credentials are sent.
MetadataOfToken == IF opts.token THEN "bearer" ELSE "nothing"

\* A token wins over username and password.
Metadata == IF opts.token THEN "bearer" ELSE "password"

\* stub.Get or stub.Capabilities: the handshake, then the request.
CallRpc ==
    /\ phase = "call"
    /\ \/ Reached /\ sent' = Metadata /\ phase' = "wait" /\ UNCHANGED code
       \/ NotReached /\ code' = "UNAVAILABLE" /\ Fail /\ UNCHANGED <<session, sent>>
    /\ UNCHANGED <<opts, connVars, held, task, request, answer, data, outcome>>

-----------------------------------------------------------------------------
(***************************************************************************)
(* Device.  A path names the place below the prefix.  The device answers   *)
(* it with a notification that may come in any order and may say any part  *)
(* of the place in its own prefix, the rest in the path of the update.     *)
(***************************************************************************)
PlaceNamed(path) ==
    [origin |-> IF path.origin # NoOrigin \/ request.prefix = <<>> THEN path.origin
                ELSE request.prefix[1].origin,
     elem   |-> IF request.prefix = <<>> THEN path.elem ELSE request.prefix[1].elem \o path.elem]

Named == {PlaceNamed(request.path[i]) : i \in DOMAIN request.path}

\* Only JSON can be malformed.
Values == {v \in [field : Formats, valid : BOOLEAN] : v.field \in JsonFields \/ v.valid}

Updates(place) ==
    {[prefix |-> SubSeq(place.elem, 1, k),
      path   |-> [origin |-> place.origin, elem |-> From(place.elem, k + 1)],
      val    |-> [field |-> v.field, valid |-> v.valid, data |-> place]] :
        k \in 0..Len(place.elem), v \in Values}

\* Every path of the request is answered once.
Orders(paths) == {f \in [paths -> paths] : \A i \in paths : \E j \in paths : f[j] = i}

DeviceAnswers ==
    /\ phase = "wait"
    /\ task.operation = "get" => Named \subseteq Tree
    /\ \E order \in Orders(DOMAIN request.path) :
           answer' \in {a \in [DOMAIN request.path -> UNION {Updates(place) : place \in Named}] :
                           \A j \in DOMAIN a : a[j] \in Updates(PlaceNamed(request.path[order[j]]))}
    /\ code' = "OK" /\ phase' = "answered"
    /\ UNCHANGED <<opts, connVars, session, held, task, request, sent, data, outcome>>

\* RpcError: a place the device does not have, a refusal, or no answer within
\* timeout=.
RpcFails ==
    /\ phase = "wait"
    /\ \/ code' \in {"UNAVAILABLE", "DEADLINE_EXCEEDED"}
       \/ code' = "NOT_FOUND" /\ task.operation = "get" /\ ~(Named \subseteq Tree)
    /\ Fail
    /\ UNCHANGED <<opts, connVars, session, held, task, request, sent, answer, data, outcome>>

-----------------------------------------------------------------------------
\* _parse_get_response: the key is the path of the update, whatever the prefix
\* of its notification; of two updates with one key the later one stays.
ReportOf(updates) ==
    LET key(i) == PathToString(updates[i].path)
        last(k) == CHOOSE i \in DOMAIN updates :
                       key(i) = k /\ \A j \in DOMAIN updates : key(j) = k => j <= i
    IN [k \in {key(i) : i \in DOMAIN updates} |-> ParseTypedValue(updates[last(k)].val)]

\* A value that cannot be parsed raises, and nothing is reported.
ParseResponse ==
    /\ phase = "answered"
    /\ IF \E i \in DOMAIN answer : Raises(answer[i].val)
         THEN Fail /\ UNCHANGED data
         ELSE phase' = "succeeded" /\ data' = ReportOf(answer)
    /\ UNCHANGED <<opts, connVars, session, held, task, request, sent, code, answer, outcome>>

\* exit_json or fail_json, behind the finally of run.
Disconnect ==
    /\ phase \in {"failed", "succeeded"}
    /\ outcome' = phase /\ phase' = "disconnected"
    /\ CloseChannel
    /\ UNCHANGED <<opts, roots, override, warned, fetched, session, held,
                   task, request, sent, code, answer, data>>

Module ==
    \/ Connect /\ UNCHANGED taskVars
    \/ Prepare \/ CallRpc \/ DeviceAnswers \/ RpcFails \/ ParseResponse \/ Disconnect

\* A session keeps the certificate it was opened with.
Device ==
    /\ phase \in {"create", "connect", "fetch", "credentials", "connected", "call"}
    /\ CertificateChanges /\ UNCHANGED taskVars

Finished == phase = "disconnected" /\ UNCHANGED vars

Next == Module \/ Device \/ Finished

Spec == Init /\ [][Next]_vars

\* The module is scheduled; a call that gets no answer fails at its timeout.
FairSpec == Spec /\ WF_vars(Module)

-----------------------------------------------------------------------------
Phases == {"create", "connect", "fetch", "credentials", "connected", "call", "wait", "answered",
           "succeeded", "failed", "disconnected"}

TypeOK ==
    /\ TransportTypeOK
    /\ phase \in Phases
    /\ task \in Tasks
    /\ request.path \in Seq(Built) /\ request.prefix \in Seq(Built)
    /\ sent \in {"none", "bearer", "password"}
    /\ code \in {"none", "OK", "UNAVAILABLE", "DEADLINE_EXCEEDED", "NOT_FOUND"}
    /\ \A i \in DOMAIN answer : answer[i].val.field \in Formats
    /\ outcome \in {"none", "succeeded", "failed"}

\* The request and its credentials go out in plaintext only if the options say
\* insecure, and otherwise only to a certificate the options ask for, behind
\* the name they give; the one trusted on first use is the one that was
\* fetched, even if another is presented by the time of the handshake
\* (gnmi_client.py:410-457, README.md:175-176).
RequestsAreTrusted ==
    sent # "none" =>
        IF opts.insecure THEN session = NoCert /\ fetched = NoCert
                         ELSE session \in Certs /\ Trusted(session)

\* The device answered below the prefix the task gave, or below none.
Aligned == \A j \in DOMAIN answer : answer[j].prefix = PlaceElems(PrefixElems)

\* key is how the user would write the place of p, without its origin and
\* without the elements in front that a notification has in its prefix.
EndsIn(p, key) ==
    \E n \in 1..(Len(FullElems(p)) + 1) : key = ElemsText(From(FullElems(p), n))

\* From the text to the report (gnmi_client.py:795-838).  Whatever prefixes and
\* order the device chooses, a value of the report is that of a place the task
\* asked for, and its key is how the end of that place is written.  If the
\* device keeps to the prefix of the task, each path asked for is a key, and the
\* value there is that of its place, or of another one asked for that differs
\* from it in its origin alone.  It takes paths whose keys the text form can
\* carry, at most one to an element, and no origin that contradicts the option.
ReportAnswersTheTask ==
    LET asked == {task.paths[i] : i \in DOMAIN task.paths}
        parsed == \A j \in DOMAIN answer : answer[j].val.field \in ParsedFields
    IN
    /\ outcome = "succeeded" /\ task.operation = "get"
    /\ \A p \in asked : Carried(p) /\ OneKey(p) /\ ~Overrides(p)
    /\ \A i \in DOMAIN task.prefix : Carried(task.prefix[i]) /\ OneKey(task.prefix[i])
    =>
    /\ \A key \in DOMAIN data : \E p \in asked :
           EndsIn(p, key) /\ (parsed => data[key] = PlaceMeant(p))
    /\ Aligned => \A p \in asked :
           /\ ElemsText(p.elems) \in DOMAIN data
           /\ parsed => \E q \in asked :
                  /\ PlaceElems(q.elems) = PlaceElems(p.elems)
                  /\ data[ElemsText(p.elems)] = PlaceMeant(q)

\* A task fails with NOT_FOUND only if the device lacks a place the user asked
\* for, whatever namespace, prefix and keys the path is written with, as long as
\* the key values are free of slashes and brackets and no path has an origin
\* that contradicts the option.
NotFoundOnlyIfAbsent ==
    /\ code = "NOT_FOUND"
    /\ \A i \in DOMAIN task.prefix : Carried(task.prefix[i])
    /\ \A i \in DOMAIN task.paths : Carried(task.paths[i]) /\ ~Overrides(task.paths[i])
    => \E i \in DOMAIN task.paths : PlaceMeant(task.paths[i]) \notin Tree

\* Every task reports and has closed its channel.
TaskReports == <>(phase = "disconnected" /\ outcome # "none" /\ channel \in {"none", "closed"})

\* "/interfaces/interface[name=GigabitEthernet1/0/1]"
\* (examples/playbooks/test_examples.yml:65) names the interface of that name.
SlashKeysAreFound ==
    code = "NOT_FOUND" =>
        \E i \in DOMAIN task.paths : PlaceMeant(task.paths[i]) \notin Tree \/ Overrides(task.paths[i])
=============================================================================
