------------------------------ MODULE GnmiPath ------------------------------
(***************************************************************************)
(* How gnmi_client.py reads and prints paths and reads values: _build_path *)
(* (lines 556-626), _split_origin_prefix (628-648), _path_to_string        *)
(* (650-659), _parse_typed_value (691-715).                                *)
(*                                                                         *)
(* A path text is a sequence of tokens: the punctuation that the code      *)
(* looks for, and words, which it never looks into beyond the beginning    *)
(* of the first one.  Recursion is over the last token, in functions on    *)
(* the set of all sequences.                                               *)
(***************************************************************************)
EXTENDS Naturals, Sequences
Seqs == INSTANCE SequencesExt

CONSTANTS
    Words,
    Identifiers,           \* words of letters, digits, "-" and "_"
    NativeNamespaces,      \* words that start with Cisco-IOS-XE-, ..., ietf-
    OpenconfigNamespaces   \* words that start with openconfig

Punctuation == {"/", ":", "[", "]", "=", ","}
NoOrigin == ""
NotGiven == "not given"    \* the option origin is left out
Tokens == Words \cup Punctuation
Text == Seq(Tokens)

ASSUME WordsAssumption ==
    /\ \A w \in Words : w \notin Punctuation \cup {""}
    /\ Identifiers \cup NativeNamespaces \cup OpenconfigNamespaces \subseteq Words

-----------------------------------------------------------------------------
(***************************************************************************)
(* str.join, str.split, str.strip and str.index over tokens.               *)
(***************************************************************************)
First(s, token) == Seqs!Min({i \in DOMAIN s : s[i] = token})
Before(s, i) == SubSeq(s, 1, i - 1)
From(s, i) == SubSeq(s, i, Len(s))

\* ''.join(texts)
Concat[texts \in Seq(Text)] ==
    IF texts = <<>> THEN <<>> ELSE Concat[Seqs!Front(texts)] \o Seqs!Last(texts)

\* The last part, with one more token.
Extend(parts, token) == [parts EXCEPT ![Len(parts)] = Append(@, token)]

\* s.split('/'), without the empty parts.
Elements[s \in Text] ==
    IF s = <<>> THEN <<>>
    ELSE LET front == Seqs!Front(s)
         IN IF Seqs!Last(s) = "/" THEN Elements[front]
            ELSE IF front = <<>> \/ Seqs!Last(front) = "/" THEN Append(Elements[front], <<Seqs!Last(s)>>)
            ELSE Extend(Elements[front], Seqs!Last(s))

\* s.split('][')
Pairs[s \in Text] ==
    IF s = <<>> THEN <<<<>>>>
    ELSE LET front == Seqs!Front(s)
             parts == Pairs[front]
         IN IF Seqs!Last(s) = "[" /\ front # <<>> /\ Seqs!Last(front) = "]"
              THEN Append([parts EXCEPT ![Len(parts)] = Seqs!Front(@)], <<>>)
              ELSE Extend(parts, Seqs!Last(s))

\* s.strip('[]')
StripBrackets(s) ==
    LET kept == {i \in DOMAIN s : s[i] \notin {"[", "]"}}
    IN IF kept = {} THEN <<>> ELSE SubSeq(s, Seqs!Min(kept), Seqs!Max(kept))

-----------------------------------------------------------------------------
(***************************************************************************)
(* From text to gnmi_pb2.Path.                                             *)
(***************************************************************************)
\* A leading identifier followed by ":/"; the slash stays with the rest.
HasOriginPrefix(text) ==
    /\ Len(text) >= 3 /\ text[1] \in Identifiers
    /\ text[2] = ":" /\ text[3] = "/"

SplitOriginPrefix(text) ==
    IF HasOriginPrefix(text) THEN [origin |-> text[1], rest |-> From(text, 3)]
                             ELSE [origin |-> NoOrigin, rest |-> text]

\* Form 2: the YANG namespace in front of the first element, the text before
\* its first ":".
OriginOf(namespace) ==
    IF namespace \in NativeNamespaces THEN "rfc7951"
    ELSE IF namespace \in OpenconfigNamespaces THEN "openconfig"
    ELSE NoOrigin

NamespaceOrigin(element) ==
    IF ":" \in Seqs!ToSet(element) /\ "[" \notin Seqs!ToSet(Before(element, First(element, ":")))
      THEN OriginOf(element[1]) ELSE NoOrigin

\* Pairs without "=" are dropped, of two with one key the later one stays.
KeyMap(pairs) ==
    LET given == {i \in DOMAIN pairs : "=" \in Seqs!ToSet(pairs[i])}
        key(i) == Before(pairs[i], First(pairs[i], "="))
        last(k) == Seqs!Max({i \in given : key(i) = k})
    IN [k \in {key(i) : i \in given} |->
            From(pairs[last(k)], First(pairs[last(k)], "=") + 1)]

NoKeys == [k \in {} |-> <<>>]

BuildElem(element) ==
    IF {"[", "]"} \subseteq Seqs!ToSet(element)
      THEN LET at == First(element, "[")
           IN [name |-> Before(element, at), key |-> KeyMap(Pairs[StripBrackets(From(element, at))])]
      ELSE [name |-> element, key |-> NoKeys]

\* The leading slash would only add an empty element, and those are skipped.
BuildElems(text) ==
    LET elements == Elements[SplitOriginPrefix(text).rest]
    IN [i \in DOMAIN elements |-> BuildElem(elements[i])]

\* path.split('/')[0], behind the leading slash.
FirstElement(path) ==
    LET body == IF path # <<>> /\ Head(path) = "/" THEN Tail(path) ELSE path
    IN IF "/" \in Seqs!ToSet(body) THEN Before(body, First(body, "/")) ELSE body

\* Seeded fault: any text in front of the first ":" is taken for an origin.
OriginBeforeColon(text, origin) ==
    IF origin # NotGiven THEN origin
    ELSE IF ":" \in Seqs!ToSet(text) /\ text[1] # "/" THEN text[1]
    ELSE NoOrigin

\* The argument, an empty one included, else the prefix of the text, else the
\* namespace.
FinalOrigin(text, origin) ==
    LET split == SplitOriginPrefix(text)
    IN IF origin # NotGiven THEN origin
       ELSE IF split.origin # NoOrigin THEN split.origin
       ELSE NamespaceOrigin(FirstElement(split.rest))

BuildPath(text, origin) ==
    [origin |-> FinalOrigin(text, origin), elem |-> BuildElems(text)]

-----------------------------------------------------------------------------
(***************************************************************************)
(* From gnmi_pb2.Path back to text.  The origin is not printed; several    *)
(* keys share one pair of brackets.                                        *)
(***************************************************************************)
\* Seeded fault: the keys of an element are not printed.
PrintElemName(elem) == elem.name

PrintElem(elem) ==
    LET keys == Seqs!SetToSeq(DOMAIN elem.key)
        pair(i) == (IF i = 1 THEN <<>> ELSE <<",">>) \o keys[i] \o <<"=">> \o elem.key[keys[i]]
    IN IF DOMAIN elem.key = {} THEN elem.name
       ELSE elem.name \o <<"[">> \o Concat[[i \in DOMAIN keys |-> pair(i)]] \o <<"]">>

PathToString(path) ==
    IF path.elem = <<>> THEN <<"/">>
    ELSE Concat[[i \in DOMAIN path.elem |-> <<"/">> \o PrintElem(path.elem[i])]]

-----------------------------------------------------------------------------
(***************************************************************************)
(* What the user means: an element has a namespace or "", a name and keys, *)
(* a path has an origin or "" and elements; how they are written, and the  *)
(* elements of the place they name.                                        *)
(***************************************************************************)
KeyRecords == [name : Words, value : Text]
ElemRecords ==
    {e \in [ns : Words \cup {""}, name : Words, keys : Seq(KeyRecords)] :
        \A i, j \in DOMAIN e.keys : e.keys[i].name = e.keys[j].name => i = j}
PathRecords == [origin : Identifiers \cup {NoOrigin}, elems : Seq(ElemRecords)]

NameOf(e) == IF e.ns = "" THEN <<e.name>> ELSE <<e.ns, ":", e.name>>

KeyText(kv) == <<"[", kv.name, "=">> \o kv.value \o <<"]">>

ElemText(e) == NameOf(e) \o Concat[[i \in DOMAIN e.keys |-> KeyText(e.keys[i])]]

ElemsText(elems) ==
    IF elems = <<>> THEN <<"/">> ELSE Concat[[i \in DOMAIN elems |-> <<"/">> \o ElemText(elems[i])]]

AsText(p) == (IF p.origin = NoOrigin THEN <<>> ELSE <<p.origin, ":">>) \o ElemsText(p.elems)

KeysMeant(e) ==
    [k \in {<<e.keys[i].name>> : i \in DOMAIN e.keys} |->
        e.keys[CHOOSE i \in DOMAIN e.keys : <<e.keys[i].name>> = k].value]

PlaceElems(elems) == [i \in DOMAIN elems |-> [name |-> NameOf(elems[i]), key |-> KeysMeant(elems[i])]]

\* What a path says of its origin itself.
Own(p) ==
    IF p.origin # NoOrigin THEN p.origin
    ELSE IF p.elems = <<>> THEN NoOrigin
    ELSE OriginOf(p.elems[1].ns)

\* The key values are ones the text form can carry, and _path_to_string
\* prints each element like the user wrote it.
Carried(p) ==
    \A i \in DOMAIN p.elems : \A n \in DOMAIN p.elems[i].keys :
        Seqs!ToSet(p.elems[i].keys[n].value) \cap {"/", "[", "]"} = {}
OneKey(p) == \A i \in DOMAIN p.elems : Len(p.elems[i].keys) <= 1

-----------------------------------------------------------------------------
(***************************************************************************)
(* Values.  A field that _parse_typed_value does not ask for is None.      *)
(***************************************************************************)
JsonFields == {"json_ietf_val", "json_val"}
ParsedFields == JsonFields \cup
    {"string_val", "int_val", "uint_val", "bool_val", "bytes_val", "float_val",
     "decimal_val", "leaflist_val", "any_val"}
None == "None"

\* json.loads raises on what is no JSON.
Raises(val) == val.field \in JsonFields /\ ~val.valid

ParseTypedValue(val) == IF val.field \in ParsedFields THEN val.data ELSE None
=============================================================================
