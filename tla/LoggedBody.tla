------------------------------ MODULE LoggedBody ------------------------------
(***************************************************************************)
(* What the gateway does to a message's content: parseBodyForLogging and   *)
(* redactBody on the way to request_logs, injectRequestIdIfJson on the way  *)
(* to the student.  A JSON value is a tree of records; of a scalar only     *)
(* what can be read in it matters, a set.  A text is what is written, node  *)
(* after node; what JSON.parse makes of it need not be all of that.         *)
(***************************************************************************)
EXTENDS Integers, SequencesExt

CONSTANTS Names,      \* of fields, and of the indices of arrays
          Index,      \* the indices: "0", "1", ...
          Lower,      \* String.toLowerCase on the field names
          Sensitive,  \* SENSITIVE_BODY_FIELDS, in lower case
          Words,      \* what can be read in a scalar
          Reprint,    \* a word as JavaScript prints it, once it has read it
          Letters,    \* per scalar, as fields: the characters of a string, nothing of others
          Depth       \* how deep the values are nested

Scalar(shows) == [kind |-> "scalar", shows |-> shows]
Redacted == Scalar({})

\* An object or an array has all names; those that are not there are undefined.
Undefined == [kind |-> "undefined"]
Fields(given) == [name \in Names |-> IF name \in DOMAIN given THEN given[name] ELSE Undefined]
Object(given) == [kind |-> "object", fields |-> Fields(given)]
Array(items) == [kind |-> "array",
                 fields |-> Fields([name \in {Index[i] : i \in DOMAIN items} |->
                                      items[CHOOSE i \in DOMAIN items : Index[i] = name]])]

Scalars == [kind : {"scalar"}, shows : SUBSET Words]
Compounds(parts) == [kind : {"array", "object"}, fields : [Names -> parts \cup {Undefined}]]

IdPath == <<"_lab", "requestId">>

ASSUME NamesAssumption ==
  /\ {"_lab", "requestId", "__proto__"} \subseteq Names /\ "id" \in Words
  /\ Index \in Seq(Names)
  /\ \A i, j \in DOMAIN Index : /\ Index[i] \notin {"_lab", "requestId", "__proto__"}
                                /\ Lower[Index[i]] \notin Sensitive
                                /\ Index[i] = Index[j] => i = j
  /\ Reprint \in [Words -> Words]
  /\ Letters \in [Scalars -> [Names -> Scalars \cup {Undefined}]]
  /\ \A s \in Scalars : \A name \in Names : Letters[s][name] # Undefined => \E i \in DOMAIN Index : name = Index[i]
  /\ Depth \in Nat /\ Depth >= 2

\* The values of a depth of n or less.
Json[n \in Nat] == IF n = 0 THEN Scalars ELSE Scalars \cup Compounds(Json[n - 1])

Children(t) == IF t.kind = "scalar" THEN {}
               ELSE {[step |-> name, tree |-> t.fields[name]] : name \in {name \in Names : t.fields[name] # Undefined}}

\* The nodes of a tree with their paths: what a scalar shows, else the kind.
Label(t) == IF t.kind = "scalar" THEN t ELSE [kind |-> t.kind]
Under(step, nodes) == {[path |-> <<step>> \o x.path, label |-> x.label] : x \in nodes}
NodesOf[n \in Nat] == [t \in Json[n] |->
  {[path |-> <<>>, label |-> Label(t)]} \cup UNION {Under(c.step, NodesOf[n - 1][c.tree]) : c \in Children(t)}]

Nodes(t) == NodesOf[Depth][t]
Shows(nodes) == UNION {x.label.shows : x \in {x \in nodes : x.label.kind = "scalar"}}

\* JSON.parse on a text's nodes: a field that is written again replaces all of the
\* earlier one, and numbers and characters become JavaScript's.
AsRead(label) == IF label.kind = "scalar" THEN Scalar({Reprint[w] : w \in label.shows}) ELSE label
Replaced(text, i) == \E j \in (i + 1)..Len(text) : IsPrefix(text[j].path, text[i].path)
Surviving(text) == {[path |-> text[i].path, label |-> AsRead(text[i].label)] :
                      i \in {i \in DOMAIN text : ~Replaced(text, i)}}

\* A message's content: its type, its text and, if that is JSON, the value it stands for.
Content(type, text, value) == [type |-> type, text |-> text, value |-> value]

Labels == Scalars \cup [kind : {"array", "object"}]
Message(message) ==
  /\ message \in [type : {"json", "malformed", "text", "binary", "empty"},
                  text : Seq([path : Seq(Names), label : Labels]), value : Json[Depth]]
  /\ message.type = "json" => Nodes(message.value) = Surviving(message.text)

\* Field names compared as they are spelt.
IsSensitive_CaseSensitive(name) == name \in Sensitive
IsSensitive(name) == Lower[name] \in Sensitive

\* redactBody: a sensitive field's value is replaced whatever it is.  What is assigned
\* to __proto__ becomes no field.
RedactField(name, value, redacted) ==
  IF value = Undefined \/ name = "__proto__" THEN Undefined
  ELSE IF IsSensitive(name) THEN Redacted ELSE redacted[value]
Redact[n \in Nat] == [t \in Json[n] |->
  IF t.kind = "scalar" THEN t
  ELSE [kind |-> t.kind, fields |-> [name \in Names |-> RedactField(name, t.fields[name], Redact[n - 1])]]]

\* parseBodyForLogging: text, and JSON that does not parse, is one string.
Parsed(message) ==
  IF message.type = "json" THEN message.value
  ELSE Scalar(IF message.type \in {"malformed", "text"} THEN Shows(ToSet(message.text)) ELSE {})

\* The request_body column, or as much of it as truncateForLog leaves.
Column(message) == Redact[Depth][Parsed(message)]

\* { ...value }, of a field that may be missing, by its fields.
Spread(t) == IF t = Undefined THEN Fields(<<>>)
             ELSE IF t.kind = "scalar" THEN Letters[t] ELSE t.fields

\* The field _lab with the id; the id in place of what the backend put there in a
\* mutation.
LabField_Replaced(fields, id) == Object([name \in {"requestId"} |-> Scalar({id})])
LabField(fields, id) == [kind |-> "object", fields |-> [Spread(fields["_lab"]) EXCEPT !["requestId"] = Scalar({id})]]

IsObject(message) == message.type = "json" /\ message.value.kind = "object"

\* injectRequestIdIfJson: an object is printed anew from its value with the id, as the
\* nodes of that; anything else is the text that came.
Injected(message, id) ==
  IF IsObject(message) THEN Nodes([message.value EXCEPT !.fields["_lab"] = LabField(message.value.fields, id)])
  ELSE message.text
------------------------------------------------------------------------------
(* Reference definitions *)

Hidden(path) == \E i \in DOMAIN path : Lower[path[i]] \in Sensitive
Lost(path) == \E i \in DOMAIN path : path[i] = "__proto__"

\* A body is redacted rightly if all its nodes are there but those at or below
\* a sensitive field, one marker stands where each topmost of these was, and what
\* is at or below __proto__ is gone.
RightlyRedacted(nodes, redacted) ==
  LET told == {x \in nodes : ~Lost(x.path)} IN
  Nodes(redacted) = {x \in told : ~Hidden(x.path)}
                    \cup {[path |-> x.path, label |-> Redacted] :
                            x \in {x \in told : Hidden(x.path) /\ ~Hidden(Front(x.path))}}

\* The characters of a _lab that is a string, as fields of it.
Spelling(s) == {[path |-> <<"_lab", name>>, label |-> Letters[s][name]] :
                  name \in {name \in Names : Letters[s][name] # Undefined}}
Spelt(nodes) == UNION {Spelling(x.label) : x \in {x \in nodes : x.path = <<"_lab">> /\ x.label.kind = "scalar"}}

\* An answer that is a JSON object carries the id, and else all that is read in the
\* backend's text, with a _lab that is no object made one; any other is the text.
CarriesId(sent, message, id) ==
  IF ~IsObject(message) THEN sent = message.text
  ELSE LET nodes == Surviving(message.text) IN
       sent = {x \in nodes : x.path # <<"_lab">> /\ ~IsPrefix(IdPath, x.path)}
              \cup {[path |-> <<"_lab">>, label |-> [kind |-> "object"]], [path |-> IdPath, label |-> Scalar({id})]}
              \cup Spelt(nodes)
==============================================================================
