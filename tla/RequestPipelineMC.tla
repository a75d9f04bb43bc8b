--------------------------- MODULE RequestPipelineMC ---------------------------
(***************************************************************************)
(* Instances of PipelineBodies.  The bodies are a word, a login form, the  *)
(* form within arrays and fields, and a form below a sensitive field; the  *)
(* login form also as text, as binary content and as broken JSON.  Of       *)
(* answers there are also a field written twice, the second time with a     *)
(* number too long for JavaScript, a field __proto__, and a _lab of each     *)
(* kind; "plain" is a string of one character.                              *)
(***************************************************************************)
EXTENDS PipelineBodies

MCNames == {"Password", "note", "_lab", "requestId", "__proto__", "0", "1"}
MCIndex == <<"0", "1">>
MCLower == [n \in MCNames |-> IF n = "Password" THEN "password" ELSE n]
MCReprint == [w \in Words |-> IF w = "long" THEN "rounded" ELSE w]
MCLetters == [s \in Scalars |-> IF s = Scalar({"plain"}) THEN Fields("0" :> s) ELSE Fields(<<>>)]

Plain == Scalar({"plain"})
Secret == Scalar({"secret"})
Login == Object(("Password" :> Secret) @@ ("note" :> Plain))

\* A value written as it is, what is outside first.
Written(t) == FlattenSeq([n \in 1..Depth + 1 |-> SetToSeq({x \in Nodes(t) : Len(x.path) = n - 1})])
JsonText(t) == Content("json", Written(t), t)
Unparsed(type) == Content(type, Written(Login), Redacted)
Node(path, label) == [path |-> path, label |-> label]

MCCarried ==
  [nothing    |-> Content("empty", <<>>, Redacted),
   malformed  |-> Unparsed("malformed"), text |-> Unparsed("text"), binary |-> Unparsed("binary"),
   word       |-> JsonText(Plain),
   login      |-> JsonText(Login),
   list       |-> JsonText(Array(<<Login, Plain>>)),
   nested     |-> JsonText(Object(("Password" :> Login) @@ ("note" :> Array(<<Login>>)))),
   labObject  |-> JsonText(Object("_lab" :> Object(("note" :> Plain) @@ ("requestId" :> Secret)))),
   labArray   |-> JsonText(Object("_lab" :> Array(<<Plain, Login>>))),
   labString  |-> JsonText(Object("_lab" :> Plain)),
   labNumber  |-> JsonText(Object("_lab" :> Secret)),
   proto      |-> JsonText(Object("__proto__" :> Login)),
   twice      |-> Content("json", <<Node(<<>>, Label(Login)), Node(<<"note">>, Label(Login)),
                                    Node(<<"note", "Password">>, Secret), Node(<<"note">>, Scalar({"long"}))>>,
                          Object("note" :> Scalar({"rounded"})))]
==============================================================================
