---------------------------- MODULE PipelineBodies ----------------------------
(***************************************************************************)
(* The requests of RequestPipeline with the contents of LoggedBody: what    *)
(* the gateway does to a body on its way to request_logs, and to an answer  *)
(* on its way to the student.                                              *)
(***************************************************************************)
EXTENDS RequestPipeline, LoggedBody

CONSTANT Carried  \* what each content is: its type, text and value

ASSUME ContentAssumption ==
  \A c \in Contents : Message(Carried[c]) /\ (Carried[c].type = "empty" <=> c = NoContent)

\* The contents of which the log shows what it should, and those that come back as
\* they should.
LoggedRightly == {c \in Contents :
  LET m == Carried[c] IN
  /\ m.type = "json" => RightlyRedacted(Surviving(m.text), Column(m))
  /\ m.type \in {"binary", "empty"} => Shows(Nodes(Column(m))) = {}}
AnsweredRightly == {c \in Contents : CarriesId(Injected(Carried[c], "id"), Carried[c], "id")}

\* The body of a logged request that is JSON shows all that can be read in it but
\* the sensitive fields; of one that is neither JSON nor text nothing is shown.
BodiesRedacted == \A r \in body : content[r] \in LoggedRightly

\* A backend's answer, here an echo, reaches the student with the id added to it
\* if it is a JSON object, as JavaScript reads and prints that, and byte for byte
\* otherwise.
AnswersCarryId == \A r \in Requests : answer[r] = "backend" => content[r] \in AnsweredRightly

\* "Sensitive body fields must be redacted": nothing that stands in one is shown
\* in the log, whether or not the body parses.
SensitiveNeverShown ==
  \A r \in body : LET m == Carried[content[r]] IN
    \A x \in ToSet(m.text) : x.label.kind = "scalar" /\ Hidden(x.path)
                                 => x.label.shows \cap Shows(Nodes(Column(m))) = {}
==============================================================================
