------------------------------ MODULE Response ------------------------------
(***************************************************************************)
(* From the answer to a request to what is recorded of it: the outcome    *)
(* (Request::execute, lmn-core/src/http/request.rs) and the fields of a   *)
(* response template (lmn-core/src/response_template/).                   *)
(*                                                                         *)
(* An exchange says how a request went: whether an answer came, its       *)
(* status, how long it took, what its content was and, if that was JSON,  *)
(* what each path of it holds.  A key is a sequence of characters, of     *)
(* which only the dot matters, a path a sequence of keys.                 *)
(***************************************************************************)
EXTENDS Integers, Sequences, SequencesExt

CONSTANT None

\* "broken": the connection fails before the body is complete; "binary": not
\* UTF-8; "oversized": above MAX_RESPONSE_BODY_SIZE, announced or not.
Contents == {"json", "text", "binary", "broken", "oversized"}

\* resp.status().is_success(); a transport error has no status.
Success(x) == x.sent /\ x.status \in 200..299
StatusCode(x) == IF x.sent THEN x.status ELSE None

\* The body is kept when somebody reads it and it is complete, small enough
\* and text.  Losing it does not make the request a failed one.
ResponseBody(x, capture) ==
    IF x.sent /\ capture /\ x.content \in {"json", "text"} THEN x.content ELSE None

-----------------------------------------------------------------------------
(* ResponseTemplate::parse *)

Tracked(leaf) == leaf.text \in {"STRING", "FLOAT"}

\* The fields, as places of the template's leaves.  A {{...}} of another type
\* refuses the template, as do no fields at all; any other text is passed over.
FieldsOf(template) == {i \in DOMAIN template : Tracked(template[i])}

TemplateOK(template) ==
    /\ \A i \in DOMAIN template : template[i].text # "UNKNOWN"
    /\ FieldsOf(template) # {}

-----------------------------------------------------------------------------
(* extract() *)

\* field.path.join("."): paths that differ may have the same label.
Label(path) ==
    FlattenSeq([i \in 1..(2 * Len(path) - 1) |->
                    IF i % 2 = 1 THEN path[(i + 1) \div 2] ELSE <<".">>])

Matches(field, held) ==
    \/ field.text = "STRING" /\ held.kind = "string"
    \/ field.text = "FLOAT" /\ held.kind = "number"

\* What the body holds at the path of a field, if anything.
ResolvePath(body, path) ==
    IF path \in DOMAIN body THEN body[path] ELSE [kind |-> "missing", value |-> None]

ExtractOne(body, field) ==
    LET held == ResolvePath(body, field.path) IN
    [label |-> Label(field.path),
     kind  |-> IF Matches(field, held) THEN field.text ELSE "MISMATCH",
     value |-> held.value]

\* What each field has got, a value or a mismatch (two vectors in the code).
Extract(body, template) ==
    [i \in FieldsOf(template) |-> ExtractOne(body, template[i])]

\* In the VU, before the record is sent, with the response template of the
\* request: that of the run or, in a scenario, that of the step, <<>> if it has
\* none.  The result <<>> stands for None, as a template has at least one field.
Extraction(x, template) ==
    IF ResponseBody(x, template # <<>>) = "json" THEN Extract(x.body, template) ELSE <<>>
=============================================================================
