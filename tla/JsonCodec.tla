------------------------------ MODULE JsonCodec ------------------------------
(***************************************************************************)
(* The parsers and serializers of Json at work: a document of a client is  *)
(* parsed, or a DTO of the service is written and what was written is      *)
(* parsed.                                                                 *)
(***************************************************************************)
EXTENDS Json

CONSTANTS
  Schemas,    \* types of the documents parsed
  Documents,  \* the documents
  Types,      \* types of the DTOs written
  Dtos(_)     \* the DTOs of a type that are written

VARIABLES
  schema,
  input,  \* a document from a client or a DTO of the service
  got     \* what the parser made of it

vars == <<schema, input, got>>

\* What follows a document in the tests of where the parser stops.
Following == <<"]", Quote>>

NotRead == Failed(0)

Init ==
  /\ \/ /\ schema \in Schemas
        /\ input \in [from : {"client"}, doc : Documents, ws : {<<>>, <<Space>>}]
     \/ /\ schema \in Types
        /\ input \in [from : {"service"}, dto : Dtos(schema)]
  /\ got = NotRead

\* A client's document is parsed.
ParseDocument ==
  /\ got = NotRead /\ input.from = "client"
  /\ got' = Parse(schema, Rendered(input.doc, input.ws) \o Following, 1)
  /\ UNCHANGED <<schema, input>>

\* A DTO is written, and what was written is parsed.
SerializeAndParse ==
  /\ got = NotRead /\ input.from = "service"
  /\ got' = Parse(schema, Serialize(schema, input.dto), 1)
  /\ UNCHANGED <<schema, input>>

Next == ParseDocument \/ SerializeAndParse

Spec == Init /\ [][Next]_vars

\* A well-formed document is read to its end and no further, whatever the
\* schema does not want and whatever its strings hold; the parser returns a DTO
\* for exactly those documents that Reads names, with the values that Meaning
\* names.  Both take more than the schema does: numbers and literals in strings
\* are taken, and members of a wrong type leave the default in place.
DecodesRight ==
  got # NotRead /\ input.from = "client" =>
    /\ got.pos = Len(Rendered(input.doc, input.ws)) + 1
    /\ got.ok <=> Reads(schema, input.doc)
    /\ got.ok => got.val = Meaning(schema, input.doc)

RECURSIVE AsRead(_)
AsRead(v) ==
  CASE v[1] = "str" -> <<"str", Escaped(v[2])>>
    [] v[1] = "arr" -> <<"arr", [i \in DOMAIN v[2] |-> AsRead(v[2][i])]>>
    [] v[1] = "obj" -> <<"obj", [n \in DOMAIN v[2] |-> AsRead(v[2][n])]>>
    [] OTHER -> v

\* What is written can be read back: the same DTO, but for the escapes of its
\* strings, which the reader leaves in.
RoundTrip ==
  got # NotRead /\ input.from = "service" =>
    got = Got(AsRead(input.dto), Len(Serialize(schema, input.dto)) + 1)

CodecRight == DecodesRight /\ RoundTrip
=============================================================================
