------------------------------- MODULE Parts -------------------------------
(***************************************************************************)
(* The parts of Library, with the wheel timer and those that read and      *)
(* write JSON: the generated services, the loader and the generated        *)
(* codecs.  As in Library, a behaviour is one of one part, the subject.    *)
(*                                                                         *)
(* Library and WheelTimer are extended, so that vars, Init and Next are    *)
(* those of the wheel, which is there from the start and moves when it is  *)
(* the subject.                                                            *)
(***************************************************************************)
EXTENDS Library, WheelTimer, PartsInputs

VARIABLES
  api_api, api_request, api_response, api_handled,
  openapi_text, openapi_phase, openapi_at, openapi_schemas, openapi_index,
  openapi_visited, openapi_parsed, openapi_ops,
  codec_schema, codec_input, codec_got

apiVars == <<api_api, api_request, api_response, api_handled>>
openapiVars == <<openapi_text, openapi_phase, openapi_at, openapi_schemas,
                openapi_index, openapi_visited, openapi_parsed, openapi_ops>>
codecVars == <<codec_schema, codec_input, codec_got>>
otherVars == <<apiVars, openapiVars, codecVars>>
partsVars == <<libraryVars, otherVars, vars>>

Api == INSTANCE GeneratedApi WITH
  api <- api_api, request <- api_request, response <- api_response, handled <- api_handled

Loader == INSTANCE OpenApiLoader WITH
  Descriptions <- ApiDescriptions, Null <- Nothing, text <- openapi_text,
  phase <- openapi_phase, at <- openapi_at, schemas <- openapi_schemas,
  index <- openapi_index, visited <- openapi_visited,
  parsed <- openapi_parsed, ops <- openapi_ops

Codec == INSTANCE JsonCodec WITH
  Schemas <- CodecSchemas, Documents <- CodecDocuments,
  Types <- CodecSchemas \union ApiTypes, schema <- codec_schema, input <- codec_input,
  got <- codec_got

-----------------------------------------------------------------------------
apiAbsent ==
  /\ api_api = Absent /\ api_request = Absent /\ api_response = Absent /\ api_handled = Absent
openapiAbsent ==
  /\ openapi_text = Absent /\ openapi_phase = Absent /\ openapi_at = Absent
  /\ openapi_schemas = Absent /\ openapi_index = Absent
  /\ openapi_visited = Absent /\ openapi_parsed = Absent
  /\ openapi_ops = Absent
codecAbsent ==
  /\ codec_schema = Absent /\ codec_input = Absent /\ codec_got = Absent

PartsInit ==
  /\ subject \in {"mpsc", "io", "ring", "arena", "headers", "router", "dtos",
                 "names", "wheel", "api", "openapi", "codec"}
  /\ LibraryInit
  /\ Init
  /\ IF subject = "api" THEN Api!Init ELSE apiAbsent
  /\ IF subject = "openapi" THEN Loader!Init ELSE openapiAbsent
  /\ IF subject = "codec" THEN Codec!Init ELSE codecAbsent

\* The part named moves alone.
Alone(part) ==
  /\ Only(part)
  /\ IF part = "wheel" THEN TRUE ELSE UNCHANGED vars
  /\ IF part = "api" THEN TRUE ELSE UNCHANGED apiVars
  /\ IF part = "openapi" THEN TRUE ELSE UNCHANGED openapiVars
  /\ IF part = "codec" THEN TRUE ELSE UNCHANGED codecVars

PartsNext ==
  \/ LibraryNext /\ UNCHANGED <<otherVars, vars>>
  \/ Alone("wheel") /\ Next
  \/ Alone("api") /\ Api!Next
  \/ Alone("openapi") /\ Loader!Next
  \/ Alone("codec") /\ Codec!Next

PartsSpec == PartsInit /\ [][PartsNext]_partsVars

-----------------------------------------------------------------------------
\* GeneratedApi, for the four generated services: the fast path and the router
\* answer alike, the handler gets what the parser makes of the document, and of
\* the requests that meet the description exactly those are refused for which
\* the validator asks more than the schema (generated_router_bindings.hpp of
\* each; GeneratedApi names the exceptions).
ApiKeepsItsContract == subject = "api" => Api!ApiKeepsItsContract

\* What the readers of JSON make of a text.  OpenApiLoader: the components and
\* operations are those of the text, references resolved and allOf merged, but
\* for a part of allOf that refers to a later component (LeftOut).  JsonCodec:
\* a document is read to its end, for the values that the readers take, and
\* what is written is read back.
ReadRight ==
  /\ subject = "openapi" => Loader!LoadedWhole
  /\ subject = "codec" => Codec!CodecRight
=============================================================================
