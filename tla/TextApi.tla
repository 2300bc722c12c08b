----------------------------- MODULE TextApi ------------------------------
(***************************************************************************)
(* The service that katana_gen wrote for examples/codegen/text_api, as     *)
(* data for Json and GeneratedApi.  The names are those of BenchmarkApi: X *)
(* for a struct, X_t for its aliases, parse_X, serialize_X and validate_X  *)
(* for its functions, X_T for its type.                                    *)
(***************************************************************************)
EXTENDS ApiTables

text_uppercase_request ==
  [new |-> [text |-> NoText],
   limits |-> {<<"text", "REQUIRED", TRUE>>, <<"text", "MIN_LENGTH", 1>>,
               <<"text", "MAX_LENGTH", 10000>>}]
text_uppercase_request_t == [Text |-> Text]
parse_text_uppercase_request == <<Prop("text", TRUE, text_uppercase_request_t.Text)>>
serialize_text_uppercase_request == <<"text">>
validate_text_uppercase_request ==
  {<<"text", "required_field_missing", 0>>, <<"text", "string_too_short", 1>>,
   <<"text", "string_too_long", 10000>>}
text_uppercase_request_T ==
  ObjectOf(text_uppercase_request.new, parse_text_uppercase_request, serialize_text_uppercase_request)
text_uppercase_request_arrays == Arrays(text_uppercase_request_T, text_uppercase_request_t)

text_uppercase_response == [new |-> [result |-> NoText]]
text_uppercase_response_t == [Result |-> Text]
parse_text_uppercase_response == <<Prop("result", FALSE, text_uppercase_response_t.Result)>>
serialize_text_uppercase_response == <<"result">>
text_uppercase_response_T ==
  ObjectOf(text_uppercase_response.new, parse_text_uppercase_response, serialize_text_uppercase_response)
text_uppercase_response_arrays == Arrays(text_uppercase_response_T, text_uppercase_response_t)

text_lowercase_request ==
  [new |-> [text |-> NoText],
   limits |-> {<<"text", "REQUIRED", TRUE>>, <<"text", "MIN_LENGTH", 1>>,
               <<"text", "MAX_LENGTH", 10000>>}]
text_lowercase_request_t == [Text |-> Text]
parse_text_lowercase_request == <<Prop("text", TRUE, text_lowercase_request_t.Text)>>
serialize_text_lowercase_request == <<"text">>
validate_text_lowercase_request ==
  {<<"text", "required_field_missing", 0>>, <<"text", "string_too_short", 1>>,
   <<"text", "string_too_long", 10000>>}
text_lowercase_request_T ==
  ObjectOf(text_lowercase_request.new, parse_text_lowercase_request, serialize_text_lowercase_request)
text_lowercase_request_arrays == Arrays(text_lowercase_request_T, text_lowercase_request_t)

text_lowercase_response == [new |-> [result |-> NoText]]
text_lowercase_response_t == [Result |-> Text]
parse_text_lowercase_response == <<Prop("result", FALSE, text_lowercase_response_t.Result)>>
serialize_text_lowercase_response == <<"result">>
text_lowercase_response_T ==
  ObjectOf(text_lowercase_response.new, parse_text_lowercase_response, serialize_text_lowercase_response)
text_lowercase_response_arrays == Arrays(text_lowercase_response_T, text_lowercase_response_t)

text_reverse_request ==
  [new |-> [text |-> NoText],
   limits |-> {<<"text", "REQUIRED", TRUE>>, <<"text", "MIN_LENGTH", 1>>,
               <<"text", "MAX_LENGTH", 10000>>}]
text_reverse_request_t == [Text |-> Text]
parse_text_reverse_request == <<Prop("text", TRUE, text_reverse_request_t.Text)>>
serialize_text_reverse_request == <<"text">>
validate_text_reverse_request ==
  {<<"text", "required_field_missing", 0>>, <<"text", "string_too_short", 1>>,
   <<"text", "string_too_long", 10000>>}
text_reverse_request_T ==
  ObjectOf(text_reverse_request.new, parse_text_reverse_request, serialize_text_reverse_request)
text_reverse_request_arrays == Arrays(text_reverse_request_T, text_reverse_request_t)

text_reverse_response == [new |-> [result |-> NoText]]
text_reverse_response_t == [Result |-> Text]
parse_text_reverse_response == <<Prop("result", FALSE, text_reverse_response_t.Result)>>
serialize_text_reverse_response == <<"result">>
text_reverse_response_T ==
  ObjectOf(text_reverse_response.new, parse_text_reverse_response, serialize_text_reverse_response)
text_reverse_response_arrays == Arrays(text_reverse_response_T, text_reverse_response_t)

-----------------------------------------------------------------------------
text_stats_request ==
  [new |-> [text |-> NoText],
   limits |-> {<<"text", "REQUIRED", TRUE>>, <<"text", "MAX_LENGTH", 100000>>}]
text_stats_request_t == [Text |-> Text]
parse_text_stats_request == <<Prop("text", TRUE, text_stats_request_t.Text)>>
serialize_text_stats_request == <<"text">>
validate_text_stats_request ==
  {<<"text", "required_field_missing", 0>>, <<"text", "string_too_long", 100000>>}
text_stats_request_T ==
  ObjectOf(text_stats_request.new, parse_text_stats_request, serialize_text_stats_request)
text_stats_request_arrays == Arrays(text_stats_request_T, text_stats_request_t)

text_stats_response == [new |-> [chars |-> Zero, words |-> Zero, lines |-> Zero]]
text_stats_response_t == [Chars |-> Whole, Words |-> Whole, Lines |-> Whole]
parse_text_stats_response ==
  <<Prop("chars", FALSE, text_stats_response_t.Chars),
    Prop("words", FALSE, text_stats_response_t.Words),
    Prop("lines", FALSE, text_stats_response_t.Lines)>>
serialize_text_stats_response == <<"chars", "words", "lines">>
text_stats_response_T ==
  ObjectOf(text_stats_response.new, parse_text_stats_response, serialize_text_stats_response)
text_stats_response_arrays == Arrays(text_stats_response_T, text_stats_response_t)

text_transform_operation_enum == {"upper", "lower", "reverse", "title"}
text_transform_operation == OneOf(text_transform_operation_enum)
text_transform_request ==
  [new |-> [text |-> NoText, operation |-> Unset, trim |-> No],
   limits |-> {<<"text", "REQUIRED", TRUE>>, <<"text", "MIN_LENGTH", 1>>,
               <<"text", "MAX_LENGTH", 10000>>, <<"operation", "REQUIRED", TRUE>>}]
text_transform_request_t == [Text |-> Text, Trim |-> Flag]
parse_text_transform_request ==
  <<Prop("text", TRUE, text_transform_request_t.Text),
    Prop("operation", TRUE, text_transform_operation),
    Prop("trim", FALSE, text_transform_request_t.Trim)>>
serialize_text_transform_request == <<"text", "operation", "trim">>
validate_text_transform_request ==
  {<<"text", "required_field_missing", 0>>, <<"text", "string_too_short", 1>>,
   <<"text", "string_too_long", 10000>>}
text_transform_request_T ==
  ObjectOf(text_transform_request.new, parse_text_transform_request,
           serialize_text_transform_request)
text_transform_request_arrays == Arrays(text_transform_request_T, text_transform_request_t)

text_transform_response ==
  [new |-> [original_length |-> Zero, result |-> NoText, operation_applied |-> NoText]]
text_transform_response_t ==
  [Original_length |-> Whole, Result |-> Text, Operation_applied |-> Text]
parse_text_transform_response ==
  <<Prop("original_length", FALSE, text_transform_response_t.Original_length),
    Prop("result", FALSE, text_transform_response_t.Result),
    Prop("operation_applied", FALSE, text_transform_response_t.Operation_applied)>>
serialize_text_transform_response == <<"original_length", "result", "operation_applied">>
text_transform_response_T ==
  ObjectOf(text_transform_response.new, parse_text_transform_response,
           serialize_text_transform_response)
text_transform_response_arrays == Arrays(text_transform_response_T, text_transform_response_t)

-----------------------------------------------------------------------------
(* The operations and the routers. *)

dispatch_text_uppercase ==
  Op(TRUE, {}, Body(text_uppercase_request_T, validate_text_uppercase_request, text_uppercase_request.limits))
dispatch_text_lowercase ==
  Op(TRUE, {}, Body(text_lowercase_request_T, validate_text_lowercase_request, text_lowercase_request.limits))
dispatch_text_reverse ==
  Op(TRUE, {}, Body(text_reverse_request_T, validate_text_reverse_request, text_reverse_request.limits))
dispatch_text_stats ==
  Op(TRUE, {}, Body(text_stats_request_T, validate_text_stats_request, text_stats_request.limits))
dispatch_text_transform ==
  Op(TRUE, {}, Body(text_transform_request_T, validate_text_transform_request, text_transform_request.limits))

make_router ==
  <<Route_("post", <<"text", "uppercase">>, dispatch_text_uppercase),
    Route_("post", <<"text", "lowercase">>, dispatch_text_lowercase),
    Route_("post", <<"text", "reverse">>, dispatch_text_reverse),
    Route_("post", <<"text", "stats">>, dispatch_text_stats),
    Route_("post", <<"text", "transform">>, dispatch_text_transform)>>

fast_router ==
  {Fast(<<"/", "text", "/", "uppercase">>, "post", dispatch_text_uppercase),
   Fast(<<"/", "text", "/", "lowercase">>, "post", dispatch_text_lowercase),
   Fast(<<"/", "text", "/", "reverse">>, "post", dispatch_text_reverse),
   Fast(<<"/", "text", "/", "stats">>, "post", dispatch_text_stats),
   Fast(<<"/", "text", "/", "transform">>, "post", dispatch_text_transform)}
=============================================================================
