-------------------------- MODULE ValidationApi ---------------------------
(***************************************************************************)
(* The service that katana_gen wrote for examples/codegen/validation_api,  *)
(* as data for Json and GeneratedApi.  The names are those of              *)
(* BenchmarkApi.                                                           *)
(***************************************************************************)
EXTENDS ApiTables

RegisterUserRequest ==
  [new |-> [email |-> NoText, password |-> NoText, age |-> Null],
   limits |-> {<<"email", "REQUIRED", TRUE>>, <<"email", "FORMAT", "email">>,
               <<"password", "REQUIRED", TRUE>>, <<"password", "MIN_LENGTH", 8>>,
               <<"password", "MAX_LENGTH", 128>>, <<"age", "MINIMUM", 0>>,
               <<"age", "MAXIMUM", 120>>}]
RegisterUserRequest_t == [Email_t |-> Text, Password_t |-> Text, Age_t |-> Nullable(Whole)]
parse_RegisterUserRequest ==
  <<Prop("email", TRUE, RegisterUserRequest_t.Email_t),
    Prop("password", TRUE, RegisterUserRequest_t.Password_t),
    Prop("age", FALSE, RegisterUserRequest_t.Age_t)>>
serialize_RegisterUserRequest == <<"email", "password", "age">>
validate_RegisterUserRequest ==
  {<<"email", "required_field_missing", 0>>, <<"email", "invalid_email_format", 0>>,
   <<"password", "required_field_missing", 0>>, <<"password", "string_too_short", 8>>,
   <<"password", "string_too_long", 128>>, <<"age", "value_too_small", 0>>,
   <<"age", "value_too_large", 120>>}
RegisterUserRequest_T ==
  ObjectOf(RegisterUserRequest.new, parse_RegisterUserRequest, serialize_RegisterUserRequest)
RegisterUserRequest_arrays == Arrays(RegisterUserRequest_T, RegisterUserRequest_t)

register_user_response == Text

dispatch_register_user ==
  Op(TRUE, {}, Body(RegisterUserRequest_T, validate_RegisterUserRequest,
                    RegisterUserRequest.limits))

make_router == <<Route_("post", <<"user", "register">>, dispatch_register_user)>>
fast_router == {Fast(<<"/", "user", "/", "register">>, "post", dispatch_register_user)}
=============================================================================
