---------------------------- MODULE ComputeApi ----------------------------
(***************************************************************************)
(* The service that katana_gen wrote for examples/codegen/compute_api, as  *)
(* data for Json and GeneratedApi: its one body is an array.               *)
(***************************************************************************)
EXTENDS ApiTables

schema == Number
compute_sum_request  == ArrayOf(schema)
compute_sum_response == Number

\* The limits are in the validator alone: an array has no metadata.
compute_sum_request_limits == {<<"", "MIN_ITEMS", 1>>, <<"", "MAX_ITEMS", 1024>>}
validate_compute_sum_request == {<<"", "array_too_small", 1>>, <<"", "array_too_large", 1024>>}

dispatch_compute_sum ==
  Op(TRUE, {}, Body(compute_sum_request, validate_compute_sum_request, compute_sum_request_limits))

make_router == <<Route_("post", <<"compute", "sum">>, dispatch_compute_sum)>>
fast_router == {Fast(<<"/", "compute", "/", "sum">>, "post", dispatch_compute_sum)}
=============================================================================
