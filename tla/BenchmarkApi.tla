---------------------------- MODULE BenchmarkApi ----------------------------
(***************************************************************************)
(* The service that katana_gen wrote for examples/codegen/benchmark_api,   *)
(* as data for Json and GeneratedApi.  For a type X, X is what its struct  *)
(* holds when it is new and the limits of its metadata, X_t the aliases    *)
(* that have parsers of their own, parse_X the keys that its reader knows, *)
(* serialize_X those that its writer writes, validate_X the tests of its   *)
(* validator and X_T its type.                                             *)
(***************************************************************************)
EXTENDS ApiTables

UserRole_enum     == {"user", "moderator", "admin"}
ItemCategory_enum == {"electronics", "books", "clothing", "food", "tools", "other"}

-----------------------------------------------------------------------------
(* POST /compute/sum *)

SumRequest ==
  [new |-> [values |-> Empty],
   limits |-> {<<"values", "REQUIRED", TRUE>>, <<"values", "MIN_ITEMS", 1>>,
               <<"values", "MAX_ITEMS", 10000>>}]
SumRequest_t == [Values |-> ArrayOf(Number), Item |-> Number]
parse_SumRequest == <<Prop("values", TRUE, SumRequest_t.Values)>>
serialize_SumRequest == <<"values">>
validate_SumRequest ==
  {<<"values", "required_field_missing", 0>>, <<"values", "array_too_small", 1>>,
   <<"values", "array_too_large", 10000>>}
SumRequest_T == ObjectOf(SumRequest.new, parse_SumRequest, serialize_SumRequest)
SumRequest_arrays == Arrays(SumRequest_T, SumRequest_t)

SumResponse == [new |-> [result |-> Unset, count |-> Unset]]
SumResponse_t == [Result |-> Number, Count |-> Whole]
parse_SumResponse == <<Prop("result", TRUE, SumResponse_t.Result), Prop("count", TRUE, SumResponse_t.Count)>>
serialize_SumResponse == <<"result", "count">>
SumResponse_T == ObjectOf(SumResponse.new, parse_SumResponse, serialize_SumResponse)
SumResponse_arrays == Arrays(SumResponse_T, SumResponse_t)

-----------------------------------------------------------------------------
(* POST /compute/stats *)

StatsRequest ==
  [new |-> [values |-> Empty, include_median |-> No],
   limits |-> {<<"values", "REQUIRED", TRUE>>, <<"values", "MIN_ITEMS", 1>>,
               <<"values", "MAX_ITEMS", 10000>>}]
StatsRequest_t == [Values |-> ArrayOf(Number), Item |-> Number, Include_median |-> Flag]
parse_StatsRequest ==
  <<Prop("values", TRUE, StatsRequest_t.Values),
    Prop("include_median", FALSE, StatsRequest_t.Include_median)>>
serialize_StatsRequest == <<"values", "include_median">>
validate_StatsRequest ==
  {<<"values", "required_field_missing", 0>>, <<"values", "array_too_small", 1>>,
   <<"values", "array_too_large", 10000>>}
StatsRequest_T == ObjectOf(StatsRequest.new, parse_StatsRequest, serialize_StatsRequest)
StatsRequest_arrays == Arrays(StatsRequest_T, StatsRequest_t)

StatsResponse ==
  [new |-> [min |-> ZeroNumber, max |-> ZeroNumber, mean |-> ZeroNumber,
            sum |-> ZeroNumber, count |-> Zero, median |-> ZeroNumber]]
StatsResponse_t ==
  [Min |-> Number, Max |-> Number, Mean |-> Number, Sum |-> Number,
   Count |-> Whole, Median |-> Number]
parse_StatsResponse ==
  <<Prop("min", FALSE, StatsResponse_t.Min), Prop("max", FALSE, StatsResponse_t.Max),
    Prop("sum", FALSE, StatsResponse_t.Sum), Prop("mean", FALSE, StatsResponse_t.Mean),
    Prop("count", FALSE, StatsResponse_t.Count), Prop("median", FALSE, StatsResponse_t.Median)>>
serialize_StatsResponse == <<"min", "max", "mean", "sum", "count", "median">>
StatsResponse_T == ObjectOf(StatsResponse.new, parse_StatsResponse, serialize_StatsResponse)
StatsResponse_arrays == Arrays(StatsResponse_T, StatsResponse_t)

-----------------------------------------------------------------------------
(* POST /users/register *)

RegisterRequest ==
  [new |-> [username |-> NoText, email |-> NoText, password |-> NoText, age |-> Zero,
            role |-> Enum("user"), tags |-> Empty],
   limits |-> {<<"username", "REQUIRED", TRUE>>, <<"username", "MIN_LENGTH", 3>>,
               <<"username", "MAX_LENGTH", 32>>, <<"username", "PATTERN", "^[a-zA-Z0-9_-]+$">>,
               <<"email", "REQUIRED", TRUE>>, <<"email", "FORMAT", "email">>,
               <<"password", "REQUIRED", TRUE>>, <<"password", "MIN_LENGTH", 8>>,
               <<"password", "MAX_LENGTH", 128>>, <<"age", "MINIMUM", 13>>,
               <<"age", "MAXIMUM", 150>>, <<"tags", "MAX_ITEMS", 10>>,
               <<"tags", "UNIQUE_ITEMS", TRUE>>}]
RegisterRequest_t ==
  [Username |-> Text, Email |-> Text, Password |-> Text, Age |-> Whole,
   Tags |-> ArrayOf(Text), Item |-> Text]
UserRole == OneOf(UserRole_enum)
parse_RegisterRequest ==
  <<Prop("age", FALSE, RegisterRequest_t.Age), Prop("role", FALSE, UserRole),
    Prop("tags", FALSE, RegisterRequest_t.Tags), Prop("email", TRUE, RegisterRequest_t.Email),
    Prop("username", TRUE, RegisterRequest_t.Username),
    Prop("password", TRUE, RegisterRequest_t.Password)>>
serialize_RegisterRequest == <<"username", "email", "password", "age", "role", "tags">>
validate_RegisterRequest ==
  {<<"username", "required_field_missing", 0>>, <<"username", "string_too_short", 3>>,
   <<"username", "string_too_long", 32>>, <<"username", "pattern_mismatch", 0>>,
   <<"email", "required_field_missing", 0>>, <<"email", "invalid_email_format", 0>>,
   <<"password", "required_field_missing", 0>>, <<"password", "string_too_short", 8>>,
   <<"password", "string_too_long", 128>>, <<"age", "value_too_small", 13>>,
   <<"age", "value_too_large", 150>>, <<"tags", "array_too_large", 10>>,
   <<"tags", "array_items_not_unique", 0>>}
RegisterRequest_T == ObjectOf(RegisterRequest.new, parse_RegisterRequest, serialize_RegisterRequest)
RegisterRequest_arrays == Arrays(RegisterRequest_T, RegisterRequest_t)

UserResponse ==
  [new |-> [id |-> NoText, username |-> NoText, email |-> NoText, role |-> Unset,
            created_at |-> NoText]]
UserResponse_t == [Id |-> Text, Username |-> Text, Email |-> Text, Created_at |-> Text]
parse_UserResponse ==
  <<Prop("id", TRUE, UserResponse_t.Id), Prop("role", TRUE, UserRole),
    Prop("email", TRUE, UserResponse_t.Email), Prop("username", TRUE, UserResponse_t.Username),
    Prop("created_at", TRUE, UserResponse_t.Created_at)>>
serialize_UserResponse == <<"id", "username", "email", "role", "created_at">>
UserResponse_T == ObjectOf(UserResponse.new, parse_UserResponse, serialize_UserResponse)
UserResponse_arrays == Arrays(UserResponse_T, UserResponse_t)

-----------------------------------------------------------------------------
(* /items and /items/{id} *)

ItemCategory == OneOf(ItemCategory_enum)

ItemMetadata ==
  [new |-> [weight_kg |-> ZeroNumber, dimensions |-> NoText, manufacturer |-> NoText,
            sku |-> NoText]]
ItemMetadata_t == [Weight_kg |-> Number, Dimensions |-> Text, Manufacturer |-> Text, Sku |-> Text]
parse_ItemMetadata ==
  <<Prop("sku", FALSE, ItemMetadata_t.Sku), Prop("weight_kg", FALSE, ItemMetadata_t.Weight_kg),
    Prop("dimensions", FALSE, ItemMetadata_t.Dimensions),
    Prop("manufacturer", FALSE, ItemMetadata_t.Manufacturer)>>
serialize_ItemMetadata == <<"weight_kg", "dimensions", "manufacturer", "sku">>
ItemMetadata_T == ObjectOf(ItemMetadata.new, parse_ItemMetadata, serialize_ItemMetadata)
ItemMetadata_arrays == Arrays(ItemMetadata_T, ItemMetadata_t)

Item ==
  [new |-> [id |-> Unset, name |-> NoText, description |-> NoText, price |-> Unset,
            stock |-> Zero, category |-> Unset, tags |-> Empty,
            metadata |-> <<"obj", ItemMetadata.new>>]]
Item_t ==
  [Id |-> Whole, Name |-> Text, Description |-> Text, Price |-> Number, Stock |-> Whole,
   Tags |-> ArrayOf(Text), Item |-> Text]
parse_Item ==
  <<Prop("id", TRUE, Item_t.Id), Prop("name", TRUE, Item_t.Name),
    Prop("tags", FALSE, Item_t.Tags), Prop("price", TRUE, Item_t.Price),
    Prop("stock", FALSE, Item_t.Stock), Prop("category", TRUE, ItemCategory),
    Prop("metadata", FALSE, ItemMetadata_T), Prop("description", FALSE, Item_t.Description)>>
serialize_Item ==
  <<"id", "name", "description", "price", "stock", "category", "tags", "metadata">>
Item_T == ObjectOf(Item.new, parse_Item, serialize_Item)
Item_arrays == Arrays(Item_T, Item_t)

CreateItemRequest ==
  [new |-> [name |-> NoText, description |-> NoText, price |-> Unset, stock |-> Zero,
            category |-> Unset, tags |-> Empty, metadata |-> <<"obj", ItemMetadata.new>>],
   limits |-> {<<"name", "REQUIRED", TRUE>>, <<"name", "MIN_LENGTH", 1>>,
               <<"name", "MAX_LENGTH", 200>>, <<"description", "MAX_LENGTH", 2000>>,
               <<"price", "REQUIRED", TRUE>>, <<"price", "MINIMUM", 0>>,
               <<"price", "EXCLUSIVE_MAXIMUM", 1000000>>, <<"stock", "MINIMUM", 0>>,
               <<"stock", "MAXIMUM", 999999>>, <<"category", "REQUIRED", TRUE>>,
               <<"tags", "MAX_ITEMS", 20>>}]
CreateItemRequest_t ==
  [Name |-> Text, Description |-> Text, Price |-> Number, Stock |-> Whole,
   Tags |-> ArrayOf(Text), Item |-> Text]
parse_CreateItemRequest ==
  <<Prop("name", TRUE, CreateItemRequest_t.Name), Prop("tags", FALSE, CreateItemRequest_t.Tags),
    Prop("price", TRUE, CreateItemRequest_t.Price),
    Prop("stock", FALSE, CreateItemRequest_t.Stock), Prop("category", TRUE, ItemCategory),
    Prop("metadata", FALSE, ItemMetadata_T),
    Prop("description", FALSE, CreateItemRequest_t.Description)>>
serialize_CreateItemRequest ==
  <<"name", "description", "price", "stock", "category", "tags", "metadata">>
validate_CreateItemRequest ==
  {<<"name", "required_field_missing", 0>>, <<"name", "string_too_short", 1>>,
   <<"name", "string_too_long", 200>>, <<"description", "string_too_long", 2000>>,
   <<"price", "value_too_small", 0>>, <<"price", "value_above_exclusive_maximum", 1000000>>,
   <<"stock", "value_too_small", 0>>, <<"stock", "value_too_large", 999999>>,
   <<"tags", "array_too_large", 20>>}
CreateItemRequest_T ==
  ObjectOf(CreateItemRequest.new, parse_CreateItemRequest, serialize_CreateItemRequest)
CreateItemRequest_arrays == Arrays(CreateItemRequest_T, CreateItemRequest_t)

UpdateItemRequest ==
  [new |-> [name |-> NoText, description |-> NoText, price |-> ZeroNumber, stock |-> Zero,
            category |-> Enum("electronics"), tags |-> Empty],
   limits |-> {<<"name", "MIN_LENGTH", 1>>, <<"name", "MAX_LENGTH", 200>>,
               <<"description", "MAX_LENGTH", 2000>>, <<"price", "MINIMUM", 0>>,
               <<"stock", "MINIMUM", 0>>, <<"tags", "MAX_ITEMS", 20>>}]
UpdateItemRequest_t ==
  [Name |-> Text, Description |-> Text, Price |-> Number, Stock |-> Whole,
   Tags |-> ArrayOf(Text), Item |-> Text]
parse_UpdateItemRequest ==
  <<Prop("name", FALSE, UpdateItemRequest_t.Name), Prop("tags", FALSE, UpdateItemRequest_t.Tags),
    Prop("price", FALSE, UpdateItemRequest_t.Price),
    Prop("stock", FALSE, UpdateItemRequest_t.Stock), Prop("category", FALSE, ItemCategory),
    Prop("description", FALSE, UpdateItemRequest_t.Description)>>
serialize_UpdateItemRequest == <<"name", "description", "price", "stock", "category", "tags">>
validate_UpdateItemRequest ==
  {<<"name", "string_too_short", 1>>, <<"name", "string_too_long", 200>>,
   <<"description", "string_too_long", 2000>>, <<"price", "value_too_small", 0>>,
   <<"stock", "value_too_small", 0>>, <<"tags", "array_too_large", 20>>}
UpdateItemRequest_T ==
  ObjectOf(UpdateItemRequest.new, parse_UpdateItemRequest, serialize_UpdateItemRequest)
UpdateItemRequest_arrays == Arrays(UpdateItemRequest_T, UpdateItemRequest_t)

ItemList ==
  [new |-> [items |-> Empty, total |-> Unset, limit |-> Zero, offset |-> Zero]]
ItemList_t == [Items |-> ArrayOf(Item_T), Total |-> Whole, Limit |-> Whole, Offset |-> Whole]
parse_ItemList ==
  <<Prop("items", TRUE, ItemList_t.Items), Prop("total", TRUE, ItemList_t.Total),
    Prop("limit", FALSE, ItemList_t.Limit), Prop("offset", FALSE, ItemList_t.Offset)>>
serialize_ItemList == <<"items", "total", "limit", "offset">>
ItemList_T == ObjectOf(ItemList.new, parse_ItemList, serialize_ItemList)
ItemList_arrays == Arrays(ItemList_T, ItemList_t)

-----------------------------------------------------------------------------
(* POST /echo, GET /health *)

EchoRequest ==
  [new |-> [message |-> NoText, repeat |-> Zero, uppercase |-> No],
   limits |-> {<<"message", "REQUIRED", TRUE>>, <<"message", "MAX_LENGTH", 4096>>,
               <<"repeat", "MINIMUM", 1>>, <<"repeat", "MAXIMUM", 100>>}]
EchoRequest_t == [Message |-> Text, Repeat |-> Whole, Uppercase |-> Flag]
parse_EchoRequest ==
  <<Prop("message", TRUE, EchoRequest_t.Message), Prop("repeat", FALSE, EchoRequest_t.Repeat),
    Prop("uppercase", FALSE, EchoRequest_t.Uppercase)>>
serialize_EchoRequest == <<"message", "repeat", "uppercase">>
validate_EchoRequest ==
  {<<"message", "required_field_missing", 0>>, <<"message", "string_too_long", 4096>>,
   <<"repeat", "value_too_small", 1>>, <<"repeat", "value_too_large", 100>>}
EchoRequest_T == ObjectOf(EchoRequest.new, parse_EchoRequest, serialize_EchoRequest)
EchoRequest_arrays == Arrays(EchoRequest_T, EchoRequest_t)

EchoResponse == [new |-> [message |-> NoText, length |-> Zero]]
EchoResponse_t == [Message |-> Text, Length |-> Whole]
parse_EchoResponse ==
  <<Prop("message", TRUE, EchoResponse_t.Message), Prop("length", FALSE, EchoResponse_t.Length)>>
serialize_EchoResponse == <<"message", "length">>
EchoResponse_T == ObjectOf(EchoResponse.new, parse_EchoResponse, serialize_EchoResponse)
EchoResponse_arrays == Arrays(EchoResponse_T, EchoResponse_t)

health_check_response == [new |-> [status |-> NoText, uptime_ms |-> Zero]]
health_check_response_t == [Status |-> Text, Uptime_ms |-> Whole]
parse_health_check_response ==
  <<Prop("status", FALSE, health_check_response_t.Status),
    Prop("uptime_ms", FALSE, health_check_response_t.Uptime_ms)>>
serialize_health_check_response == <<"status", "uptime_ms">>
health_check_response_T ==
  ObjectOf(health_check_response.new, parse_health_check_response, serialize_health_check_response)
health_check_response_arrays == Arrays(health_check_response_T, health_check_response_t)

\* The types of parameters, which have parsers and serializers too.
Param_t ==
  [list_items_param_limit |-> Whole, list_items_param_offset |-> Whole,
   create_item_param_X_Request_Id |-> Text, create_item_param_session |-> Text,
   get_item_param_id |-> Whole, update_item_param_id |-> Whole,
   delete_item_param_id |-> Whole]

-----------------------------------------------------------------------------
(* The operations and the routers. *)

Id == Param("path", "{id}", TRUE, TRUE)

dispatch_compute_sum   == Op(TRUE, {}, Body(SumRequest_T, validate_SumRequest, SumRequest.limits))
dispatch_compute_stats == Op(TRUE, {}, Body(StatsRequest_T, validate_StatsRequest, StatsRequest.limits))
dispatch_register_user ==
  Op(TRUE, {}, Body(RegisterRequest_T, validate_RegisterRequest, RegisterRequest.limits))
dispatch_list_items ==
  Op(TRUE, {Param("query", "limit", TRUE, FALSE), Param("query", "offset", TRUE, FALSE),
            Param("query", "category", FALSE, FALSE)}, {})
dispatch_create_item ==
  Op(TRUE, {Param("header", "X-Request-Id", FALSE, TRUE), Param("cookie", "session", FALSE, FALSE)},
     Body(CreateItemRequest_T, validate_CreateItemRequest, CreateItemRequest.limits))
dispatch_get_item == Op(TRUE, {Id}, {})
dispatch_update_item ==
  Op(TRUE, {Id}, Body(UpdateItemRequest_T, validate_UpdateItemRequest, UpdateItemRequest.limits))
dispatch_delete_item == Op(FALSE, {Id}, {})
dispatch_echo == Op(TRUE, {}, Body(EchoRequest_T, validate_EchoRequest, EchoRequest.limits))
dispatch_health_check == Op(TRUE, {}, {})

make_router ==
  <<Route_("post", <<"compute", "sum">>, dispatch_compute_sum),
    Route_("post", <<"compute", "stats">>, dispatch_compute_stats),
    Route_("post", <<"users", "register">>, dispatch_register_user),
    Route_("get", <<"items">>, dispatch_list_items),
    Route_("post", <<"items">>, dispatch_create_item),
    Route_("get", <<"items", "{id}">>, dispatch_get_item),
    Route_("put", <<"items", "{id}">>, dispatch_update_item),
    Route_("delete", <<"items", "{id}">>, dispatch_delete_item),
    Route_("post", <<"echo">>, dispatch_echo),
    Route_("get", <<"health">>, dispatch_health_check)>>

fast_router ==
  {Fast(<<"/", "compute", "/", "sum">>, "post", dispatch_compute_sum),
   Fast(<<"/", "compute", "/", "stats">>, "post", dispatch_compute_stats),
   Fast(<<"/", "users", "/", "register">>, "post", dispatch_register_user),
   Fast(<<"/", "items">>, "get", dispatch_list_items),
   Fast(<<"/", "items">>, "post", dispatch_create_item),
   Fast(<<"/", "echo">>, "post", dispatch_echo),
   Fast(<<"/", "health">>, "get", dispatch_health_check)}
=============================================================================
