----------------------------- MODULE ApiInputs -----------------------------
(***************************************************************************)
(* The generated services, and the requests that are sent to them: for     *)
(* each operation a good one, and those that differ from it in one or two  *)
(* places, chosen on both sides of every limit.  Also the DTOs that the    *)
(* serializers write.                                                      *)
(***************************************************************************)
EXTENDS JsonTypes, SequencesExt

Bench   == INSTANCE BenchmarkApi
TextOps == INSTANCE TextApi
Sums    == INSTANCE ComputeApi
Users   == INSTANCE ValidationApi

Apis ==
  [benchmark_api  |-> [make_router |-> Bench!make_router, fast_router |-> Bench!fast_router],
   text_api       |-> [make_router |-> TextOps!make_router, fast_router |-> TextOps!fast_router],
   compute_api    |-> [make_router |-> Sums!make_router, fast_router |-> Sums!fast_router],
   validation_api |-> [make_router |-> Users!make_router, fast_router |-> Users!fast_router]]

\* The words of requests: strings of several lengths, and numbers.
Sizes ==
  "w2" :> 2 @@ "w3" :> 3 @@ "w7" :> 7 @@ "w8" :> 8 @@ "w32" :> 32
    @@ "w33" :> 33 @@ "w128" :> 128 @@ "w129" :> 129 @@ "w200" :> 200
    @@ "w201" :> 201 @@ "w2000" :> 2000 @@ "w2001" :> 2001 @@ "w4096" :> 4096
    @@ "w4097" :> 4097 @@ "w10000" :> 10000 @@ "w10001" :> 10001
    @@ "w100000" :> 100000 @@ "w100001" :> 100001

Numbers ==
  "-1" :> (-1) @@ "0" :> 0 @@ "1" :> 1 @@ "12" :> 12 @@ "13" :> 13
    @@ "100" :> 100 @@ "101" :> 101 @@ "120" :> 120 @@ "121" :> 121
    @@ "150" :> 150 @@ "151" :> 151 @@ "999999" :> 999999
    @@ "1000000" :> 1000000

Fractions == {".5"}
Plain     == DOMAIN Sizes \union DOMAIN Numbers \union {"w"}
Emails    == {<<"w@w.w">>}

J == INSTANCE Json

-----------------------------------------------------------------------------
(* Documents *)

Str(w)   == <<"str", <<w>>>>
Num(w)   == <<"int", w>>
Half(w)  == <<"num", <<w, ".5">>>>
Arr(s)   == <<"arr", s>>
Obj(s)   == <<"obj", s>>
Yes      == <<"bool", "true">>
Tag ==
  <<"t1", "t2", "t3", "t4", "t5", "t6", "t7", "t8", "t9", "t10", "t11", "t12", "t13", "t14",
    "t15", "t16", "t17", "t18", "t19", "t20", "t21">>
Tags(n) == Arr([i \in 1 .. n |-> Str(Tag[i])])

\* A value for each field, within its limits.
Good ==
  [values |-> Arr(<<Num("1"), Half("13")>>), include_median |-> Yes, username |-> Str("w8"),
   email |-> Str("w@w.w"), password |-> Str("w8"), age |-> Num("13"), role |-> Str("admin"),
   tags |-> Tags(2), name |-> Str("w3"), description |-> Str("w200"), price |-> Half("12"),
   stock |-> Num("13"), category |-> Str("books"), metadata |-> Obj(<<<<"sku", Str("w")>>>>),
   message |-> Str("w3"), repeat |-> Num("1"), uppercase |-> Yes, text |-> Str("w8"),
   operation |-> Str("upper"), trim |-> Yes]

\* Values of every type.
Others == {Null, Yes, Num("13"), Str("13"), Str("true"), Obj(<<>>), Empty}

\* Values of a type, on both sides of the limits that there are.
ValuesOf(type) ==
  CASE type.kind = "string" ->
         {Str(w) : w \in DOMAIN Sizes} \union {NoText, <<"str", <<"'", "w7">>>>, Str("w@w.w")}
    [] type.kind = "integer" -> {Num(w) : w \in DOMAIN Numbers}
    [] type.kind = "number" ->
         {Num(w) : w \in DOMAIN Numbers} \union {Half(w) : w \in {"-1", "0", "999999", "1000000"}}
    [] type.kind = "boolean" -> {Yes, No}
    [] type.kind = "enum" -> {Str(w) : w \in type.values} \union {Str("w"), NoText}
    [] type.kind = "array" /\ type.items.kind = "string" ->
         {Tags(n) : n \in {0, 1, 10, 11, 20, 21}}
           \union {Arr(<<Str("t1"), v, Str("t1")>>) : v \in Others}
    [] type.kind = "array" /\ type.items.kind = "number" ->
         {Arr(<<v, w>>) : v \in Others, w \in {Num("1"), Null}}
    [] type.kind = "object" -> {Obj(<<<<"x", v>>, <<"sku", Str("w")>>>>) : v \in Others}

\* Few values, each of the wrong type or beyond the limits somewhere.
Few == {NoText, Num("-1"), Tags(11)}

GoodFields(type) ==
  [i \in 1 .. Len(type.props) |-> <<type.props[i].name, Good[type.props[i].name]>>]

DocumentsFor(type) ==
  LET good  == GoodFields(type)
      ids   == DOMAIN good
      one   == UNION {{[good EXCEPT ![i][2] = v] : v \in Others \union ValuesOf(type.props[i].type)} :
                        i \in ids}
      two   == {[good EXCEPT ![i][2] = v, ![j][2] = w] : i \in ids, j \in ids, v \in Few, w \in Few}
      again == {Append(good, <<good[i][1], v>>) : i \in ids, v \in Others \union Few}
      less  == {RemoveAt(good, i) : i \in ids}
      more  == {<<<<"x", v>>>> \o good : v \in Others}
  IN  IF type.kind = "object"
      THEN {Obj(d) : d \in {good, Reverse(good)} \union one \union two \union again
                              \union less \union more}
      ELSE {Empty} \union {Arr(<<v>>) : v \in ValuesOf(type.items)}
             \union {Arr(<<v, Num("1"), w>>) : v \in Others, w \in Others}

-----------------------------------------------------------------------------
(* Requests *)

Json_ == <<"application/json">>
Uri(pattern, id) ==
  FlattenSeq([i \in 1 .. Len(pattern) |-> <<"/", IF pattern[i] = "{id}" THEN id ELSE pattern[i]>>])

Sent(route, uri, doc, body) ==
  [method |-> route.method, uri |-> uri, accept |-> Json_, type |-> Json_,
   headers |-> {<<"X-Request-Id", "w">>}, cookies |-> <<>>, doc |-> doc, body |-> body]

GoodDocument(op) ==
  LET type == (CHOOSE b \in op.body : TRUE).type
  IN  IF op.body = {} THEN Null
      ELSE IF type.kind = "object" THEN Obj(GoodFields(type)) ELSE Good.values

GoodRequest(route) ==
  LET doc == GoodDocument(route.op)
  IN  Sent(route, Uri(route.pattern, "12"), doc, IF doc = Null THEN <<>> ELSE J!Rendered(doc, <<>>))

\* Every document; and a good one that is cut off somewhere.
BodyRequests(route) ==
  LET good == GoodRequest(route)
  IN  UNION {{[good EXCEPT !.doc = d, !.body = J!Rendered(d, <<>>)] : d \in DocumentsFor(b.type)} :
               b \in route.op.body}
        \union {[good EXCEPT !.doc = Null, !.body = SubSeq(@, 1, n)] : n \in 0 .. Len(good.body) - 1}

\* The media types, and the paths with other spellings and methods.
HeadRequests(route) ==
  LET good == GoodRequest(route)
  IN  {[good EXCEPT !.accept = a, !.type = t] :
         a \in {<<>>, <<"text/html">>, <<"text/html", "application/*">>},
         t \in {<<>>, Json_, <<"text/plain">>}}
        \union
      {[good EXCEPT !.method = m, !.uri = u] :
         m \in {"get", "post", "put", "delete", "patch"},
         u \in {good.uri, good.uri \o <<"/">>, <<"/">> \o good.uri, good.uri \o <<"#", "w">>,
                good.uri \o <<"?", "w">>, SubSeq(good.uri, 1, 2), <<"/">>}}

\* The parameters.
ParameterRequests(route) ==
  LET good == GoodRequest(route)
      queries == {<<>>, <<"limit">>, <<"limit", "=", "12">>, <<"limit", "=", "w">>,
                  <<"offset", "=", "12", "&", "limit", "=", "w">>,
                  <<"category", "=", "w", "&", "category">>, <<"limit", "=">>}
      cookies == {<<>>, <<<<"session", "w">>>>, <<<<"w">>, <<"session", "1">>, <<"session", "w">>>>}
  IN  {[good EXCEPT !.uri = Uri(route.pattern, id) \o <<"?">> \o q] : id \in {"12", "w"}, q \in queries}
        \union
      {[good EXCEPT !.headers = h, !.cookies = c] :
         h \in {{}, {<<"X-Request-Id", "w">>}, {<<"X-Request", "w">>}}, c \in cookies}

Requests(api) ==
  UNION {BodyRequests(r) \union HeadRequests(r) \union ParameterRequests(r) :
           r \in Range(Apis[api].make_router)}

-----------------------------------------------------------------------------
(* DTOs *)

StructArrays ==
  UNION {Bench!SumRequest_arrays, Bench!SumResponse_arrays, Bench!StatsRequest_arrays,
         Bench!StatsResponse_arrays, Bench!RegisterRequest_arrays, Bench!UserResponse_arrays,
         Bench!Item_arrays, Bench!ItemMetadata_arrays, Bench!CreateItemRequest_arrays,
         Bench!UpdateItemRequest_arrays, Bench!ItemList_arrays, Bench!EchoRequest_arrays,
         Bench!EchoResponse_arrays, Bench!health_check_response_arrays,
         TextOps!text_uppercase_request_arrays, TextOps!text_uppercase_response_arrays,
         TextOps!text_lowercase_request_arrays, TextOps!text_lowercase_response_arrays,
         TextOps!text_reverse_request_arrays, TextOps!text_reverse_response_arrays,
         TextOps!text_stats_request_arrays, TextOps!text_stats_response_arrays,
         TextOps!text_transform_request_arrays, TextOps!text_transform_response_arrays,
         Users!RegisterUserRequest_arrays}

\* The structs, the types of their fields and of parameters, and the arrays of
\* them all.  A null is only read back in a field: a nullable type has no
\* null for its own parser.
ApiTypes ==
  LET others == {Bench!UserRole, Bench!ItemCategory, TextOps!text_transform_operation,
                 Sums!compute_sum_request, Sums!compute_sum_response, Users!register_user_response}
                  \union Range(Bench!Param_t)
  IN  StructArrays \union {list.items : list \in StructArrays}
        \union others \union {ListOf(type) : type \in others}

\* DTOs of a type: an object has two neighbouring fields with any value, or
\* one if it is in another, and the others with the same one.
RECURSIVE Samples(_, _)
Samples(type, fields) ==
  (IF type.nullable THEN {Null} ELSE {}) \union
  CASE type.kind = "string"  -> {NoText, Str("w"), <<"str", <<"'", "}">>>>, Str("\\"), Str("1")}
    [] type.kind = "integer" -> {Num("0"), Num("-1")}
    [] type.kind = "number"  -> {ZeroNumber, Half("13")}
    [] type.kind = "boolean" -> {Yes, No}
    [] type.kind = "enum"    -> {Enum(v) : v \in type.values}
    [] type.kind \in {"array", "list"} ->
         LET items == Samples(type.items, 1)
             one   == CHOOSE v \in items : TRUE
         IN  {Empty} \union {Arr(<<v>>) : v \in items} \union {Arr(<<v, one>>) : v \in items}
    [] type.kind = "object" ->
         LET of   == [n \in DOMAIN type.new |-> Samples(J!TypeOf(type, n), 1)]
             same == [n \in DOMAIN type.new |-> CHOOSE v \in of[n] : TRUE]
             next(i) == type.props[IF i < Len(type.props) /\ fields = 2 THEN i + 1 ELSE i].name
         IN  UNION {{Obj([same EXCEPT ![type.props[i].name] = v, ![next(i)] = w]) :
                       v \in of[type.props[i].name], w \in of[next(i)]} : i \in DOMAIN type.props}

Dtos(type) == Samples(type, 2)
=============================================================================
