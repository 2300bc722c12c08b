---------------------------- MODULE GeneratedApi ----------------------------
(***************************************************************************)
(* A service as katana_gen writes it (router_generator.cpp,                *)
(* validator_generator.cpp): a request reaches the dispatch function of an *)
(* operation through the router, or through the fast_router, which         *)
(* compares the path itself and leaves the rest to the router.  Dispatch   *)
(* negotiates, reads the parameters, parses the body and validates it      *)
(* before it calls the handler.  The generator writes one dispatch and one *)
(* validate function for each operation; here they are interpreted.        *)
(*                                                                         *)
(* An api is [make_router, fast_router]: its routes, and the static ones   *)
(* among them as tokens of the path.  An operation is [produces, params,   *)
(* body]; a parameter is [in, name, int, required]; a body is {} or        *)
(* {[type, checks, limits]}, where a check is <<field, code, limit>> of a  *)
(* validate function and a limit is <<field, name, limit>> of the metadata *)
(* of the DTO.  The field "" is the DTO itself.                            *)
(***************************************************************************)
EXTENDS Json

CONSTANTS
  Sizes,        \* the lengths of the words that are longer than one byte
  Plain,        \* the words of letters, digits, "_" and "-"
  Emails,       \* the strings that are e-mail addresses
  Apis,         \* the services, by name
  Requests(_)   \* the requests that clients send to one

VARIABLES
  api,
  request,   \* [method, uri, accept, type, headers, cookies, body, doc]
  response,  \* the status it got
  handled    \* the DTO and the arguments of the handler's call, or NotCalled

vars == <<api, request, response, handled>>

Unanswered == 0
NotCalled  == [dto |-> {}, args |-> <<>>]

\* The router that make_router makes.
R(table) == INSTANCE Router WITH
  Parameters <- {"{id}"}, MaxRouteSegments <- 16, Tables <- {table},
  Methods <- {}, Uris <- {}, routes <- table, route <- 0, params <- {},
  depth <- 0, entered <- <<>>, answer <- 0

-----------------------------------------------------------------------------
\* negotiate_response_type for an operation that produces application/json;
\* a header is the sequence of its media ranges without parameters.
Negotiated(accept) ==
  accept = <<>> \/ \E i \in 1 .. Len(accept) :
                     accept[i] \in {"*/*", "application/*", "application/json"}

\* find_content_type for an operation that consumes application/json
FindContentType(type) == type = <<"application/json">>

\* The index of the first c in s from i on, or behind its end.
First(s, i, c) == Min({j \in i .. Len(s) + 1 : j = Len(s) + 1 \/ s[j] = c})

\* query_param: the value behind the first key that is this one, in a set.
QueryParam(uri, key) ==
  LET query == SubSeq(uri, First(uri, 1, "?") + 1, Len(uri))
      part(i) == SubSeq(query, i, First(query, i, "&") - 1)
      starts == {i \in 1 .. Len(query) + 1 : i = 1 \/ query[i - 1] = "&"}
      found  == {i \in starts : SubSeq(part(i), 1, First(part(i), 1, "=") - 1) = <<key>>}
  IN  IF found = {} THEN {}
      ELSE LET p == part(Min(found)) IN {SubSeq(p, First(p, 1, "=") + 1, Len(p))}

\* cookie_param: the cookies are <<name, value>>, or <<word>> without a "=".
CookieParam(cookies, key) ==
  LET found == {i \in 1 .. Len(cookies) : Len(cookies[i]) = 2 /\ cookies[i][1] = key}
  IN  IF found = {} THEN {} ELSE {<<cookies[Min(found)][2]>>}

\* The values, at most one, that a request gives to a parameter.
Given(r, p, bound) ==
  CASE p.in = "path"   -> {<<b[2]>> : b \in {x \in bound : x[1] = p.name}}
    [] p.in = "query"  -> QueryParam(r.uri, p.name)
    [] p.in = "header" -> {<<h[2]>> : h \in {x \in r.headers : x[1] = p.name}}
    [] p.in = "cookie" -> CookieParam(r.cookies, p.name)

\* What dispatch refuses: a required parameter that is missing, an integer
\* that does not begin with a digit (std::from_chars).
BadParam(r, p, bound) ==
  \/ p.required /\ Given(r, p, bound) = {}
  \/ p.int /\ \E v \in Given(r, p, bound) : ~IsWhole(v)

-----------------------------------------------------------------------------
Size(v) ==
  IF v[1] = "arr" THEN Len(v[2])
  ELSE FoldLeft(LAMBDA n, w : n + (IF w \in DOMAIN Sizes THEN Sizes[w] ELSE 1), 0, v[2])

\* The integer part of a number, and whether it has more.
Floor(v)      == Numbers[IF v[1] = "int" THEN v[2] ELSE v[2][1]]
Fractional(v) == v[1] = "num" /\ IsFraction(v[2])

Matches(v)  == \A i \in DOMAIN v[2] : v[2][i] \in Plain
IsUnique(v) == \A i, j \in DOMAIN v[2] : v[2][i] = v[2][j] => i = j
Field(dto, name) == IF name = "" THEN dto ELSE dto[2][name]

\* One test of a validate function, on the field it is about.
Fails(c, v) ==
  CASE c[2] = "required_field_missing" -> Size(v) = 0
    [] c[2] = "string_too_short" -> Size(v) > 0 /\ Size(v) < c[3]
    [] c[2] = "string_too_long"  -> Size(v) > c[3]
    [] c[2] = "pattern_mismatch" -> Size(v) > 0 /\ ~Matches(v)
    [] c[2] = "invalid_email_format" -> Size(v) > 0 /\ v[2] \notin Emails
    [] c[2] = "value_too_small" -> v # Null /\ Floor(v) < c[3]
    [] c[2] = "value_too_large" ->
         v # Null /\ (Floor(v) > c[3] \/ (Floor(v) = c[3] /\ Fractional(v)))
    [] c[2] = "value_above_exclusive_maximum" -> v # Null /\ Floor(v) >= c[3]
    [] c[2] = "array_too_small" -> (c[1] = "" \/ Size(v) > 0) /\ Size(v) < c[3]
    [] c[2] = "array_too_large" -> Size(v) > c[3]
    [] c[2] = "array_items_not_unique" -> ~IsUnique(v)

\* validate_<type>: the statuses that dispatch can go on with.  A test of a
\* field that was never set may go either way.
Validated(checks, dto) ==
  LET set   == {c \in checks : Field(dto, c[1]) # Unset}
      fails == \E c \in set : Fails(c, Field(dto, c[1]))
  IN  IF fails THEN {400} ELSE IF set # checks THEN {200, 400} ELSE {200}

\* parse_<type>(req.body), for the one body or none that the operation has.
Parsed(op, r) == {Parse(b.type, r.body, 1) : b \in op.body}

\* dispatch_<operation>: the statuses it can answer, 200 if it calls the
\* handler.
Dispatch(op, r, bound, parsed) ==
  IF op.produces /\ ~Negotiated(r.accept) THEN {406}
  ELSE IF \E p \in op.params : BadParam(r, p, bound) THEN {400}
  ELSE IF op.body # {} /\ ~FindContentType(r.type) THEN {415}
  ELSE IF \E body \in parsed : ~body.ok THEN {400}
  ELSE IF op.body = {} THEN {200}
  ELSE UNION {Validated(b.checks, body.val) : b \in op.body, body \in parsed}

\* What the handler is called with.
Called(op, r, bound, parsed) ==
  [dto  |-> {body.val : body \in parsed},
   args |-> [n \in {p.name : p \in op.params} |->
               UNION {Given(r, p, bound) : p \in {q \in op.params : q.name = n}}]]

Outcome(op, r, bound) ==
  LET parsed == Parsed(op, r)
  IN  {[status |-> s, call |-> IF s = 200 THEN Called(op, r, bound, parsed) ELSE NotCalled] :
         s \in Dispatch(op, r, bound, parsed)}

Refused(status) == {[status |-> status, call |-> NotCalled]}

\* router::dispatch and map_dispatch_error
ViaRouter(a, r) ==
  LET table == a.make_router
      split == R(table)!SplitPath(R(table)!StripQuery(r.uri))
      best  == R(table)!BestRoute(r.method, split.parts)
  IN  IF split.overflow \/ R(table)!AllowedMethods(split.parts) = {} THEN Refused(404)
      ELSE IF best = 0 THEN Refused(405)
      ELSE Outcome(table[best].op, r, R(table)!ParamsOf(table[best].pattern, split.parts))

\* Mutant: the fast path does not look at the method.
FastRoutesAny(a, r) == {f \in a.fast_router : f.path = SubSeq(r.uri, 1, First(r.uri, 1, "?") - 1)}

\* The fast routes for a request: by the path as it stands, cut at the query,
\* and the method.
FastRoutes(a, r) ==
  {f \in a.fast_router :
     f.path = SubSeq(r.uri, 1, First(r.uri, 1, "?") - 1) /\ f.method = r.method}

\* fast_router::operator()
ViaFastRouter(a, r) ==
  IF FastRoutes(a, r) = {} THEN ViaRouter(a, r)
  ELSE Outcome((CHOOSE f \in FastRoutes(a, r) : TRUE).op, r, {})

Service == Apis[api]

Init ==
  /\ api \in DOMAIN Apis
  /\ request \in Requests(api)
  /\ response = Unanswered /\ handled = NotCalled

Serve(outcomes) ==
  /\ response = Unanswered
  /\ \E o \in outcomes : response' = o.status /\ handled' = o.call
  /\ UNCHANGED <<api, request>>

Next == Serve(ViaRouter(Service, request)) \/ Serve(ViaFastRouter(Service, request))

Spec == Init /\ [][Next]_vars

-----------------------------------------------------------------------------
\* What a limit of the metadata says of a value, as JSON Schema has it.
Meets(l, v) ==
  CASE l[2] = "REQUIRED"   -> TRUE
    [] l[2] \in {"MIN_LENGTH", "MIN_ITEMS"} -> Size(v) >= l[3]
    [] l[2] \in {"MAX_LENGTH", "MAX_ITEMS"} -> Size(v) <= l[3]
    [] l[2] = "PATTERN"    -> Matches(v)
    [] l[2] = "FORMAT"     -> v[2] \in Emails
    [] l[2] = "MINIMUM"    -> v # Null => Floor(v) >= l[3]
    [] l[2] = "MAXIMUM"    -> v # Null => Floor(v) < l[3] \/ (Floor(v) = l[3] /\ ~Fractional(v))
    [] l[2] = "EXCLUSIVE_MAXIMUM" -> v # Null => Floor(v) < l[3]
    [] l[2] = "UNIQUE_ITEMS" -> IsUnique(v)

IsEmpty(v) == v[1] \in {"str", "arr"} /\ Size(v) = 0

\* A document that has the form of the description: each value of its type,
\* each required one there, no name twice.
RECURSIVE Conforms(_, _)
Conforms(type, v) ==
  CASE type.nullable /\ v = Null -> TRUE
    [] type.kind = "number" -> v[1] \in {"int", "num"}
    [] type.kind = "integer" -> v[1] = "int"
    [] type.kind = "boolean" -> v[1] = "bool"
    [] type.kind = "array" -> v[1] = "arr" /\ \A i \in DOMAIN v[2] : Conforms(type.items, v[2][i])
    [] type.kind = "object" ->
         /\ v[1] = "obj"
         /\ \A i, j \in DOMAIN v[2] : v[2][i][1] = v[2][j][1] => i = j
         /\ \A p \in Range(type.props) :
              LET given == {x \in Range(v[2]) : x[1] = p.name}
              IN  (p.required => given # {}) /\ \A x \in given : Conforms(p.type, x[2])
    [] OTHER -> Reads(type, v)

\* The operation that a request is for, and its path parameters.
Asked(a, r) ==
  LET parts == R(a.make_router)!SplitPath(R(a.make_router)!StripQuery(r.uri)).parts
      best  == R(a.make_router)!BestRoute(r.method, parts)
  IN  IF best = 0 THEN {}
      ELSE {[op |-> a.make_router[best].op,
             bound |-> R(a.make_router)!ParamsOf(a.make_router[best].pattern, parts)]}

\* The two routers give every request the same answer, whichever the service
\* is built with.
FastAgrees == response = Unanswered => ViaFastRouter(Service, request) = ViaRouter(Service, request)

\* The handler is only called with a DTO whose fields are within the limits of
\* the metadata, but for two kinds of fields: an empty string or array that is
\* not required passes for one that is absent, whatever its minimum; and a
\* required number, boolean or enum that was given a value of another type was
\* never set, and may hold anything.
HandlerGetsValid ==
  response = 200 =>
    \A o \in Asked(Service, request) : \A b \in o.op.body : \A l \in b.limits :
      \A dto \in handled.dto :
        LET v == Field(dto, l[1])
            required == \E q \in b.limits : q[1] = l[1] /\ q[2] = "REQUIRED"
        IN  \/ v = Unset /\ required
            \/ Meets(l, v) /\ ~(required /\ IsEmpty(v))
            \/ IsEmpty(v) /\ l[1] # "" /\ ~required

\* What the handler gets is what the document means to its type.  That is how
\* the parser is lenient: a value of another type is passed over, a number or a
\* literal in a string is taken for its value, and of the values of a name the
\* last one counts; json_generator.cpp:959 says that a wrong type is an error.
HandlerGetsMeaning ==
  response = 200 /\ request.doc # Null =>
    \A o \in Asked(Service, request) : \A b \in o.op.body :
      /\ Reads(b.type, request.doc)
      /\ handled.dto = {Meaning(b.type, request.doc)}

\* A document that the schema allows: of its form, and with the fields that are
\* in it within their limits.
IsGiven(doc, name) == name = "" \/ \E x \in Range(doc[2]) : x[1] = name

SchemaAllows(b, doc) ==
  /\ doc # Null /\ Conforms(b.type, doc)
  /\ \A l \in b.limits : IsGiven(doc, l[1]) => Meets(l, Field(Meaning(b.type, doc), l[1]))

\* What the validator refuses beyond that: a required string or array that is
\* empty, and a number that is left out, although it is not required, when the
\* 0 that stands for it is below its minimum.
RefusedAnyway(b, doc) ==
  \E l \in b.limits :
    LET v == Field(Meaning(b.type, doc), l[1])
    IN  \/ l[2] = "REQUIRED" /\ IsEmpty(v)
        \/ l[2] = "MINIMUM" /\ ~IsGiven(doc, l[1]) /\ v # Null /\ Floor(v) < l[3]

\* A request that meets the description of the service is served, if its body
\* is not one of those two, and otherwise refused with 400: its document is
\* allowed by the schema, its media types fit, its parameters are there and its
\* integers are integers.  (README.md:610 and generated_validators.hpp:14 have
\* no such exception.)
ValidIsServed ==
  \A o \in Asked(Service, request) :
    /\ \A b \in o.op.body : SchemaAllows(b, request.doc) /\ FindContentType(request.type)
    /\ Negotiated(request.accept)
    /\ \A p \in o.op.params :
         /\ p.required => Given(request, p, o.bound) # {}
         /\ p.int => Given(request, p, o.bound) \subseteq {<<w>> : w \in DOMAIN Numbers}
    => response \in {Unanswered,
                    IF \E b \in o.op.body : RefusedAnyway(b, request.doc) THEN 400 ELSE 200}

\* The fast path and the router answer alike; the handler gets what the parser
\* makes of the document, within the limits but for the fields named above; and
\* of the requests that meet the description exactly those are refused that
\* RefusedAnyway names.
ApiKeepsItsContract == FastAgrees /\ HandlerGetsValid /\ HandlerGetsMeaning /\ ValidIsServed
=============================================================================
