------------------------------- MODULE Router -------------------------------
(***************************************************************************)
(* router (router.hpp): a request is given to the route that matches its   *)
(* path, has its method and is the most specific, through the route's      *)
(* middleware; without one it is answered 405 or 404.                      *)
(*                                                                         *)
(* A uri is a sequence of tokens: "/", "?", "#" and names.  A pattern is a *)
(* sequence of segments, each a name or one of Parameters.                 *)
(***************************************************************************)
EXTENDS Integers, Sequences, FiniteSetsExt

CONSTANTS
  Parameters,        \* segments that are parameters, like {id}
  MaxRouteSegments,  \* MAX_ROUTE_SEGMENTS
  Tables,            \* route tables tried: [method, pattern, middleware]
  Methods, Uris      \* methods and uris requested

VARIABLES
  routes,   \* routes_
  request,  \* the request under way: [method, uri], or NoRequest
  route,    \* the index of the route that serves it, 0 for none
  params,   \* ctx.params: <<parameter, segment>> pairs
  depth,    \* the middleware that runs, size + 1 for the handler
  entered,  \* history: the middleware entered for this request, in order
  answer    \* the response, or NoAnswer

vars == <<routes, request, route, params, depth, entered, answer>>

RouterAssumption ==
  /\ MaxRouteSegments \in Nat
  /\ Tables \subseteq Seq([method : STRING, pattern : Seq(STRING), middleware : Nat])
  /\ \A table \in Tables : \A i \in DOMAIN table : Len(table[i].pattern) <= MaxRouteSegments
  /\ Methods \subseteq STRING /\ Uris \subseteq Seq(STRING)

NoRequest == [method |-> "none", uri |-> <<>>]
NoAnswer  == [status |-> "none", by |-> "none", allow |-> {}]

-----------------------------------------------------------------------------
\* strip_query
StripQuery(uri) ==
  LET ends == {i \in 1 .. Len(uri) : uri[i] \in {"?", "#"}}
  IN  IF ends = {} THEN uri ELSE SubSeq(uri, 1, Min(ends) - 1)

\* The runs between slashes, empty ones skipped.
Names(path) ==
  LET names[i \in 0 .. Len(path)] ==
        IF i = 0 THEN <<>>
        ELSE IF path[i] = "/" THEN names[i - 1] ELSE Append(names[i - 1], path[i])
  IN  names[Len(path)]

\* path_pattern::split_path
SplitPath(path) ==
  LET parts == Names(path)
  IN  [parts |-> SubSeq(parts, 1, Min({Len(parts), MaxRouteSegments})),
       overflow |-> Len(parts) > MaxRouteSegments]

\* path_pattern::match_segments
MatchSegments(pattern, parts) ==
  /\ Len(pattern) = Len(parts)
  /\ \A i \in 1 .. Len(pattern) :
       pattern[i] \in Parameters \/ pattern[i] = parts[i]

\* The parameters that match_segments collects.
ParamsOf(pattern, parts) ==
  {<<pattern[i], parts[i]>> : i \in {j \in 1 .. Len(pattern) : pattern[j] \in Parameters}}

LiteralCount(pattern) == Cardinality({i \in 1 .. Len(pattern) : pattern[i] \notin Parameters})

\* path_pattern::specificity_score
SpecificityScore(pattern) ==
  LiteralCount(pattern) * 16 + (MaxRouteSegments - (Len(pattern) - LiteralCount(pattern)))

\* Mutant: a later route of the same score takes over.
BetterLast(i, best) ==
  best = 0 \/ SpecificityScore(routes[i].pattern) >= SpecificityScore(routes[best].pattern)

\* Whether route i is to replace the best one so far.
Better(i, best) ==
  best = 0 \/ SpecificityScore(routes[i].pattern) > SpecificityScore(routes[best].pattern)

\* Phase 1 of dispatch_with_info: the scan for a route with the method.
BestRoute(method, parts) ==
  LET best[i \in 0 .. Len(routes)] ==
        IF i = 0 THEN 0
        ELSE IF /\ routes[i].method = method
                /\ MatchSegments(routes[i].pattern, parts)
                /\ Better(i, best[i - 1])
             THEN i ELSE best[i - 1]
  IN  best[Len(routes)]

\* Phase 2: the methods of all routes that match the path.
AllowedMethods(parts) ==
  {routes[i].method : i \in {j \in 1 .. Len(routes) : MatchSegments(routes[j].pattern, parts)}}

-----------------------------------------------------------------------------
Init ==
  /\ routes \in Tables
  /\ request = NoRequest /\ route = 0 /\ params = {}
  /\ depth = 0 /\ entered = <<>> /\ answer = NoAnswer

Answer(status, by, allow) == answer' = [status |-> status, by |-> by, allow |-> allow]

\* dispatch_with_info and map_dispatch_error, up to the first middleware (or
\* the handler, if the route has none).
Dispatch(method, uri) ==
  /\ depth = 0
  /\ request' = [method |-> method, uri |-> uri]
  /\ entered' = <<>>
  /\ LET split == SplitPath(StripQuery(uri))
         best  == IF split.overflow THEN 0 ELSE BestRoute(method, split.parts)
         allow == IF split.overflow THEN {} ELSE AllowedMethods(split.parts)
     IN  /\ route' = best
         /\ IF best # 0
            THEN /\ params' = ParamsOf(routes[best].pattern, split.parts)
                 /\ depth' = 1
                 /\ answer' = NoAnswer
            ELSE /\ params' = {}
                 /\ depth' = 0
                 /\ Answer(IF allow # {} THEN "405" ELSE "404", "router", allow)
  /\ UNCHANGED routes

ChainSize == routes[route].middleware

\* invoker::call with an index inside the chain
InMiddleware == depth \in 1 .. ChainSize

\* A middleware calls next(), which runs the next one or the handler.
CallNext ==
  /\ depth # 0 /\ InMiddleware
  /\ depth' = depth + 1
  /\ entered' = Append(entered, depth)
  /\ UNCHANGED <<routes, request, route, params, answer>>

\* A middleware answers on its own; those before it return what it returned.
ShortCircuit ==
  /\ depth # 0 /\ InMiddleware
  /\ depth' = 0
  /\ Answer("ok", "middleware", {})
  /\ UNCHANGED <<routes, request, route, params, entered>>

\* The handler answers, or fails with an error that map_dispatch_error turns
\* into a status; its 405 names no methods.
RunHandler(outcome) ==
  /\ depth # 0 /\ ~InMiddleware
  /\ depth' = 0
  /\ Answer(outcome, "handler", {})
  /\ UNCHANGED <<routes, request, route, params, entered>>

Next == \/ \E m \in Methods, u \in Uris : Dispatch(m, u)
        \/ CallNext \/ ShortCircuit
        \/ \E o \in {"ok", "404", "405", "500"} : RunHandler(o)

Spec == Init /\ [][Next]_vars

-----------------------------------------------------------------------------
Segments == Names(StripQuery(request.uri))
Matching == {i \in 1 .. Len(routes) : MatchSegments(routes[i].pattern, Segments)}
Serving  == {i \in Matching : routes[i].method = request.method}
Literals(i) == LiteralCount(routes[i].pattern)

\* A request goes to a route of its method with the most literal segments, the
\* first such route of the table, and its handler sees that route's parameters;
\* a more specific route of another method never hides it (router.hpp:368).
MostSpecific ==
  route # 0 =>
    /\ route \in Serving
    /\ \A i \in Serving : \/ Literals(i) < Literals(route)
                          \/ Literals(i) = Literals(route) /\ i >= route
    /\ params = ParamsOf(routes[route].pattern, Segments)

\* The router itself answers only if no route serves the request: 405 with
\* exactly the methods of the routes for the path, and 404 if there is none.
RefusedRightly ==
  answer.by = "router" =>
    /\ Serving = {}
    /\ answer.status = "405" <=> Matching # {}
    /\ answer.allow = {routes[i].method : i \in Matching}

\* The handler runs behind every middleware of its route, entered in order.
HandlerGuarded ==
  answer.by = "handler" => entered = [i \in 1 .. ChainSize |-> i]

\* What an application relies on when it gives its routes to the router.
RoutedRight == MostSpecific /\ RefusedRightly /\ HandlerGuarded
=============================================================================
