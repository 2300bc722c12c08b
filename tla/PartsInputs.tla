----------------------------- MODULE PartsInputs -----------------------------
(***************************************************************************)
(* The inputs for Parts: route tables, requests, descriptions, documents   *)
(* and schemas, chosen so that the cases that the code tells apart meet.   *)
(***************************************************************************)
EXTENDS ApiInputs

Nothing == "null"

-----------------------------------------------------------------------------
(* Router: routes of equal and different specificity, for several methods. *)

Route(m, p, k) == [method |-> m, pattern |-> p, middleware |-> k]

RouteTables ==
  {<<Route("get", <<"a", "{x}">>, 0), Route("get", <<"a", "b">>, 2),
     Route("post", <<"{y}", "b">>, 1), Route("get", <<"{x}", "b">>, 1), Route("get", <<>>, 0)>>,
   <<Route("post", <<"a", "b">>, 1), Route("get", <<"{x}", "b">>, 0),
     Route("get", <<"a", "{x}">>, 2)>>}

RouterUris ==
  {<<"/">>, <<"/", "a", "/", "b">>, <<"/", "a", "/", "/", "c", "/">>,
   <<"/", "c", "/", "b", "?", "a">>, <<"/", "a", "/", "b", "/", "a">>,
   <<"/", "c", "#", "/", "b">>, <<"/", "a", "#", "/", "b">>}

-----------------------------------------------------------------------------
(* OpenApiLoader: three components that refer to one another, in allOf too, *)
(* forwards and backwards, with allOf as the first of the keys or after     *)
(* others.                                                                  *)

Ref(n)       == [key |-> "$ref", to |-> n]
MaxLength(n) == [key |-> "maxLength", max |-> n]
Properties(ps) == [key |-> "properties", props |-> ps]
AllOf(ss)    == [key |-> "allOf", subs |-> ss]
Required(ns) == [key |-> "required", names |-> ns]

Bases ==
  {<<MaxLength(2)>>, <<Ref("B")>>,
   <<Properties(<<<<"x", <<Ref("B")>>>>>>), Required({"x"})>>,
   <<Required({"y"}), Properties(<<<<"x", <<Ref("A")>>>>, <<"y", <<MaxLength(1)>>>>>>)>>}

Wholes ==
  Bases \union
  {<<AllOf(<<<<Ref("A")>>, <<MaxLength(3), Properties(<<<<"x", <<MaxLength(1)>>>>>>)>>>>), MaxLength(5)>>,
   <<Properties(<<<<"z", <<Ref("C")>>>>>>), AllOf(<<<<Ref("C")>>, <<Ref("A")>>>>)>>,
   <<Required({"x"}), AllOf(<<<<Ref("C")>>, <<MaxLength(3)>>, <<Ref("A")>>>>), MaxLength(5)>>}

\* No schema is a part of itself.
Components ==
  {<<<<"A", a>>, <<"B", b>>, <<"C", c>>>> : a \in Bases, b \in Bases, c \in Bases}
    \union {<<<<"A", a>>, <<"B", b>>, <<"C", c>>>> :
              a \in Bases \ {<<Ref("B")>>}, b \in Wholes, c \in Bases \ {<<Ref("B")>>}}

Operation(id, status) == [key |-> "get", id |-> id, status |-> status]
Shared(ns) == [key |-> "parameters", names |-> ns]

PathItems ==
  {[names |-> {"id", "at"}, entries |-> <<Shared({"id"}), Operation("a", 200), Operation(i, s)>>] :
     i \in {"a", Nothing}, s \in {200, 600}}

ApiDescriptions ==
  [components : Components, bodies : {<<<<Ref("B")>>>>, <<<<AllOf(<<<<Ref("B")>>, <<Ref("C")>>>>)>>>>},
   path : {[names |-> {"id"}, entries |-> <<Operation("a", 200)>>]}]
    \union
  [components : {<<<<"A", <<MaxLength(2)>>>>>>}, bodies : {<<<<Ref("A")>>, <<Ref("A")>>>>}, path : PathItems]

-----------------------------------------------------------------------------
(* JsonCodec: brackets, quotes and escapes in strings, values of wrong     *)
(* types, unknown and repeated keys, arrays in arrays.                     *)

Schema(props) == ObjectOf(Fresh(props), props, [i \in DOMAIN props |-> props[i].name])
Inner == Schema(<<Prop("b", TRUE, Text)>>)

CodecSchemas ==
  {Schema(<<Prop("a", FALSE, Text), Prop("b", FALSE, Nullable(Whole))>>),
   Schema(<<Prop("a", FALSE, ArrayOf(Whole)), Prop("b", FALSE, Flag)>>),
   Schema(<<Prop("b", TRUE, Text), Prop("a", FALSE, Inner)>>),
   Schema(<<Prop("a", FALSE, ArrayOf(Inner)), Prop("b", FALSE, Whole)>>),
   Schema(<<Prop("b", FALSE, Number), Prop("a", TRUE, OneOf({"w"}))>>)}

Strings == {<<"str", <<>>>>, <<"str", <<"}">>>>, <<"str", <<"'", "]">>>>,
            <<"str", <<"\\">>>>, <<"str", <<"1">>>>}
Scalars == Strings \union {<<"int", "1">>, <<"bool", "true">>, <<"null">>}
Brief   == {<<"str", <<"'", "}">>>>, <<"int", "1">>, <<"str", <<"w">>>>, <<"null">>}
Objects == {<<"obj", <<>>>>} \union {<<"obj", <<<<k, v>>>>>> : k \in {"b", "c"}, v \in Brief}
Arrays  ==
  {<<"arr", <<>>>>} \union {<<"arr", <<v>>>> : v \in Brief \union Objects}
    \union {<<"arr", <<v, w>>>> : v \in Brief \union {<<"arr", <<<<"int", "1">>>>>>}, w \in Brief}
Anything == Scalars \union Objects \union Arrays

CodecDocuments ==
  {<<"obj", <<>>>>} \union {<<"obj", <<<<"a", v>>>>>> : v \in Anything}
    \union {<<"obj", <<<<"c", v>>, <<"b", w>>>>>> : v \in Anything, w \in Brief}
    \union {<<"obj", <<<<"b", w>>, <<"a", v>>>>>> : v \in Anything, w \in Brief}

-----------------------------------------------------------------------------
(* DtoOrder: all graphs of three schemas, no array an item of itself; an   *)
(* object without properties may have been left with items by allOf.       *)

GraphSize == 3
Ids == 1 .. GraphSize
Node(kind, props, items) == [kind |-> kind, props |-> props, items |-> items]
Nodes == {Node("object", p, 0) : p \in SUBSET Ids \ {{}}}
           \union {Node(k, {}, i) : k \in {"array", "object"}, i \in Ids}
           \union {Node("string", {}, 0)}

SchemaGraphs ==
  {d \in [Ids -> Nodes] : \A i \in Ids : d[i].kind = "array" =>
     d[i].items # i /\ (d[d[i].items].kind = "array" => d[i].items < i)}

-----------------------------------------------------------------------------
(* SchemaNames: an object with two properties, in and out of operations,   *)
(* with names that the document may have already.                          *)

NamedSchema(n, p, f, e, ps) == [name |-> n, parent |-> p, field |-> f, enum |-> e, props |-> ps]
OpRequest == <<"op", "request">>
Tops == {NamedSchema(n, <<>>, <<>>, FALSE, {2, 3}) : n \in {<<>>, <<"schema">>, OpRequest}}
Kids == {NamedSchema(<<>>, p, <<"status">>, e, {}) : p \in {<<>>, OpRequest}, e \in BOOLEAN}
Rest == {NamedSchema(<<"op", "status">>, <<>>, <<>>, FALSE, {}),
         NamedSchema(<<>>, <<>>, <<>>, FALSE, {})}
Use(i) == [schema |-> i, base |-> OpRequest]

UnnamedSchemas ==
  [schemas : {<<t, k, r>> : t \in Tops, k \in Kids, r \in Kids \union Rest},
   uses : {<<>>, <<Use(1)>>, <<Use(1), Use(2)>>}, flat : BOOLEAN]
=============================================================================
