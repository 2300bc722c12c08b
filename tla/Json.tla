-------------------------------- MODULE Json --------------------------------
(***************************************************************************)
(* The JSON code that json_generator.cpp writes for a type, over the       *)
(* cursor of serde.hpp: parsing a text into a DTO, skipping what the type  *)
(* does not want, and writing a DTO as text.  The generator writes one     *)
(* branch for each property; here the type is interpreted.                 *)
(*                                                                         *)
(* A text is a sequence of the characters that JSON knows and of words: a  *)
(* run of other characters.  A document is a value of JsonTypes, but for   *)
(* its objects, which are sequences of <<name, value>>.                    *)
(***************************************************************************)
EXTENDS JsonTypes, Integers, SequencesExt, FiniteSetsExt

CONSTANTS
  Numbers,    \* the words that are integers, each with its value
  Fractions   \* the words that are a fraction after an integer

Space == " "
Quote == "'"
Escape == "\\"

-----------------------------------------------------------------------------
\* json_cursor: positions in a text t; Len(t) + 1 is the end.
SkipWs(t, p) == Min({i \in p .. Len(t) + 1 : i = Len(t) + 1 \/ t[i] # Space})

At(t, p, c) == LET q == SkipWs(t, p) IN q <= Len(t) /\ t[q] = c

After(t, p, c) == IF At(t, p, c) THEN SkipWs(t, p) + 1 ELSE SkipWs(t, p)

\* The quote that ends the string that p is in.
RECURSIVE StringEnd(_, _)
StringEnd(t, p) ==
  IF p > Len(t) \/ t[p] = Quote THEN p
  ELSE IF t[p] = Escape /\ p < Len(t) THEN StringEnd(t, p + 2)
  ELSE StringEnd(t, p + 1)

\* string(): its text as it stands, escapes included.
String(t, p) ==
  LET q == After(t, p, Quote)
      e == StringEnd(t, q)
  IN  IF ~At(t, p, Quote) THEN [ok |-> FALSE, val |-> <<>>, pos |-> q]
      ELSE IF e > Len(t) THEN [ok |-> FALSE, val |-> <<>>, pos |-> e]
      ELSE [ok |-> TRUE, val |-> SubSeq(t, q, e - 1), pos |-> e + 1]

\* The loop of skip_value, which counts one kind of bracket, not in strings.
RECURSIVE SkipNested(_, _, _, _, _)
SkipNested(t, p, depth, open, close) ==
  IF p > Len(t) \/ depth = 0 THEN p
  ELSE IF t[p] = Quote
       THEN SkipNested(t, Min({StringEnd(t, p + 1), Len(t)}) + 1, depth, open, close)
  ELSE IF t[p] = open  THEN SkipNested(t, p + 1, depth + 1, open, close)
  ELSE IF t[p] = close THEN SkipNested(t, p + 1, depth - 1, open, close)
  ELSE SkipNested(t, p + 1, depth, open, close)

\* skip_value
SkipValue(t, p) ==
  LET q == SkipWs(t, p)
  IN  IF q > Len(t) THEN q
      ELSE CASE t[q] = "{"   -> SkipNested(t, q + 1, 1, "{", "}")
             [] t[q] = "["   -> SkipNested(t, q + 1, 1, "[", "]")
             [] t[q] = Quote -> String(t, q).pos
             [] OTHER -> Min({i \in q .. Len(t) + 1 :
                                i = Len(t) + 1 \/ t[i] \in {",", "}", "]"}})

Got(v, p) == [ok |-> TRUE, val |-> v, pos |-> p]
Failed(p) == [ok |-> FALSE, val |-> Null, pos |-> p]

IsWhole(s)     == s # <<>> /\ s[1] \in DOMAIN Numbers
IsFraction(s)  == IsWhole(s) /\ Len(s) > 1 /\ s[2] \in Fractions
Digits(s)      == IF IsFraction(s) THEN SubSeq(s, 1, 2) ELSE SubSeq(s, 1, 1)

\* parse_int64: the digits here, or those that a string here begins with.
ParseInt64(t, p) ==
  LET q == SkipWs(t, p)
      s == String(t, q)
  IN  IF q <= Len(t) /\ IsWhole(<<t[q]>>) THEN Got(<<"int", t[q]>>, q + 1)
      ELSE IF s.ok /\ IsWhole(s.val) THEN Got(<<"int", s.val[1]>>, s.pos)
      ELSE Failed(s.pos)

\* parse_double
ParseDouble(t, p) ==
  LET q == SkipWs(t, p)
      s == String(t, q)
      n == Digits(SubSeq(t, q, Len(t)))
  IN  IF q <= Len(t) /\ IsWhole(<<t[q]>>) THEN Got(<<"num", n>>, q + Len(n))
      ELSE IF s.ok /\ IsWhole(s.val) THEN Got(<<"num", Digits(s.val)>>, s.pos)
      ELSE Failed(s.pos)

\* parse_bool: a literal, as it stands or in a string.
ParseBool(t, p) ==
  LET q == SkipWs(t, p)
      s == String(t, q)
      w == SelectSeq(s.val, LAMBDA c : c # Space)
  IN  IF q <= Len(t) /\ t[q] \in {"true", "false"} THEN Got(<<"bool", t[q]>>, q + 1)
      ELSE IF s.ok /\ w \in {<<"true">>, <<"false">>} THEN Got(<<"bool", w[1]>>, s.pos)
      ELSE Failed(s.pos)

\* <enum>_from_string of a string.
ParseEnum(values, t, p) ==
  LET s == String(t, p)
      v == {x \in values : s.val = <<x>>}
  IN  IF s.ok /\ v # {} THEN Got(Enum(s.val[1]), s.pos) ELSE Failed(s.pos)

-----------------------------------------------------------------------------
RECURSIVE Parse(_, _, _), ParseItems(_, _, _, _), ParseList(_, _, _, _),
          ParseMembers(_, _, _, _, _)

\* parse_<type>: generate_json_parser_for_schema_cursor and, for a field,
\* generate_field_parse_body.
Parse(type, t, p) ==
  CASE type.kind = "string" ->
         LET s == String(t, p) IN IF s.ok THEN Got(<<"str", s.val>>, s.pos) ELSE Failed(s.pos)
    [] type.kind = "integer" -> ParseInt64(t, p)
    [] type.kind = "number"  -> ParseDouble(t, p)
    [] type.kind = "boolean" -> ParseBool(t, p)
    [] type.kind = "enum"    -> ParseEnum(type.values, t, p)
    [] type.kind \in {"array", "list"} ->
         IF ~At(t, p, "[") THEN Failed(SkipWs(t, p))
         ELSE IF type.kind = "list" THEN ParseList(type.items, t, After(t, p, "["), <<>>)
         ELSE ParseItems(type.items, t, After(t, p, "["), <<>>)
    [] OTHER ->
         IF At(t, p, "{") THEN ParseMembers(type, t, After(t, p, "{"), type.new, {})
         ELSE Failed(SkipWs(t, p))

\* A value into a field: one that cannot be parsed is skipped, but for a
\* string that is not a value of the enum, which is behind the cursor.
ParseField(type, t, p) ==
  LET r == Parse(type, t, p)
  IN  IF r.ok \/ (type.kind = "enum" /\ String(t, p).ok) THEN r
      ELSE Failed(SkipValue(t, r.pos))

\* The loop over the items of an array; an item of another type is dropped,
\* and so is every array in an array.
ParseItems(type, t, p, items) ==
  IF SkipWs(t, p) > Len(t) THEN Got(<<"arr", items>>, SkipWs(t, p))
  ELSE IF At(t, p, "]") THEN Got(<<"arr", items>>, After(t, p, "]"))
  ELSE LET r == IF type.kind = "array" THEN Failed(SkipValue(t, p)) ELSE ParseField(type, t, p)
       IN  ParseItems(type, t, After(t, r.pos, ","), IF r.ok THEN Append(items, r.val) ELSE items)

\* parse_<type>_array: an item of another type ends it.
ParseList(type, t, p, items) ==
  IF SkipWs(t, p) > Len(t) THEN Got(<<"arr", items>>, SkipWs(t, p))
  ELSE IF At(t, p, "]") THEN Got(<<"arr", items>>, After(t, p, "]"))
  ELSE LET r == Parse(type, t, p)
       IN  IF r.ok THEN ParseList(type, t, After(t, r.pos, ","), Append(items, r.val))
           ELSE Failed(r.pos)

\* What a field holds after a value was read into it: the items of an array
\* come after those of an earlier value.
Stored(old, v) == IF old[1] = "arr" THEN <<"arr", old[2] \o v[2]>> ELSE v

\* The loop over the members of an object.  A key counts as present whatever
\* its value is; the loop ends at what is not a member.
ParseMembers(type, t, p, fields, seen) ==
  LET key  == String(t, p)
      prop == {x \in Range(type.props) : key.val = <<x.name>>}
      from == After(t, key.pos, ":")
      r    == IF prop = {} THEN Failed(SkipValue(t, from))
              ELSE ParseField((CHOOSE x \in prop : TRUE).type, t, from)
      done(q) == IF {x.name : x \in {y \in Range(type.props) : y.required}} \subseteq seen
                 THEN Got(<<"obj", fields>>, q) ELSE Failed(q)
  IN  IF SkipWs(t, p) > Len(t) THEN done(SkipWs(t, p))
      ELSE IF At(t, p, "}") THEN done(After(t, p, "}"))
      ELSE IF ~key.ok \/ ~At(t, key.pos, ":") THEN done(key.pos)
      ELSE ParseMembers(type, t, After(t, r.pos, ","),
                        IF r.ok THEN [fields EXCEPT ![key.val[1]] = Stored(@, r.val)] ELSE fields,
                        seen \union {x.name : x \in prop})

-----------------------------------------------------------------------------
\* escape_json_string_into: runs without quotes and escapes are copied.
Escaped(s) ==
  FlattenSeq([i \in 1 .. Len(s) |->
                IF s[i] \in {Quote, Escape} THEN <<Escape, s[i]>> ELSE <<s[i]>>])

Quoted(s) == <<Quote>> \o Escaped(s) \o <<Quote>>

\* Texts with commas between them.
Joined(texts) ==
  FlattenSeq([i \in 1 .. Len(texts) |-> IF i = 1 THEN texts[i] ELSE <<",">> \o texts[i]])

TypeOf(type, name) == (CHOOSE p \in Range(type.props) : p.name = name).type

\* serialize_<type>_into for a type that is not an object or array.
Written(v) ==
  CASE v[1] = "null" -> <<"null">>
    [] v[1] = "str"  -> Quoted(v[2])
    [] v[1] = "enum" -> <<Quote, v[2], Quote>>
    [] v[1] = "num"  -> v[2]
    [] v[1] \in {"int", "bool"} -> <<v[2]>>

RECURSIVE Serialize(_, _)

\* serialize_<type>_into: generate_json_serializer_for_schema.  An array in
\* an array is written as null.
Serialize(type, v) ==
  CASE v[1] = "arr" ->
         <<"[">> \o Joined([i \in 1 .. Len(v[2]) |->
                              IF type.items.kind = "array" /\ type.kind = "array" THEN <<"null">>
                              ELSE Serialize(type.items, v[2][i])]) \o <<"]">>
    [] v[1] = "obj" ->
         <<"{">> \o Joined([i \in 1 .. Len(type.keys) |->
                              Quoted(<<type.keys[i]>>) \o <<":">>
                              \o Serialize(TypeOf(type, type.keys[i]), v[2][type.keys[i]])]) \o <<"}">>
    [] OTHER -> Written(v)

-----------------------------------------------------------------------------
\* How a client writes a document, with or without spaces.
RECURSIVE Rendered(_, _)
Rendered(v, ws) ==
  CASE v[1] = "null" -> ws \o <<"null">>
    [] v[1] = "str"  -> ws \o Quoted(v[2])
    [] v[1] = "num"  -> ws \o v[2] \o ws
    [] v[1] \in {"int", "bool"} -> ws \o <<v[2]>> \o ws
    [] v[1] = "arr" ->
         ws \o <<"[">> \o Joined([i \in 1 .. Len(v[2]) |-> Rendered(v[2][i], ws)]) \o ws \o <<"]">>
    [] OTHER ->
         ws \o <<"{">> \o Joined([i \in 1 .. Len(v[2]) |->
                 ws \o Quoted(<<v[2][i][1]>>) \o ws \o <<":">> \o Rendered(v[2][i][2], ws)])
            \o ws \o <<"}">>

\* A value of the JSON type that the schema names.
IsOfType(type, v) ==
  \/ type.kind = "string" /\ v[1] = "str"
  \/ type.kind = "integer" /\ v[1] = "int"
  \/ type.kind = "number" /\ v[1] \in {"int", "num"}
  \/ type.kind = "boolean" /\ v[1] = "bool"
  \/ type.kind = "enum" /\ v[1] = "str" /\ \E x \in type.values : v[2] = <<x>>
  \/ type.kind = "array" /\ v[1] = "arr"
  \/ type.kind = "object" /\ v[1] = "obj"

\* A value of another type that is taken for one, because parse_int64,
\* parse_double and parse_bool (serde.hpp:250-355) look into strings.
IsTakenFor(type, v) ==
  /\ v[1] = "str"
  /\ \/ type.kind \in {"integer", "number"} /\ IsWhole(v[2])
     \/ type.kind = "boolean" /\ v[2] \in {<<"true">>, <<"false">>}

\* The documents that a parser returns a DTO for: those of the type, or taken
\* for it, that name what is required.  The members of an object and the items
\* of an array may have any type; those that the parsers of their types do not
\* read are passed over.  (json_generator.cpp:959 says of the parsers that they
\* return nullopt on a wrong type: that is so of the whole document only.)
Reads(type, v) ==
  /\ IsOfType(type, v) \/ IsTakenFor(type, v)
  /\ type.kind = "object" =>
       \A j \in 1 .. Len(type.props) : type.props[j].required =>
         \E i \in 1 .. Len(v[2]) : v[2][i][1] = type.props[j].name

\* What a document that is read means to a type: by name and type, whatever
\* the order.  Of the values of a name that are read the last one counts, or
\* all of them for an array; without one the field keeps its default, required
\* or not.
RECURSIVE Meaning(_, _)
Meaning(type, v) ==
  CASE type.kind = "string"  -> <<"str", Escaped(v[2])>>
    [] type.kind = "integer" -> <<"int", IF v[1] = "int" THEN v[2] ELSE v[2][1]>>
    [] type.kind = "number"  -> <<"num", IF v[1] = "int" THEN <<v[2]>> ELSE Digits(v[2])>>
    [] type.kind = "boolean" -> <<"bool", IF v[1] = "bool" THEN v[2] ELSE v[2][1]>>
    [] type.kind = "enum"    -> Enum(v[2][1])
    [] type.kind = "array" ->
         LET read == SelectSeq(v[2], LAMBDA x : type.items.kind # "array" /\ Reads(type.items, x))
         IN  <<"arr", [i \in 1 .. Len(read) |-> Meaning(type.items, read[i])]>>
    [] OTHER ->
         <<"obj", [n \in DOMAIN type.new |->
           LET ft   == TypeOf(type, n)
               read == SelectSeq(v[2], LAMBDA x : x[1] = n /\ Reads(ft, x[2]))
               all  == [i \in 1 .. Len(read) |-> Meaning(ft, read[i][2])]
           IN  IF read = <<>> THEN type.new[n]
               ELSE IF ft.kind = "array" THEN <<"arr", FlattenSeq([i \in 1 .. Len(all) |-> all[i][2]])>>
               ELSE all[Len(all)]]>>
=============================================================================
