----------------------------- MODULE JsonTypes -----------------------------
(***************************************************************************)
(* The types of the generated code as data, and the values of its fields.  *)
(* A value is tagged with its type; numbers are words, strings and         *)
(* fractional numbers are sequences of words.                              *)
(***************************************************************************)
EXTENDS Integers, Sequences

Scalar(kind) == [kind |-> kind, nullable |-> FALSE]
Text   == Scalar("string")
Whole  == Scalar("integer")
Number == Scalar("number")
Flag   == Scalar("boolean")
OneOf(values) == [kind |-> "enum", nullable |-> FALSE, values |-> values]
Nullable(type) == [type EXCEPT !.nullable = TRUE]

\* A field that is an array, and the argument of parse_<type>_array.
ArrayOf(items) == [kind |-> "array", nullable |-> FALSE, items |-> items]
ListOf(items)  == [kind |-> "list", nullable |-> FALSE, items |-> items]

\* A key that a reader knows, whether it insists on it, and its type.
Prop(name, required, type) == [name |-> name, required |-> required, type |-> type]

\* What a new DTO holds, the keys its reader knows and the keys its writer
\* writes, in order.
ObjectOf(new, props, keys) ==
  [kind |-> "object", nullable |-> FALSE, new |-> new, props |-> props, keys |-> keys]

Null   == <<"null">>
Unset  == <<"unset">>   \* a field without an initializer
NoText == <<"str", <<>>>>
Zero   == <<"int", "0">>
ZeroNumber == <<"num", <<"0">>>>
No     == <<"bool", "false">>
Empty  == <<"arr", <<>>>>
Enum(value) == <<"enum", value>>

\* What a field holds when nothing was stored in it: only a field that is not
\* required, and is not made with the arena, has an initializer.
DefaultOf(prop) ==
  CASE prop.type.nullable        -> Null
    [] prop.type.kind = "string" -> NoText
    [] prop.type.kind = "array"  -> Empty
    [] prop.type.kind = "object" -> <<"obj", prop.type.new>>
    [] prop.required /\ prop.type.kind \in {"integer", "number", "boolean", "enum"} -> Unset
    [] ~prop.required /\ prop.type.kind = "integer" -> Zero
    [] ~prop.required /\ prop.type.kind = "number"  -> ZeroNumber
    [] ~prop.required /\ prop.type.kind = "boolean" -> No

\* A new DTO.
Fresh(props) ==
  [n \in {props[i].name : i \in DOMAIN props} |->
     DefaultOf(props[CHOOSE i \in DOMAIN props : props[i].name = n])]
=============================================================================
