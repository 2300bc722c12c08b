----------------------------- MODULE SchemaNames -----------------------------
(***************************************************************************)
(* The names that the generator gives to schemas without one               *)
(* (ensure_inline_schema_names, generator_utils.cpp).  They become the     *)
(* names of C++ types, so no two may be the same.                          *)
(*                                                                         *)
(* A name is a sequence of parts, <<"user", "1">> being "user_1", so that *)
(* a name made with a number can be one the document already has.  The paths *)
(* of a document are kept as the schemas that their bodies, parameters and *)
(* responses refer to, each with the name that the place suggests.         *)
(***************************************************************************)
EXTENDS Integers, SequencesExt, FiniteSetsExt, TLC

CONSTANTS
  Documents,  \* documents: [schemas, uses, flat]
  MaxIndex    \* bound: numbers tried after a name

VARIABLES
  doc,      \* the document, and whether the naming style is flat
  names,    \* name of each schema, NoName
  context,  \* parent_context and field_context, NoName
  used,     \* the names that are taken
  inlines,  \* inline_counter
  pass, at  \* which loop is at which element

vars == <<doc, names, context, used, inlines, pass, at>>

NoName == <<>>
Ids == 1 .. Len(doc.schemas)

Name == Seq(STRING)
Schema == [name : Name, parent : Name, field : Name, enum : BOOLEAN, props : SUBSET Nat]
Use(n) == [schema : 1 .. n, base : Name \ {NoName}]

\* The components of a document have names of their own, each place suggests
\* a name, and the numbers do not run out: there is one for each name that a
\* schema is given, the first and the improved one.
SchemaNamesAssumption ==
  /\ MaxIndex \in Nat
  /\ \A i, j \in 1 .. MaxIndex : ToString(i) = ToString(j) => i = j
  /\ \A d \in Documents :
       /\ d.schemas \in Seq(Schema) /\ d.uses \in Seq(Use(Len(d.schemas)))
       /\ d.schemas # <<>> /\ 2 * Len(d.schemas) <= MaxIndex
       /\ \A i, j \in 1 .. Len(d.schemas) :
            d.schemas[i].name = d.schemas[j].name => i = j \/ d.schemas[i].name = NoName

\* unique_name
Unique(base) ==
  IF base \notin used THEN base
  ELSE base \o <<ToString(Min({i \in 1 .. MaxIndex : base \o <<ToString(i)>> \notin used}))>>

Init ==
  /\ doc \in Documents
  /\ names = [i \in 1 .. Len(doc.schemas) |-> doc.schemas[i].name]
  /\ context = [i \in 1 .. Len(doc.schemas) |->
                  [parent |-> doc.schemas[i].parent, field |-> doc.schemas[i].field]]
  /\ used = {doc.schemas[i].name : i \in 1 .. Len(doc.schemas)} \ {NoName}
  /\ inlines = 0 /\ pass = "uses" /\ at = 1

\* The first letter of a field's name in upper case.
Capital(field) == <<"upper">> \o field

HasContext(i) == context[i].parent # NoName /\ context[i].field # NoName

\* assign_if_empty: by the context if there is one, else by the place.
AssignIfEmpty(i, base) ==
  IF names[i] # NoName THEN UNCHANGED <<names, used, inlines>>
  ELSE LET flat == doc.flat /\ ~HasContext(i)
           name == Unique(IF HasContext(i) THEN context[i].parent \o Capital(context[i].field) \o <<"t">>
                          ELSE IF flat THEN <<"InlineSchema", ToString(inlines + 1)>> ELSE base)
       IN  /\ names' = [names EXCEPT ![i] = name]
           /\ used' = used \union {name}
           /\ inlines' = inlines + (IF flat THEN 1 ELSE 0)

Goto(p, last) == IF at < last THEN pass' = pass /\ at' = at + 1 ELSE pass' = p /\ at' = 1

\* The first loop: bodies, parameters and responses of the operations.
NameUse ==
  /\ pass = "uses" /\ at <= Len(doc.uses)
  /\ AssignIfEmpty(doc.uses[at].schema, doc.uses[at].base)
  /\ at' = at + 1
  /\ UNCHANGED <<doc, context, pass>>

UsesNamed ==
  /\ pass = "uses" /\ at > Len(doc.uses)
  /\ pass' = "rest" /\ at' = 1
  /\ UNCHANGED <<doc, names, context, used, inlines>>

\* The fallback for all others.
NameRest ==
  /\ pass = "rest"
  /\ AssignIfEmpty(at, <<"schema">>)
  /\ Goto("context", Len(doc.schemas))
  /\ UNCHANGED <<doc, context>>

\* The second pass: properties learn the name of the schema they are in.
SetContext ==
  /\ pass = "context"
  /\ context' = [i \in Ids |->
       IF i \in doc.schemas[at].props /\ context[i].parent = NoName
       THEN [context[i] EXCEPT !.parent = names[at]] ELSE context[i]]
  /\ Goto("improve", Len(doc.schemas))
  /\ UNCHANGED <<doc, names, used, inlines>>

Generic(name) == name[1] \in {"schema", "InlineSchema"}

\* For an enumeration the parent's name without "_request" or "_response".
Stem(name) ==
  IF Len(name) > 0 /\ name[Len(name)] \in {"request", "response"} THEN Front(name) ELSE name

\* The third pass: a generic name gives way to one made from the context.
Improve ==
  /\ pass = "improve"
  /\ IF Generic(names[at]) /\ HasContext(at)
     THEN LET base == IF doc.schemas[at].enum
                      THEN Stem(context[at].parent) \o context[at].field
                      ELSE context[at].parent \o Capital(context[at].field)
              name == Unique(base)
          IN  names' = [names EXCEPT ![at] = name] /\ used' = used \union {name}
     ELSE UNCHANGED <<names, used>>
  /\ Goto("done", Len(doc.schemas))
  /\ UNCHANGED <<doc, context, inlines>>

Next == NameUse \/ UsesNamed \/ NameRest \/ SetContext \/ Improve

Spec == Init /\ [][Next]_vars

-----------------------------------------------------------------------------
\* No two schemas have the same name at any time, and a name that the
\* document gives stays.
NamesUnique ==
  \A i \in Ids :
    /\ names[i] # NoName => \A j \in Ids \ {i} : names[j] # names[i]
    /\ doc.schemas[i].name # NoName /\ ~Generic(doc.schemas[i].name) => names[i] = doc.schemas[i].name

\* After all passes every schema has a name.
AllNamed == pass = "done" => \A i \in Ids : names[i] # NoName

NamesRight == NamesUnique /\ AllNamed
=============================================================================
