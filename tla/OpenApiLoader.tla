--------------------------- MODULE OpenApiLoader ---------------------------
(***************************************************************************)
(* load_from_string (openapi_loader.cpp): the schemas of a description are *)
(* parsed in the order of the text, components before paths, into a vector *)
(* whose elements point to one another; then references are resolved,      *)
(* allOf is merged, and the operations are completed and checked.          *)
(*                                                                         *)
(* A schema in the text is the sequence of its keys:                       *)
(*   [key |-> "$ref", to |-> name]        [key |-> "maxLength", max |-> n] *)
(*   [key |-> "allOf", subs |-> schemas]                                   *)
(*   [key |-> "properties", props |-> sequence of <<name, schema>>]        *)
(*   [key |-> "required", names |-> set of names]                          *)
(* items, oneOf and anyOf hold references as properties do, and the other  *)
(* constraints are merged as maxLength is.  The allOf of the descriptions  *)
(* has no cycles: merge_all_of_schemas does not return on one.             *)
(***************************************************************************)
EXTENDS Integers, SequencesExt, FiniteSetsExt

CONSTANTS
  Descriptions,  \* [components, bodies, path]: sequences of <<name, schema>>,
                 \* of schemas in operations, and the entries of a path item
  Null

VARIABLES
  text,     \* the description that is loaded
  phase,    \* the pass
  at,       \* the next component, body or schema of the pass
  schemas,  \* doc.schemas; a pointer is an index
  index,    \* sindex: <<name, pointer>> pairs
  visited,  \* ref_resolution_context::visited
  parsed,   \* history: the schemas as they were before pass 3
  ops       \* the operations: [id, status, params: <<name, typed>>]

vars == <<text, phase, at, schemas, index, visited, parsed, ops>>

Blank(name) == [name |-> name, ref |-> Null, props |-> <<>>, all |-> <<>>, max |-> 0]
Indexed(name) == {e \in index : e[1] = name}
Pointer(name) == (CHOOSE e \in Indexed(name) : TRUE)[2]

-----------------------------------------------------------------------------
(* Pass 1: the parser.  It works on r: [heap, me], the schemas made so far *)
(* and the one under construction, 0 until a key calls ensure_schema.      *)

Ensure(r, name) ==
  IF r.me # 0 THEN r ELSE [heap |-> Append(r.heap, Blank(name)), me |-> Len(r.heap) + 1]

RECURSIVE Parse(_, _, _)

\* The pointer to a property's schema is stored when the schema is complete.
AddProperty(r, p) ==
  LET sub == Parse(p[2], Null, r.heap)
  IN  [r EXCEPT !.heap = [sub.heap EXCEPT ![r.me].props =
                            Append(@, [name |-> p[1], type |-> sub.me, required |-> FALSE])]]

\* A part of allOf is parsed before the schema it is a part of is made.
AddAllOf(r, name, s) ==
  LET sub == Parse(s, Null, r.heap)
      own == Ensure([r EXCEPT !.heap = sub.heap], name)
  IN  [own EXCEPT !.heap[own.me].all = Append(@, sub.me)]

\* One key of parse_schema_object.  A $ref to a schema that is known gives
\* that schema, and leaves the one made for the reference behind.
ParseKey(r, name, k) ==
  CASE k.key = "$ref" ->
         LET own == Ensure(r, name)
             ref == [own EXCEPT !.heap[own.me].ref = k.to]
         IN  IF Indexed(k.to) # {} THEN [ref EXCEPT !.me = Pointer(k.to)] ELSE ref
    [] k.key = "maxLength"  -> LET own == Ensure(r, name)
                               IN  [own EXCEPT !.heap[own.me].max = k.max]
    [] k.key = "properties" -> FoldLeft(AddProperty, Ensure(r, name), k.props)
    [] k.key = "allOf"      -> FoldLeft(LAMBDA q, s : AddAllOf(q, name, s), r, k.subs)
    [] k.key = "required"   -> r

\* parse_schema_object; required names are applied to the properties last.
Parse(keys, name, heap) ==
  LET read == FoldLeft(LAMBDA q, k : ParseKey(q, name, k), [heap |-> heap, me |-> 0], keys)
      r    == Ensure(read, name)
      names == UNION {keys[i].names : i \in {j \in 1 .. Len(keys) : keys[j].key = "required"}}
      isRef == \E i \in 1 .. Len(keys) : keys[i].key = "$ref"
  IN  IF isRef THEN r
      ELSE [r EXCEPT !.heap[r.me].props =
              [i \in DOMAIN @ |-> [@[i] EXCEPT !.required = @ \/ r.heap[r.me].props[i].name \in names]]]

Init ==
  /\ text \in Descriptions
  /\ phase = "components" /\ at = 1
  /\ schemas = <<>> /\ index = {} /\ visited = {} /\ parsed = <<>> /\ ops = <<>>

\* The next phase starts at its first element.
Advance(last, next) ==
  IF at < last THEN at' = at + 1 /\ UNCHANGED phase ELSE at' = 1 /\ phase' = next

\* parse_components: the schema is registered under its own name, once.
ParseComponent ==
  /\ phase = "components"
  /\ LET c == text.components[at]
         r == Parse(c[2], c[1], schemas)
         name == r.heap[r.me].name
     IN  /\ schemas' = r.heap
         /\ index' = IF Indexed(name) = {} THEN index \union {<<name, r.me>>} ELSE index
  /\ Advance(Len(text.components), "bodies")
  /\ UNCHANGED <<text, visited, parsed, ops>>

\* The schemas in the operations (parse_request_body, parse_response_object).
ParseBody ==
  /\ phase = "bodies"
  /\ schemas' = Parse(text.bodies[at], Null, schemas).heap
  /\ Advance(Len(text.bodies), "path")
  /\ UNCHANGED <<text, index, visited, parsed, ops>>

Names(params) == {p[1] : p \in params}

\* The path item: parameters in it go to the operations that follow them.
ParsePathItem ==
  /\ phase = "path"
  /\ ops' = FoldLeft(LAMBDA q, e :
                       IF e.key = "parameters"
                       THEN [q EXCEPT !.shared = @ \union {<<n, TRUE>> : n \in e.names}]
                       ELSE [q EXCEPT !.ops = Append(@, [id |-> e.id, status |-> e.status,
                                                         params |-> q.shared])],
                     [shared |-> {}, ops |-> <<>>], text.path.entries).ops
  /\ phase' = "resolve" /\ at' = 1
  /\ UNCHANGED <<text, schemas, index, visited, parsed>>

-----------------------------------------------------------------------------
(* Pass 2.  It works on q: [heap, visited]. *)

RECURSIVE Target(_, _, _)

\* resolve_schema_ref: the schema that p refers to, through references that
\* have not been visited; 0 on a cycle of references.
Target(q, p, visiting) ==
  LET done == [q EXCEPT !.visited = @ \union {p}]
  IN  IF q.heap[p].ref = Null \/ p \in q.visited THEN [to |-> p, q |-> q]
      ELSE IF p \in visiting THEN [to |-> 0, q |-> q]
      ELSE IF Indexed(q.heap[p].ref) = {} THEN [to |-> p, q |-> done]
      ELSE LET t == Target(q, Pointer(q.heap[p].ref), visiting \union {p})
           IN  [to |-> t.to, q |-> [t.q EXCEPT !.visited = @ \union {p}]]

\* What a pointer to p becomes.
Resolved(q, p) == LET t == Target(q, p, {}) IN [t EXCEPT !.to = IF @ = 0 THEN p ELSE @]

RECURSIVE Resolve(_, _)

ResolveProp(q, p, i) ==
  LET t == Resolved(q, q.heap[p].props[i].type)
  IN  Resolve([t.q EXCEPT !.heap[p].props[i].type = t.to], t.to)

ResolvePart(q, p, i) ==
  LET t == Resolved(q, q.heap[p].all[i])
  IN  Resolve([t.q EXCEPT !.heap[p].all[i] = t.to], t.to)

\* resolve_all_refs_in_schema
Resolve(q, p) ==
  IF p \in q.visited THEN q
  ELSE LET own == [q EXCEPT !.visited = @ \union {p}]
           props == FoldLeft(LAMBDA c, i : ResolveProp(c, p, i), own,
                             [i \in DOMAIN q.heap[p].props |-> i])
       IN  FoldLeft(LAMBDA c, i : ResolvePart(c, p, i), props,
                    [i \in DOMAIN q.heap[p].all |-> i])

\* Pass 2, for the next schema of the vector.
ResolveNext ==
  /\ phase = "resolve"
  /\ LET q == Resolve([heap |-> schemas, visited |-> visited], at)
     IN  schemas' = q.heap /\ visited' = q.visited /\ parsed' = q.heap
  /\ Advance(Len(schemas), "merge")
  /\ UNCHANGED <<text, index, ops>>

-----------------------------------------------------------------------------
(* Pass 3. *)

\* Mutant: the limit of the last part wins.
TighterLast(a, b) == IF b # 0 THEN b ELSE a

\* The tighter of two upper limits, 0 for none.
Tighter(a, b) == IF b # 0 /\ (a = 0 \/ b < a) THEN b ELSE a

\* A property of a part replaces the type, and cannot take back a requirement.
MergeProp(props, p) ==
  IF \E i \in DOMAIN props : props[i].name = p.name
  THEN [i \in DOMAIN props |->
          IF props[i].name = p.name
          THEN [p EXCEPT !.required = @ \/ props[i].required] ELSE props[i]]
  ELSE Append(props, p)

RECURSIVE Merge(_, _)

\* merge_all_of_schemas: the parts first, then their contents into p.
Merge(heap, p) ==
  IF heap[p].all = <<>> THEN heap
  ELSE LET parts == heap[p].all
           below == FoldLeft(Merge, heap, parts)
           whole == FoldLeft(LAMBDA s, c :
                               [s EXCEPT !.max = Tighter(@, below[c].max),
                                         !.props = FoldLeft(MergeProp, @, below[c].props)],
                             below[p], parts)
       IN  [below EXCEPT ![p] = [whole EXCEPT !.all = <<>>]]

\* Pass 3, for the next schema of the vector.
MergeNext ==
  /\ phase = "merge"
  /\ schemas' = Merge(schemas, at)
  /\ Advance(Len(schemas), "check")
  /\ UNCHANGED <<text, index, visited, parsed, ops>>

\* Pass 4 adds a string parameter for each name of the path that is missing;
\* pass 5 refuses repeated operation ids and statuses that do not exist.
Check ==
  /\ phase = "check"
  /\ ops' = [i \in DOMAIN ops |->
               [ops[i] EXCEPT !.params = @ \union
                  {<<n, FALSE>> : n \in text.path.names \ Names(ops[i].params)}]]
  /\ phase' = IF /\ \A i, j \in DOMAIN ops : i # j /\ ops[i].id # Null => ops[i].id # ops[j].id
                 /\ \A i \in DOMAIN ops : ops[i].status \in 100 .. 599
              THEN "loaded" ELSE "refused"
  /\ UNCHANGED <<text, at, schemas, index, visited, parsed>>

Next == ParseComponent \/ ParseBody \/ ParsePathItem \/ ResolveNext \/ MergeNext \/ Check

Spec == Init /\ [][Next]_vars

-----------------------------------------------------------------------------
Loaded == phase = "loaded"

\* The text again: the components by name, and the references in a schema.
Component(name) == (CHOOSE c \in Range(text.components) : c[1] = name)[2]
Position(name)  == CHOOSE i \in DOMAIN text.components : text.components[i][1] = name
Known(name)     == \E c \in Range(text.components) : c[1] = name
IsAlias(keys)   == \E k \in Range(keys) : k.key = "$ref"
Alias(name)     == IsAlias(Component(name))
WithKey(keys, key) == SelectSeq(keys, LAMBDA k : k.key = key)

\* The properties of a schema, and those that are required of them.
PropsOf(keys)     == UNION {Range(k.props) : k \in Range(WithKey(keys, "properties"))}
RequiredOf(keys)  == {p[1] : p \in PropsOf(keys)} \intersect
                       UNION {k.names : k \in Range(WithKey(keys, "required"))}
MaximaOf(keys)    == {k.max : k \in Range(WithKey(keys, "maxLength"))}

\* A component before name in the text has a property that refers to name.
ReferredBefore(name) ==
  \E i \in 1 .. Position(name) - 1 :
    \E p \in PropsOf(text.components[i][2]) : p[2] = <<[key |-> "$ref", to |-> name]>>

\* The part of name's allOf that refers to m is left out: m comes later, and
\* the part comes before name itself in the vector (allOf is the first key
\* that is stored), so that pass 2 has marked it when it gets to name, unless
\* it got there before, from a property.
LeftOut(name, m) ==
  /\ Position(m) > Position(name)
  /\ SelectSeq(Component(name), LAMBDA k : k.key # "required")[1].key = "allOf"
  /\ ~ReferredBefore(name)

RECURSIVE Parts(_, _)
\* The schemas that the text says component name consists of: the schema with
\* these keys and all parts, but those that are left out.
Parts(name, keys) ==
  {keys} \union
    UNION {IF IsAlias(s)
           THEN IF LeftOut(name, s[1].to) THEN {} ELSE Parts(s[1].to, Component(s[1].to))
           ELSE Parts(name, s) :
             s \in UNION {Range(k.subs) : k \in Range(WithKey(keys, "allOf"))}}

\* A component is loaded as the text describes it.  Its properties whose $ref
\* names a component have that component as their type, before or after it in
\* the text and through cycles; it has the properties of all parts of its
\* allOf, the tightest of their limits, and requires a property that the part
\* with the property requires (a part's required names do not reach properties
\* of other parts).  References to a component that is itself a $ref are left
\* aside, and the parts of LeftOut are not merged: docs/OPENAPI.md:34-35 has
\* neither exception.
LoadedAsDescribed ==
  Loaded => \A c \in Range(text.components) : ~IsAlias(c[2]) =>
    LET p     == Pointer(c[1])
        whole == Parts(c[1], c[2])
        max   == UNION {MaximaOf(k) : k \in whole}
    IN  /\ \A d \in PropsOf(c[2]) :
             IsAlias(d[2]) /\ Known(d[2][1].to) /\ ~Alias(d[2][1].to) =>
               \E q \in Range(parsed[p].props) : q.name = d[1] /\ q.type = Pointer(d[2][1].to)
        /\ schemas[p].max = IF max = {} THEN 0 ELSE Min(max)
        /\ {q.name : q \in Range(schemas[p].props)} =
             UNION {{d[1] : d \in PropsOf(k)} : k \in whole}
        /\ {q.name : q \in {r \in Range(schemas[p].props) : r.required}} =
             UNION {RequiredOf(k) : k \in whole}

\* In the schemas of the operations, which come after the components, every
\* reference to a component is resolved (unless that is itself a $ref), in
\* properties and in allOf.
ReferencesResolved ==
  Loaded => \A p \in DOMAIN parsed :
    LET open(t) == /\ parsed[t].ref # Null /\ parsed[t].name = Null
                   /\ Known(parsed[t].ref) /\ ~Alias(parsed[t].ref)
    IN  /\ \A i \in DOMAIN parsed[p].props : ~open(parsed[p].props[i].type)
        /\ \A i \in DOMAIN parsed[p].all :
             open(parsed[p].all[i]) => LeftOut(parsed[p].name, parsed[parsed[p].all[i]].ref)

RECURSIVE Closure(_)
Closure(S) ==
  LET parts == UNION {Range(parsed[p].all) : p \in S}
  IN  IF parts \subseteq S THEN S ELSE Closure(S \union parts)

Limits(p) == {parsed[q].max : q \in Closure({p})} \ {0}
Requires(p, n) == \E q \in Closure({p}) : \E i \in DOMAIN parsed[q].props :
                    parsed[q].props[i].name = n /\ parsed[q].props[i].required

\* Whatever pass 2 left as its parts, each schema has after the merge the
\* tightest limit of them, all their properties, each once, and requires what
\* any of them requires.
MergedFully ==
  Loaded => \A p \in DOMAIN schemas :
    /\ schemas[p].all = <<>>
    /\ schemas[p].max = IF Limits(p) = {} THEN 0 ELSE Min(Limits(p))
    /\ {schemas[p].props[i].name : i \in DOMAIN schemas[p].props} =
         UNION {{parsed[q].props[i].name : i \in DOMAIN parsed[q].props} : q \in Closure({p})}
    /\ \A i, j \in DOMAIN schemas[p].props :
         i # j => schemas[p].props[i].name # schemas[p].props[j].name
    /\ \A i \in DOMAIN schemas[p].props :
         schemas[p].props[i].required <=> Requires(p, schemas[p].props[i].name)

\* Every operation that is generated has each parameter of its path once, and
\* an id of its own.
OperationsComplete ==
  Loaded => \A i \in DOMAIN ops :
    /\ \A n \in text.path.names : Cardinality({p \in ops[i].params : p[1] = n}) = 1
    /\ \A j \in DOMAIN ops : ops[i].id # Null /\ ops[i].id = ops[j].id => i = j

\* What the code generator relies on in a description that has been loaded.
LoadedWhole ==
  LoadedAsDescribed /\ ReferencesResolved /\ MergedFully /\ OperationsComplete
=============================================================================
