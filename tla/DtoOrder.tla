------------------------------ MODULE DtoOrder ------------------------------
(***************************************************************************)
(* The order in which the generator writes DTOs (dto_generator.cpp), so    *)
(* that a C++ type is defined before it is used: topological_sort_schemas, *)
(* over the dependencies that collect_schema_deps finds.  A schema is      *)
(* [kind, props, items]: the schemas of its properties, and of the items   *)
(* of an array.                                                            *)
(***************************************************************************)
EXTENDS Integers, SequencesExt, FiniteSets

CONSTANTS
  Count,        \* the schemas of a document are 1 .. Count
  Documents     \* documents: [1 .. Count -> schema]

VARIABLES
  schemas,    \* doc.schemas
  in_degree,  \* dependencies not yet written
  queue, front, result

vars == <<schemas, in_degree, queue, front, result>>

Ids == 1 .. Count
Nothing == 0   \* a null pointer to a schema

IsArray(s) == s.kind = "array" /\ s.items # Nothing

\* No array is an item of itself, however deep, or its C++ type would have no
\* end: there is a rank that falls from an array to its items.
DtoAssumption ==
  /\ Count \in Nat
  /\ Documents \subseteq [Ids -> [kind : STRING, props : SUBSET Ids, items : Ids \union {Nothing}]]
  /\ \A d \in Documents : \E rank \in [Ids -> Ids] :
       \A i \in Ids : IsArray(d[i]) => rank[d[i].items] < rank[i]

\* unwrap_array
UnwrapArray[i \in Ids] == IF IsArray(schemas[i]) THEN UnwrapArray[schemas[i].items] ELSE i

IsStruct(i) == schemas[i].kind = "object" /\ schemas[i].props # {}

\* Mutant: a struct depends on its properties as they stand.
DepsUnwrapped(i) == {j \in schemas[i].props \ {i} : IsStruct(j)}

\* collect_schema_deps, and deps[i]: the structs that the definition of i
\* names, itself excepted.
Deps(i) ==
  {j \in IF schemas[i].props # {} THEN {UnwrapArray[k] : k \in schemas[i].props}
         ELSE {UnwrapArray[i]}
              \union IF schemas[i].kind = "object" /\ schemas[i].items # Nothing
                     THEN {UnwrapArray[schemas[i].items]} ELSE {} :
     j # i /\ IsStruct(j)}

\* The elements of S from the least to the greatest.
InOrder(S) ==
  CHOOSE s \in [1 .. Cardinality(S) -> S] : \A p, q \in 1 .. Cardinality(S) : p < q => s[p] < s[q]

Init ==
  /\ schemas \in Documents
  /\ in_degree = [i \in Ids |-> Cardinality(Deps(i))]
  /\ queue = InOrder({i \in Ids : Deps(i) = {}})
  /\ front = 1
  /\ result = <<>>

\* One turn of the loop: a schema is written, and those that waited for it
\* alone are queued in their order.
Write ==
  /\ front <= Len(queue)
  /\ LET idx   == queue[front]
         waits == {i \in Ids : idx \in Deps(i)}
     IN  /\ result' = Append(result, idx)
         /\ in_degree' = [i \in Ids |-> IF i \in waits THEN in_degree[i] - 1 ELSE in_degree[i]]
         /\ queue' = queue \o InOrder({i \in waits : in_degree[i] = 1})
  /\ front' = front + 1
  /\ UNCHANGED schemas

\* What is left depends on itself in the end, and is written as it stands.
WriteCycles ==
  /\ front > Len(queue) /\ Len(result) < Count
  /\ result' = result \o InOrder(Ids \ ToSet(result))
  /\ UNCHANGED <<schemas, in_degree, queue, front>>

Next == Write \/ WriteCycles

Spec == Init /\ [][Next]_vars

-----------------------------------------------------------------------------
Written(i) == i \in ToSet(result)
Before(i, j) == \E p, q \in 1 .. Len(result) : p < q /\ result[p] = i /\ result[q] = j

\* The structs that cpp_type_from_schema names in the C++ type of a schema,
\* however deep in arrays, and those in the text of its definition.
Named[i \in Ids] ==
  IF IsArray(schemas[i]) THEN Named[schemas[i].items] ELSE IF IsStruct(i) THEN {i} ELSE {}
Uses(i) == IF schemas[i].props # {} THEN UNION {Named[k] : k \in schemas[i].props} ELSE Named[i]

\* The schemas that those in S use, directly or not, with those in S: what
\* every set has that has S and what its elements use.
Reached(S) ==
  {k \in Ids : \A T \in SUBSET Ids :
     S \subseteq T /\ (\A i \in T : Uses(i) \ {i} \subseteq T) => k \in T}
Cyclic(i) == i \in Reached(Uses(i) \ {i})

\* No schema is left out or written twice, also with cycles.
WrittenOnce ==
  /\ IsInjective(result)
  /\ front > Len(queue) /\ Len(result) = Count => ToSet(result) = Ids

\* A definition comes after every definition that it uses, unless one of
\* them depends on itself; a cycle somewhere else does not disturb it.
UsesAfterDefinition ==
  \A i \in Ids : \A j \in Uses(i) \ {i} :
    /\ Written(i) /\ \A k \in Reached({i}) : ~Cyclic(k)
    => Before(j, i)

DtosInOrder == WrittenOnce /\ UsesAfterDefinition
=============================================================================
