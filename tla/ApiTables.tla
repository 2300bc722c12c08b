----------------------------- MODULE ApiTables -----------------------------
(***************************************************************************)
(* The operations of a generated service as data: what the generator wrote *)
(* into its dispatch functions, validators and routers.  GeneratedApi says *)
(* how they are read.                                                      *)
(***************************************************************************)
EXTENDS JsonTypes

\* The types that have array readers and writers with a struct: itself and its
\* aliases, but the nullable ones, whose array of nulls is not read back.
Arrays(struct, aliases) ==
  {ListOf(type) : type \in {t \in {struct} \union {aliases[a] : a \in DOMAIN aliases} : ~t.nullable}}

Body(type, checks, limits) == {[type |-> type, checks |-> checks, limits |-> limits]}
Op(produces, params, body) == [produces |-> produces, params |-> params, body |-> body]
Param(in, name, int, required) == [in |-> in, name |-> name, int |-> int, required |-> required]
Route_(method, pattern, op) == [method |-> method, pattern |-> pattern, op |-> op]
Fast(path, method, op) == [path |-> path, method |-> method, op |-> op]
=============================================================================
