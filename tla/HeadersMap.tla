----------------------------- MODULE HeadersMap -----------------------------
(***************************************************************************)
(* headers_map (http_headers.hpp): a table for the names the library knows *)
(* with a list of the entries touched, so that clear() need not go through *)
(* the table, and a list for all other names.  A name stands for all its   *)
(* spellings, and a value is shorter than 2^16 bytes (set_known keeps the  *)
(* length in 16 bits).                                                     *)
(***************************************************************************)
EXTENDS Integers, SequencesExt, FiniteSetsExt

CONSTANTS
  Maps,      \* objects
  Known,     \* fields of the enumeration, as indices from 1
  Unknown,   \* names that string_to_field does not know
  Values,
  NoValue    \* a null pointer

VARIABLES
  table,    \* known_entries_, NoTable once it has been moved away
  count,    \* known_size_
  touched,  \* known_touched_indices_[0 .. known_touched_count_ - 1]
  flags,    \* the fields whose known_touched_flags_ is set
  others    \* unknown_entries_: <<name, value>>

vars == <<table, count, touched, flags, others>>

HeadersAssumption ==
  /\ IsFiniteSet(Known) /\ Known # {} /\ Known \intersect Unknown = {}
  /\ NoValue \notin Values

NoTable == <<>>
EmptyTable == [f \in Known |-> NoValue]

Init ==
  /\ table = [m \in Maps |-> EmptyTable]
  /\ count = [m \in Maps |-> 0]
  /\ touched = [m \in Maps |-> <<>>]
  /\ flags = [m \in Maps |-> {}]
  /\ others = [m \in Maps |-> <<>>]

Usable(m) == table[m] # NoTable

\* Mutant: a field is touched whenever its entry was empty.
TouchAgain(m, f) ==
  /\ touched' = [touched EXCEPT ![m] = Append(@, f)]
  /\ flags' = [flags EXCEPT ![m] = @ \union {f}]

Touch(m, f) ==
  IF f \in flags[m] THEN UNCHANGED <<touched, flags>>
  ELSE /\ touched' = [touched EXCEPT ![m] = Append(@, f)]
       /\ flags' = [flags EXCEPT ![m] = @ \union {f}]

\* set_known; the arena may have no memory for the value, and then nothing
\* is done.
SetKnown(m, f, v) ==
  /\ Usable(m)
  /\ IF table[m][f] = NoValue
     THEN Touch(m, f) /\ count' = [count EXCEPT ![m] = @ + 1]
     ELSE UNCHANGED <<touched, flags, count>>
  /\ table' = [table EXCEPT ![m][f] = v]
  /\ UNCHANGED others

\* set_unknown: over the first entry of that name, or at the end.
SetUnknown(m, n, v) ==
  /\ Usable(m)
  /\ LET at == {i \in 1 .. Len(others[m]) : others[m][i][1] = n}
     IN  others' = [others EXCEPT ![m] =
                      IF at = {} THEN Append(@, <<n, v>>)
                      ELSE [@ EXCEPT ![Min(at)] = <<n, v>>]]
  /\ UNCHANGED <<table, count, touched, flags>>

\* remove(field): the field stays among those touched.
RemoveKnown(m, f) ==
  /\ Usable(m) /\ table[m][f] # NoValue
  /\ table' = [table EXCEPT ![m][f] = NoValue]
  /\ count' = [count EXCEPT ![m] = IF @ > 0 THEN @ - 1 ELSE @]
  /\ UNCHANGED <<touched, flags, others>>

\* remove(name)
RemoveUnknown(m, n) ==
  /\ Usable(m)
  /\ \E i \in 1 .. Len(others[m]) :
       /\ others[m][i][1] = n
       /\ \A j \in 1 .. i - 1 : others[m][j][1] # n
       /\ others' = [others EXCEPT ![m] = RemoveAt(@, i)]
  /\ UNCHANGED <<table, count, touched, flags>>

\* clear and reset: the entries touched are emptied, no others.
Clear(m) ==
  /\ Usable(m)
  /\ table' = [table EXCEPT ![m] = [f \in Known |->
                 IF f \in ToSet(touched[m]) THEN NoValue ELSE @[f]]]
  /\ flags' = [flags EXCEPT ![m] = @ \ ToSet(touched[m])]
  /\ touched' = [touched EXCEPT ![m] = <<>>]
  /\ count' = [count EXCEPT ![m] = 0]
  /\ others' = [others EXCEPT ![m] = <<>>]

\* operator=(headers_map&&): a has what b had; b has no table, and its flags
\* stay as they were.
MoveAssign(a, b) ==
  /\ Usable(b)
  /\ table' = [table EXCEPT ![a] = table[b], ![b] = NoTable]
  /\ count' = [count EXCEPT ![a] = count[b], ![b] = 0]
  /\ touched' = [touched EXCEPT ![a] = touched[b], ![b] = <<>>]
  /\ flags' = [flags EXCEPT ![a] = flags[b]]
  /\ others' = [others EXCEPT ![a] = others[b], ![b] = <<>>]

\* A new map is assigned, as parser does (http.hpp:115): the only thing done
\* with a map that was moved from.
AssignNew(m) ==
  /\ table' = [table EXCEPT ![m] = EmptyTable]
  /\ count' = [count EXCEPT ![m] = 0]
  /\ touched' = [touched EXCEPT ![m] = <<>>]
  /\ flags' = [flags EXCEPT ![m] = {}]
  /\ others' = [others EXCEPT ![m] = <<>>]

Next ==
  \/ \E m \in Maps :
       \/ \E f \in Known : RemoveKnown(m, f) \/ \E v \in Values : SetKnown(m, f, v)
       \/ \E n \in Unknown : RemoveUnknown(m, n) \/ \E v \in Values : SetUnknown(m, n, v)
       \/ Clear(m) \/ AssignNew(m)
  \/ \E a, b \in Maps : a # b /\ MoveAssign(a, b)

Spec == Init /\ [][Next]_vars

-----------------------------------------------------------------------------
\* get: of a field from the table, of another name from the list.
Get(m, n) ==
  IF ~Usable(m) THEN NoValue
  ELSE IF n \in Known THEN table[m][n]
  ELSE LET at == {i \in 1 .. Len(others[m]) : others[m][i][1] = n}
       IN  IF at = {} THEN NoValue ELSE others[m][Min(at)][2]

\* The array of touched fields has one place for each field: a field is in
\* it at most once, and every entry that holds a value is, so that clear()
\* finds it, also after a removal, a move or both.
TouchedOnce ==
  \A m \in Maps : Usable(m) =>
    /\ IsInjective(touched[m]) /\ ToSet(touched[m]) = flags[m]
    /\ \A f \in Known : table[m][f] # NoValue => f \in flags[m]

Held(m) == {n \in Known \union Unknown : Get(m, n) # NoValue}

\* size() is the number of names that hold a value, and what begin() to end()
\* goes through is one entry for each of them.
SizeIsHeld ==
  \A m \in Maps :
    /\ Usable(m) => count[m] = Cardinality({f \in Known : table[m][f] # NoValue})
    /\ count[m] + Len(others[m]) = Cardinality(Held(m))

HeadersSafe == TouchedOnce /\ SizeIsHeld

\* Whatever is set, removed, cleared and moved, get() returns the value set
\* last.
Fields == INSTANCE HeaderFields WITH
            Names <- Known \union Unknown,
            fields <- [m \in Maps |-> [n \in Known \union Unknown |-> Get(m, n)]]
ImplementsFields == Fields!Spec
=============================================================================
