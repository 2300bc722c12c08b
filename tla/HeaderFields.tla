---------------------------- MODULE HeaderFields ----------------------------
(***************************************************************************)
(* What a map of header fields promises: for each name the value set last, *)
(* unless it was removed since.  A set for which there is no memory leaves *)
(* things as they were.                                                    *)
(***************************************************************************)
CONSTANTS Maps, Names, Values, NoValue

VARIABLES fields   \* the value of each name in each map

vars == <<fields>>

Init == fields = [m \in Maps |-> [n \in Names |-> NoValue]]

Put(m, n, v) == fields' = [fields EXCEPT ![m][n] = v]

\* The content of b is a's; b is empty.
Take(a, b) ==
  fields' = [fields EXCEPT ![a] = fields[b], ![b] = [n \in Names |-> NoValue]]

Empty(m) == fields' = [fields EXCEPT ![m] = [n \in Names |-> NoValue]]

Next == \/ \E m \in Maps : Empty(m) \/ \E n \in Names, v \in Values \union {NoValue} : Put(m, n, v)
        \/ \E a, b \in Maps : a # b /\ Take(a, b)

Spec == Init /\ [][Next]_vars
=============================================================================
