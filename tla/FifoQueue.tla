------------------------------ MODULE FifoQueue ------------------------------
(***************************************************************************)
(* What a bounded multi-producer multi-consumer queue promises: a value    *)
(* that is accepted is handed to exactly one consumer, values leave in the *)
(* order in which they entered, and at most Capacity of them are held.     *)
(***************************************************************************)
EXTENDS Integers, Sequences

CONSTANTS Producers, Consumers, Capacity, MaxPushes

VARIABLES
  queue,     \* the values held, oldest first
  accepted,  \* how many values each producer has pushed
  taken      \* the values each consumer has popped, in order

vars == <<queue, accepted, taken>>

Init ==
  /\ queue    = <<>>
  /\ accepted = [p \in Producers |-> 0]
  /\ taken    = [c \in Consumers |-> <<>>]

Push(p) ==
  /\ Len(queue) < Capacity
  /\ accepted[p] < MaxPushes
  /\ queue' = Append(queue, <<p, accepted[p] + 1>>)
  /\ accepted' = [accepted EXCEPT ![p] = @ + 1]
  /\ UNCHANGED taken

Pop(c) ==
  /\ queue # <<>>
  /\ taken' = [taken EXCEPT ![c] = Append(@, Head(queue))]
  /\ queue' = Tail(queue)
  /\ UNCHANGED accepted

Next == (\E p \in Producers : Push(p)) \/ (\E c \in Consumers : Pop(c))

Spec == Init /\ [][Next]_vars
=============================================================================
