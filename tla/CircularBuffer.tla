--------------------------- MODULE CircularBuffer ---------------------------
(***************************************************************************)
(* circular_buffer (circular_buffer.hpp): a ring whose capacity is a power *)
(* of two, with positions that run freely and are masked for the access.   *)
(* Reads and writes come in two parts where they cross the end.            *)
(***************************************************************************)
EXTENDS Integers, Sequences, FiniteSetsExt

CONSTANTS
  Capacities,  \* capacities asked for, at construction and in reserve
  Lengths,     \* sizes of reads and writes tried
  MaxBytes     \* bound: bytes written in all

VARIABLES
  buffer, head, tail,  \* buffer_, head_, tail_
  written              \* history: bytes written; the n-th byte is n

vars == <<buffer, head, tail, written>>

RingAssumption ==
  Capacities \subseteq Nat /\ Lengths \subseteq Nat /\ MaxBytes \in Nat

Garbage == 0
capacity == Cardinality(DOMAIN buffer)
size == tail - head

\* next_power_of_two
NextPowerOfTwo(n) ==
  IF n = 0 THEN 1 ELSE Min({c \in {2 ^ k : k \in 0 .. n} : c >= n})

\* pos & mask_, where mask_ is the capacity less one: the capacity is a power
\* of two.
Masked(pos) == pos % capacity

Byte(i) == buffer[Masked(i)]
Held == [i \in 1 .. size |-> Byte(head + i - 1)]

Init ==
  /\ \E n \in Capacities :
       buffer = [i \in 0 .. NextPowerOfTwo(n) - 1 |-> Garbage]
  /\ head = 0 /\ tail = 0 /\ written = 0

\* How many bytes of n a write takes.
ToWrite(n) == Min({n, capacity - size})

\* write: what does not fit is left to the caller.
Write(n) ==
  /\ ToWrite(n) > 0 /\ written + ToWrite(n) <= MaxBytes
  /\ buffer' = [i \in DOMAIN buffer |->
       LET at == {j \in 0 .. ToWrite(n) - 1 : Masked(tail + j) = i}
       IN  IF at = {} THEN buffer[i] ELSE written + 1 + Max(at)]
  /\ tail' = tail + ToWrite(n)
  /\ written' = written + ToWrite(n)
  /\ UNCHANGED head

\* read, and consume of what peek has shown: both move head_.
Read(n) ==
  /\ size > 0
  /\ head' = head + Min({n, size})
  /\ UNCHANGED <<buffer, tail, written>>

\* peek: the bytes up to the end of the storage.
Peeked == [i \in 1 .. Min({size, capacity - Masked(head)}) |->
             buffer[Masked(head) + i - 1]]

Clear ==
  /\ head' = 0 /\ tail' = 0
  /\ UNCHANGED <<buffer, written>>

\* reserve: the bytes held go to the front of a larger storage.
Reserve(n) ==
  /\ n > capacity
  /\ buffer' = [i \in 0 .. NextPowerOfTwo(n) - 1 |->
                  IF i < size THEN Byte(head + i) ELSE Garbage]
  /\ head' = 0 /\ tail' = size
  /\ UNCHANGED written

Next == \/ \E n \in Lengths : Write(n) \/ Read(n)
        \/ \E n \in Capacities : Reserve(n)
        \/ Clear

Spec == Init /\ [][Next]_vars

-----------------------------------------------------------------------------
\* What peek shows is the beginning of what read returns.
PeekIsPrefix == Peeked = SubSeq(Held, 1, Len(Peeked)) /\ (size > 0 => Peeked # <<>>)

\* The ring holds the bytes written and not read, in order, wherever they
\* wrap, and never more than its capacity.
Stream == INSTANCE ByteStream WITH bytes <- Held
ImplementsStream == Stream!Spec
=============================================================================
