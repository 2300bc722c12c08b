------------------------------ MODULE IoBuffer ------------------------------
(***************************************************************************)
(* io_buffer (io_buffer.cpp): a growing buffer with a read and a write     *)
(* position.  Making room first moves the unread bytes to the front if     *)
(* enough has been consumed, and else copies them into a larger buffer.    *)
(* A span from writable_span is committed before anything else is called,  *)
(* as all its callers do (http_server.cpp:103-137).                        *)
(***************************************************************************)
EXTENDS Integers, Sequences, FiniteSetsExt

CONSTANTS
  InitialCapacity,
  CompactThreshold,  \* COMPACT_THRESHOLD
  Lengths,           \* sizes of appends, spans, reads and reservations tried
  MaxBytes           \* bound: bytes written in all

VARIABLES
  buf,      \* data: the storage; read, write: read_pos_, write_pos_
  written   \* history: bytes written; the n-th byte is n

vars == <<buf, written>>

IoAssumption ==
  /\ InitialCapacity \in Nat /\ CompactThreshold \in Nat
  /\ Lengths \subseteq Nat /\ MaxBytes \in Nat

Garbage == 0   \* what allocate_raw leaves in the storage
capacity(b) == Cardinality(DOMAIN b.data)
size(b) == b.write - b.read
Unread(b) == [i \in 1 .. size(b) |-> b.data[b.read + i - 1]]

Init ==
  /\ buf = [data |-> [i \in 0 .. InitialCapacity - 1 |-> Garbage], read |-> 0, write |-> 0]
  /\ written = 0

\* Mutant: the unread bytes keep their place while the positions move.
CompactNoMove(b) ==
  IF b.read >= CompactThreshold /\ b.read > size(b)
  THEN [b EXCEPT !.read = 0, !.write = size(b)]
  ELSE b

\* compact_if_needed
Compacted(b) ==
  IF b.read >= CompactThreshold /\ b.read > size(b)
  THEN [data |-> [i \in DOMAIN b.data |->
                    IF i < size(b) THEN b.data[b.read + i] ELSE b.data[i]],
        read |-> 0, write |-> size(b)]
  ELSE b

\* The unread bytes at the front of a new storage.
Copied(b, cap) ==
  [data |-> [i \in 0 .. cap - 1 |->
               IF i < size(b) THEN b.data[b.read + i] ELSE Garbage],
   read |-> 0, write |-> size(b)]

\* ensure_writable
EnsureWritable(b, n) ==
  IF capacity(b) - b.write >= n THEN b
  ELSE LET c == Compacted(b)
       IN  IF capacity(c) - c.write >= n THEN c
           ELSE Copied(c, Max({2 * capacity(c), c.write + n}))

Filled(b, n) ==
  [b EXCEPT !.data = [i \in DOMAIN b.data |->
                        IF i \in b.write .. b.write + n - 1
                        THEN written + i - b.write + 1 ELSE b.data[i]]]

\* append: room, the copy, and the write position.
Store(n) ==
  /\ written + n <= MaxBytes
  /\ LET b == EnsureWritable(buf, n)
     IN  buf' = [Filled(b, n) EXCEPT !.write = @ + n]
  /\ written' = written + n

\* writable_span(n), k bytes put into the span by the caller, commit(k).
Receive(n, k) ==
  /\ k <= n /\ written + k <= MaxBytes
  /\ LET b == EnsureWritable(buf, n)
     IN  buf' = [Filled(b, k) EXCEPT !.write = @ + k]
  /\ written' = written + k

Consume(n) ==
  /\ LET b == [buf EXCEPT !.read = @ + Min({n, size(buf)})]
     IN  buf' = IF b.read = b.write THEN [b EXCEPT !.read = 0, !.write = 0]
                ELSE Compacted(b)
  /\ UNCHANGED written

Clear ==
  /\ buf' = [buf EXCEPT !.read = 0, !.write = 0]
  /\ UNCHANGED written

Reserve(n) ==
  /\ n > capacity(buf)
  /\ buf' = Copied(buf, n)
  /\ UNCHANGED written

Next == \/ \E n \in Lengths : Store(n) \/ Consume(n) \/ Reserve(n)
        \/ \E n, k \in Lengths : Receive(n, k)
        \/ Clear

Spec == Init /\ [][Next]_vars

-----------------------------------------------------------------------------
TypeOK ==
  /\ DOMAIN buf.data = 0 .. capacity(buf) - 1
  /\ buf.read \in 0 .. buf.write /\ buf.write \in 0 .. capacity(buf)
  /\ written \in 0 .. MaxBytes

\* The unread bytes are those written and not consumed, in order, whatever
\* the buffer has moved or copied, and the write position stays inside it.
Stream == INSTANCE ByteStream WITH bytes <- Unread(buf)
ImplementsStream == Stream!Spec
=============================================================================
