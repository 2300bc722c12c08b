----------------------------- MODULE MpscQueue -----------------------------
(***************************************************************************)
(* mpsc_queue (mpsc_queue.hpp): a linked queue of many producers and one   *)
(* consumer.  A producer exchanges head_ for its node and then links the   *)
(* node behind the one it got back; with a max_size_ it also counts, push  *)
(* after the link and try_push before the exchange.  The consumer follows  *)
(* tail_->next and frees the node it leaves.                               *)
(*                                                                         *)
(* Nodes are numbered in the order of the exchanges, 0 is the first dummy  *)
(* node.  Operations on atomics are sequentially consistent: the code's    *)
(* acquire and release pairs order all that is modelled here, and the      *)
(* relaxed counter is never used to publish a node.                        *)
(***************************************************************************)
EXTENDS Integers, Sequences, FiniteSets

CONSTANTS
  Producers,
  Consumer,
  Sizes,      \* the values of max_size_ tried, 0 for no limit
  SizeRange,  \* size_ is a size_t: it wraps at this number
  MaxPushes,  \* bound: values each producer pushes
  MaxNodes    \* bound: nodes exchanged into the list

VARIABLES
  maxSize,    \* max_size_
  data,       \* what each node holds, in the order of the exchanges
  next,       \* next[n]: the node linked behind n, 0 for none
  tail,       \* tail_
  freed,      \* the nodes deleted
  size,       \* size_
  pc,         \* where each producer is in its call, and the consumer
  seen,       \* the size a try_push has read
  prev,       \* the node a producer got from head_
  counts,     \* producers that count their node after linking it (push)
  unchecked,  \* push has been called on a queue with a limit
  accepted, taken  \* history: values pushed, values popped in order

vars == <<maxSize, data, next, tail, freed, size, pc, seen, prev, counts,
          unchecked, accepted, taken>>
queueVars == <<data, next, tail, freed>>
callVars  == <<seen, prev, counts, unchecked>>

MpscAssumption ==
  /\ IsFiniteSet(Producers) /\ Consumer \notin Producers
  /\ MaxNodes \in Nat /\ SizeRange \in Nat /\ MaxNodes < SizeRange
  /\ Sizes \subseteq 0 .. SizeRange - 1

Nodes == 0 .. MaxNodes
head  == Len(data)
None  == 0

Init ==
  /\ maxSize \in Sizes
  /\ data = <<>>
  /\ next = [n \in Nodes |-> None]
  /\ tail = 0
  /\ freed = {}
  /\ size = 0
  /\ pc = [t \in Producers \union {Consumer} |-> "idle"]
  /\ seen = [p \in Producers |-> 0]
  /\ prev = [p \in Producers |-> 0]
  /\ counts = {}
  /\ unchecked = FALSE
  /\ accepted = [p \in Producers |-> 0]
  /\ taken = <<>>

MayPush(p) == accepted[p] < MaxPushes /\ head < MaxNodes

\* push: straight to the exchange, the count comes last.
Push(p) ==
  /\ pc[p] = "idle" /\ MayPush(p)
  /\ pc' = [pc EXCEPT ![p] = "exchange"]
  /\ counts' = IF maxSize > 0 THEN counts \union {p} ELSE counts
  /\ unchecked' = (unchecked \/ maxSize > 0)
  /\ UNCHANGED <<queueVars, maxSize, size, seen, prev, accepted, taken>>

\* try_push on a queue with room: it reads the size (a full one returns false).
TryPush(p) ==
  /\ pc[p] = "idle" /\ MayPush(p)
  /\ maxSize > 0 /\ size < maxSize
  /\ pc' = [pc EXCEPT ![p] = "reserve"]
  /\ seen' = [seen EXCEPT ![p] = size]
  /\ UNCHANGED <<queueVars, maxSize, size, prev, counts, unchecked, accepted, taken>>

\* Mutant: the size is stored without comparing it with what was read.
ReserveBlind(p) ==
  /\ pc[p] = "reserve"
  /\ size' = seen[p] + 1
  /\ pc' = [pc EXCEPT ![p] = "exchange"]
  /\ UNCHANGED <<queueVars, callVars, maxSize, accepted, taken>>

\* compare_exchange_weak: the size is raised if it is still what was read; if
\* not, or spuriously, it is read again and the limit checked again.
Reserve(p) ==
  /\ pc[p] = "reserve"
  /\ \/ /\ size = seen[p]
        /\ size' = size + 1
        /\ pc' = [pc EXCEPT ![p] = "exchange"]
        /\ UNCHANGED seen
     \/ /\ seen' = [seen EXCEPT ![p] = size]
        /\ pc' = [pc EXCEPT ![p] = IF size < maxSize THEN "reserve" ELSE "idle"]
        /\ UNCHANGED size
  /\ UNCHANGED <<queueVars, maxSize, prev, counts, unchecked, accepted, taken>>

\* head_.exchange(new_node)
Exchange(p) ==
  /\ pc[p] = "exchange" /\ head < MaxNodes
  /\ data' = Append(data, <<p, accepted[p] + 1>>)
  /\ accepted' = [accepted EXCEPT ![p] = @ + 1]
  /\ prev' = [prev EXCEPT ![p] = head]
  /\ pc' = [pc EXCEPT ![p] = "link"]
  /\ UNCHANGED <<next, tail, freed, maxSize, size, seen, counts, unchecked, taken>>

\* prev->next.store(new_node)
Link(p) ==
  /\ pc[p] = "link"
  /\ next' = [next EXCEPT ![prev[p]] = prev[p] + 1]
  /\ pc' = [pc EXCEPT ![p] = IF p \in counts THEN "count" ELSE "idle"]
  /\ UNCHANGED <<data, tail, freed, callVars, maxSize, size, accepted, taken>>

\* size_.fetch_add(1) of push
Count(p) ==
  /\ pc[p] = "count"
  /\ size' = (size + 1) % SizeRange
  /\ counts' = counts \ {p}
  /\ pc' = [pc EXCEPT ![p] = "idle"]
  /\ UNCHANGED <<queueVars, maxSize, seen, prev, unchecked, accepted, taken>>

\* pop: the value of the node behind tail_, which becomes the dummy node.
Pop ==
  /\ pc[Consumer] = "idle" /\ next[tail] # None
  /\ taken' = Append(taken, data[next[tail]])
  /\ freed' = freed \union {tail}
  /\ tail' = next[tail]
  /\ pc' = [pc EXCEPT ![Consumer] = IF maxSize > 0 THEN "uncount" ELSE "idle"]
  /\ UNCHANGED <<data, next, callVars, maxSize, size, accepted>>

\* size_.fetch_sub(1) of pop
Uncount ==
  /\ pc[Consumer] = "uncount"
  /\ size' = (size - 1) % SizeRange
  /\ pc' = [pc EXCEPT ![Consumer] = "idle"]
  /\ UNCHANGED <<queueVars, callVars, maxSize, accepted, taken>>

Produce(p) == \/ Push(p) \/ TryPush(p) \/ Reserve(p)
              \/ Exchange(p) \/ Link(p) \/ Count(p)
Consume == Pop \/ Uncount
Next == (\E p \in Producers : Produce(p)) \/ Consume

Spec == Init /\ [][Next]_vars

-----------------------------------------------------------------------------
PcLabels == {"idle", "reserve", "exchange", "link", "count", "uncount"}

TypeOK ==
  /\ maxSize \in Nat
  /\ data \in Seq(Producers \X Nat) /\ head \in Nodes
  /\ next \in [Nodes -> Nodes]
  /\ tail \in Nodes /\ freed \subseteq Nodes
  /\ size \in Nat
  /\ pc \in [Producers \union {Consumer} -> PcLabels]
  /\ seen \in [Producers -> Nat] /\ prev \in [Producers -> Nodes]
  /\ counts \subseteq Producers /\ unchecked \in BOOLEAN
  /\ accepted \in [Producers -> Nat] /\ taken \in Seq(Producers \X Nat)

\* The node that a producer is about to link behind, and the one the consumer
\* stands on, have not been deleted (the delete of pop races the store of push
\* to prev->next, mpsc_queue.hpp:34 and :61).
NoUseAfterFree ==
  /\ \A p \in Producers : pc[p] = "link" => prev[p] \notin freed
  /\ tail \notin freed

Held == head - tail

\* A queue with a limit that is filled by try_push alone never holds more.
BoundKept == maxSize > 0 /\ ~unchecked => Held <= maxSize

\* Between calls the counter is the number of values held, although push
\* counts late and a pop in between takes the counter below zero.
SizeSettles ==
  maxSize > 0 /\ (\A t \in DOMAIN pc : pc[t] \in {"idle", "reserve"}) => size = Held

\* What a crowd of producers may rely on when they race the consumer.
MpscSafe == TypeOK /\ NoUseAfterFree /\ BoundKept /\ SizeSettles

\* The queue is a FIFO queue in which a push takes effect at its exchange and
\* a pop when it moves tail_ (its callers see an order that every one agrees
\* on, although a push that has returned may wait behind one that has not).
Fifo == INSTANCE FifoQueue WITH
          Consumers <- {Consumer}, Capacity <- MaxNodes,
          queue <- SubSeq(data, tail + 1, Len(data)),
          taken <- [c \in {Consumer} |-> taken]
ImplementsFifo == Fifo!Spec
=============================================================================
