--------------------------- MODULE RingBufferQueue ---------------------------
(***************************************************************************)
(* katana::ring_buffer_queue<T>: a bounded queue over an array of slots,   *)
(* each with its own sequence number.  A push takes the ticket head_, a    *)
(* pop the ticket tail_; ticket n lives in slot n & mask_.                 *)
(*                                                                         *)
(* try_push and try_pop have two paths.  The MPMC path claims its ticket   *)
(* with a CAS before it touches the slot.  The SPSC path takes the ticket  *)
(* with a plain store after it has used the slot, and is chosen while only *)
(* one producer and one consumer thread have been seen.                    *)
(*                                                                         *)
(* The two operations mirror each other, so a step is one action for both: *)
(* End(t) is the index a thread advances, "head" for a producer, "tail"    *)
(* for a consumer.  Every action is one access to shared memory (of        *)
(* sequential consistency: the memory orders are not modelled), except     *)
(* that the loads of flags and thread ids that only ever rise are taken    *)
(* together.                                                               *)
(***************************************************************************)
EXTENDS Integers, Sequences, FiniteSets

CONSTANTS
  Producers,   \* threads that call try_push, push or push_wait
  Consumers,   \* threads that call try_pop, pop or pop_wait
  Blocking,    \* those of them that use the *_wait variants
  Capacity,    \* capacity_, a power of two
  FastPath,    \* the constructor's enable_spsc_fast_path
  MaxPushes,   \* bound: values a producer pushes
  None         \* no thread (id 0), an empty slot

Threads == Producers \union Consumers
Side    == {"head", "tail"}
Values  == Producers \X (1 .. MaxPushes)

ASSUME ThreadAssumption ==
  /\ Producers \intersect Consumers = {}
  /\ Blocking \subseteq Threads
  /\ None \notin Threads
  /\ None \notin Values
  /\ FastPath \in BOOLEAN
  /\ MaxPushes \in Nat

ASSUME CapacityAssumption == Capacity \in Nat \ {0}

VARIABLES
  pos,        \* head_.value and tail_.value
  sequence,   \* slot::sequence
  storage,    \* slot::storage, None while no T is alive in it
  multi,      \* multi_producer_seen_ and multi_consumer_seen_
  last,       \* last_producer_ and last_consumer_
  waiters,    \* head_.waiters and tail_.waiters
  notifying,  \* head_notify_pending_ and tail_notify_pending_
  pc,         \* what a thread does next
  path,       \* the path it has chosen, "mpmc" or "spsc"
  loc,        \* its local copy of head, tail or the observed index
  sent,       \* how many values a producer has put into a slot
  got         \* the values a consumer has taken out, in order

shared == <<pos, sequence, storage, multi, last, waiters, notifying>>
vars   == <<shared, pc, path, loc, sent, got>>

Init ==
  /\ pos       = [s \in Side |-> 0]
  /\ sequence  = [i \in 0 .. Capacity - 1 |-> i]
  /\ storage   = [i \in 0 .. Capacity - 1 |-> None]
  /\ multi     = [s \in Side |-> ~FastPath]
  /\ last      = [s \in Side |-> None]
  /\ waiters   = [s \in Side |-> 0]
  /\ notifying = [s \in Side |-> FALSE]
  /\ pc        = [t \in Threads |-> "idle"]
  /\ path      = [t \in Threads |-> "mpmc"]
  /\ loc       = [t \in Threads |-> 0]
  /\ sent      = [p \in Producers |-> 0]
  /\ got       = [c \in Consumers |-> <<>>]

-----------------------------------------------------------------------------
(* Tickets and slots. *)

End(t)    == IF t \in Producers THEN "head" ELSE "tail"
Across(t) == IF t \in Producers THEN "tail" ELSE "head"
Slot(n)   == n % Capacity

\* Mutant: a consumer does not wait for the producer of its ticket.
ReadyUnpublished(t) == loc[t]

\* The sequence number that says ticket loc[t] may be used by t, and the one
\* that hands the slot over to the other side.
Ready(t) == IF t \in Producers THEN loc[t] ELSE loc[t] + 1

\* Mutants: the consumer hands the slot over a lap early, or a lap back.
DoneEarly(t)   == loc[t] + 1
DoneLapBack(t) == IF t \in Producers THEN loc[t] + 1 ELSE loc[t] - Capacity

Done(t)  == IF t \in Producers THEN loc[t] + 1 ELSE loc[t] + Capacity

Goto(t, label) == pc' = [pc EXCEPT ![t] = label]

-----------------------------------------------------------------------------
(* Choosing a path. *)

Multi == \E s \in Side : multi[s]

\* try_push and try_pop up to mark_producer and mark_consumer.
Enter(t) ==
  /\ pc[t] = "idle"
  /\ t \in Producers => sent[t] < MaxPushes
  /\ IF Multi
     THEN Goto(t, "load") /\ path' = [path EXCEPT ![t] = "mpmc"]
     ELSE Goto(t, "mark") /\ UNCHANGED path
  /\ UNCHANGED <<shared, loc, sent, got>>

\* mark_producer and mark_consumer: a second thread raises the flag.
Mark(t) ==
  /\ pc[t] = "mark"
  /\ IF ~multi[End(t)] /\ last[End(t)] = None
     THEN Goto(t, "enroll") /\ UNCHANGED multi
     ELSE /\ Goto(t, "select")
          /\ multi' = [multi EXCEPT ![End(t)] = @ \/ last[End(t)] # t]
  /\ UNCHANGED <<pos, sequence, storage, last, waiters, notifying,
                 path, loc, sent, got>>

\* Their compare_exchange_strong: the loser returns without raising the flag.
Enroll(t) ==
  /\ pc[t] = "enroll"
  /\ last' = [last EXCEPT ![End(t)] = IF @ = None THEN t ELSE @]
  /\ Goto(t, "select")
  /\ UNCHANGED <<pos, sequence, storage, multi, waiters, notifying,
                 path, loc, sent, got>>

\* spsc_push_available and spsc_pop_available.
Select(t) ==
  /\ pc[t] = "select"
  /\ path' = [path EXCEPT ![t] =
       IF ~Multi /\ last[End(t)] = t /\ last[Across(t)] # None
       THEN "spsc" ELSE "mpmc"]
  /\ Goto(t, "load")
  /\ UNCHANGED <<shared, loc, sent, got>>

-----------------------------------------------------------------------------
(* Using a slot. *)

Load(t) ==
  /\ pc[t] = "load"
  /\ loc' = [loc EXCEPT ![t] = pos[End(t)]]
  /\ Goto(t, "check")
  /\ UNCHANGED <<shared, path, sent, got>>

\* Mutant: the sequence number is not looked at.
CheckNothing(t) ==
  /\ pc[t] = "check"
  /\ Goto(t, IF path[t] = "mpmc" THEN "claim" ELSE "transfer")
  /\ UNCHANGED <<shared, path, loc, sent, got>>

\* The slot is ready for this ticket.
CheckReady(t) ==
  /\ pc[t] = "check"
  /\ sequence[Slot(loc[t])] = Ready(t)
  /\ Goto(t, IF path[t] = "mpmc" THEN "claim" ELSE "transfer")
  /\ UNCHANGED <<shared, path, loc, sent, got>>

\* Another thread has used this ticket already: take a fresh one.
CheckStale(t) ==
  /\ pc[t] = "check"
  /\ path[t] = "mpmc"
  /\ sequence[Slot(loc[t])] > Ready(t)
  /\ Goto(t, "load")
  /\ UNCHANGED <<shared, path, loc, sent, got>>

\* Full or empty.  The caller may try again; after its spins a *_wait call
\* goes on to wait.
CheckFails(t) ==
  /\ pc[t] = "check"
  /\ \/ sequence[Slot(loc[t])] < Ready(t)
     \/ path[t] = "spsc" /\ sequence[Slot(loc[t])] # Ready(t)
  /\ \/ Goto(t, "idle")
     \/ t \in Blocking /\ Goto(t, "observe")
  /\ UNCHANGED <<shared, path, loc, sent, got>>

\* Mutant: the index is stored without a comparison.
ClaimStores(t) ==
  /\ pc[t] = "claim"
  /\ pos' = [pos EXCEPT ![End(t)] = loc[t] + 1]
  /\ Goto(t, "transfer")
  /\ UNCHANGED <<sequence, storage, multi, last, waiters, notifying,
                 path, loc, sent, got>>

Claim(t) ==
  /\ pc[t] = "claim"
  /\ pos[End(t)] = loc[t]
  /\ pos' = [pos EXCEPT ![End(t)] = loc[t] + 1]
  /\ Goto(t, "transfer")
  /\ UNCHANGED <<sequence, storage, multi, last, waiters, notifying,
                 path, loc, sent, got>>

\* compare_exchange_weak may also fail when the index has not moved.
ClaimFails(t) ==
  /\ pc[t] = "claim"
  /\ loc' = [loc EXCEPT ![t] = pos[End(t)]]
  /\ Goto(t, "check")
  /\ UNCHANGED <<shared, path, sent, got>>

\* Move the value into the slot or out of it.
Transfer(t) ==
  /\ pc[t] = "transfer"
  /\ IF t \in Producers
     THEN /\ storage' = [storage EXCEPT ![Slot(loc[t])] = <<t, sent[t] + 1>>]
          /\ sent' = [sent EXCEPT ![t] = @ + 1]
          /\ UNCHANGED got
     ELSE /\ storage' = [storage EXCEPT ![Slot(loc[t])] = None]
          /\ got' = [got EXCEPT ![t] = Append(@, storage[Slot(loc[t])])]
          /\ UNCHANGED sent
  /\ Goto(t, "publish")
  /\ UNCHANGED <<pos, sequence, multi, last, waiters, notifying, path, loc>>

\* Mutant: the slot is never handed over.
PublishNothing(t) ==
  /\ pc[t] = "publish"
  /\ Goto(t, IF path[t] = "mpmc" THEN "notify" ELSE "advance")
  /\ UNCHANGED <<shared, path, loc, sent, got>>

Publish(t) ==
  /\ pc[t] = "publish"
  /\ sequence' = [sequence EXCEPT ![Slot(loc[t])] = Done(t)]
  /\ Goto(t, IF path[t] = "mpmc" THEN "notify" ELSE "advance")
  /\ UNCHANGED <<pos, storage, multi, last, waiters, notifying,
                 path, loc, sent, got>>

\* The SPSC path stores the index without looking at it again.
Advance(t) ==
  /\ pc[t] = "advance"
  /\ pos' = [pos EXCEPT ![End(t)] = loc[t] + 1]
  /\ Goto(t, "notify")
  /\ UNCHANGED <<sequence, storage, multi, last, waiters, notifying,
                 path, loc, sent, got>>

-----------------------------------------------------------------------------
(* maybe_notify: wake one thread that waits for the index to move. *)

\* Mutant: the waiters of the wrong index are looked at.
CheckOwnWaiters(t) ==
  /\ pc[t] = "notify"
  /\ Goto(t, IF waiters[Across(t)] = 0 THEN "idle" ELSE "flag")
  /\ UNCHANGED <<shared, path, loc, sent, got>>

CheckWaiters(t) ==
  /\ pc[t] = "notify"
  /\ Goto(t, IF waiters[End(t)] = 0 THEN "idle" ELSE "flag")
  /\ UNCHANGED <<shared, path, loc, sent, got>>

\* Only the thread that raises the flag notifies.
Flag(t) ==
  /\ pc[t] = "flag"
  /\ notifying' = [notifying EXCEPT ![End(t)] = TRUE]
  /\ Goto(t, IF notifying[End(t)] THEN "idle" ELSE "wake")
  /\ UNCHANGED <<pos, sequence, storage, multi, last, waiters,
                 path, loc, sent, got>>

Asleep(side) == {u \in Threads : pc[u] = "asleep" /\ Across(u) = side}

\* notify_one: any one sleeper compares the index again.
Wake(t) ==
  /\ pc[t] = "wake"
  /\ IF Asleep(End(t)) = {}
     THEN Goto(t, "unflag")
     ELSE \E u \in Asleep(End(t)) :
            pc' = [pc EXCEPT ![t] = "unflag", ![u] = "wait"]
  /\ UNCHANGED <<shared, path, loc, sent, got>>

Unflag(t) ==
  /\ pc[t] = "unflag"
  /\ notifying' = [notifying EXCEPT ![End(t)] = FALSE]
  /\ Goto(t, "idle")
  /\ UNCHANGED <<pos, sequence, storage, multi, last, waiters,
                 path, loc, sent, got>>

-----------------------------------------------------------------------------
(* push_wait and pop_wait after their spins. *)

Observe(t) ==
  /\ pc[t] = "observe"
  /\ loc' = [loc EXCEPT ![t] = pos[Across(t)]]
  /\ Goto(t, "register")
  /\ UNCHANGED <<shared, path, sent, got>>

Register(t) ==
  /\ pc[t] = "register"
  /\ waiters' = [waiters EXCEPT ![Across(t)] = @ + 1]
  /\ Goto(t, "wait")
  /\ UNCHANGED <<pos, sequence, storage, multi, last, notifying,
                 path, loc, sent, got>>

\* atomic::wait sleeps while the index is the observed one.
Wait(t) ==
  /\ pc[t] = "wait"
  /\ Goto(t, IF pos[Across(t)] = loc[t] THEN "asleep" ELSE "deregister")
  /\ UNCHANGED <<shared, path, loc, sent, got>>

Deregister(t) ==
  /\ pc[t] = "deregister"
  /\ waiters' = [waiters EXCEPT ![Across(t)] = @ - 1]
  /\ Goto(t, "idle")
  /\ UNCHANGED <<pos, sequence, storage, multi, last, notifying,
                 path, loc, sent, got>>

-----------------------------------------------------------------------------
ChoosePath(t) == Enter(t) \/ Mark(t) \/ Enroll(t) \/ Select(t)
UseSlot(t)    == \/ Load(t) \/ CheckReady(t) \/ CheckStale(t) \/ CheckFails(t)
                 \/ Claim(t) \/ ClaimFails(t)
                 \/ Transfer(t) \/ Publish(t) \/ Advance(t)
Notify(t)     == CheckWaiters(t) \/ Flag(t) \/ Wake(t) \/ Unflag(t)
Block(t)      == Observe(t) \/ Register(t) \/ Wait(t) \/ Deregister(t)

Step(t) == ChoosePath(t) \/ UseSlot(t) \/ Notify(t) \/ Block(t)

Next == \E t \in Threads : Step(t)

Spec == Init /\ [][Next]_vars

\* Threads are scheduled, and a CAS that could succeed does not fail forever.
Fairness == \A t \in Threads : WF_vars(Step(t)) /\ SF_vars(Claim(t))

FairSpec == Spec /\ Fairness

-----------------------------------------------------------------------------
(* Properties. *)

Labels == {"idle", "mark", "enroll", "select", "load", "check", "claim",
           "transfer", "publish", "advance", "notify", "flag", "wake",
           "unflag", "observe", "register", "wait", "asleep", "deregister"}

\* The labels of a try_push or try_pop that has not moved its value yet.
InCall == {"mark", "enroll", "select", "load", "check", "claim", "transfer"}

\* The variables have their types, and a producer inside try_push has a value
\* to push.
TypeOK ==
  /\ pos       \in [Side -> Nat]
  /\ sequence  \in [0 .. Capacity - 1 -> Nat]
  /\ storage   \in [0 .. Capacity - 1 -> Values \union {None}]
  /\ multi     \in [Side -> BOOLEAN]
  /\ last      \in [Side -> Threads \union {None}]
  /\ waiters   \in [Side -> Int]
  /\ notifying \in [Side -> BOOLEAN]
  /\ pc        \in [Threads -> Labels]
  /\ path      \in [Threads -> {"mpmc", "spsc"}]
  /\ loc       \in [Threads -> Nat]
  /\ sent      \in [Producers -> 0 .. MaxPushes]
  /\ got       \in [Consumers -> Seq(Values \union {None})]
  /\ \A p \in Producers : pc[p] \in InCall => sent[p] < MaxPushes

\* The threads of S between taking a slot and publishing its new sequence.
Using(S) == {t \in S : pc[t] \in {"transfer", "publish"}}

\* No two threads are ever inside the same slot, whichever path each of them
\* took: neither the placement new nor the move out of a slot is synchronised
\* by anything but the sequence number.
SlotExclusion ==
  \A t, u \in Using(Threads) : t # u => Slot(loc[t]) # Slot(loc[u])

\* A producer constructs its value in a slot where none is alive, and a
\* consumer moves out of a slot where one is.
SlotLifetime ==
  \A t \in Threads : pc[t] = "transfer" =>
    (t \in Producers <=> storage[Slot(loc[t])] = None)

\* The places where value v is: slots, and positions in what consumers took.
Places(v) ==
  {i \in DOMAIN storage : storage[i] = v} \union
  {w \in Consumers \X (1 .. Cardinality(Values)) :
     w[2] <= Len(got[w[1]]) /\ got[w[1]][w[2]] = v}

\* Every value a producer has put in is in exactly one place: it is not lost
\* to a second push and not handed out twice.
NothingLost ==
  \A p \in Producers : \A k \in 1 .. sent[p] : Cardinality(Places(<<p, k>>)) = 1

\* A thread asleep on an index that has moved on has a notification on the
\* way: some thread that moved the index has yet to finish maybe_notify.
NoMissedAdvance ==
  \A t \in Threads : pc[t] = "asleep" /\ pos[Across(t)] # loc[t] =>
    \E u \in Threads :
      /\ End(u) = Across(t)
      /\ pc[u] \in {"transfer", "publish", "notify", "flag", "wake"}

\* Every value is pushed and handed to a consumer in the end.
EverythingDelivered ==
  \A v \in Values :
    <>(\E c \in Consumers : \E i \in DOMAIN got[c] : got[c][i] = v)

-----------------------------------------------------------------------------
(* The slot protocol of the MPMC path, the inductive invariant from which   *)
(* SlotExclusion and SlotLifetime follow.                                   *)

head == pos["head"]
tail == pos["tail"]

\* Every thread is on the MPMC path.
OnlyMpmc ==
  /\ \A s \in Side : multi[s]
  /\ \A t \in Threads :
       path[t] = "mpmc" /\ pc[t] \notin {"mark", "enroll", "select", "advance"}

\* At most a lap of tickets is out, and a thread that uses a slot has a
\* ticket of its own: a producer's is still held, a consumer's is not, and
\* has not come round again.
TicketsOut ==
  /\ tail <= head
  /\ head <= tail + Capacity
  /\ \A p \in Using(Producers) : tail <= loc[p] /\ loc[p] < head
  /\ \A c \in Using(Consumers) : head <= loc[c] + Capacity /\ loc[c] < tail
  /\ \A p, q \in Using(Producers) : p # q => loc[p] # loc[q]
  /\ \A c, d \in Using(Consumers) : c # d => loc[c] # loc[d]

\* The ticket a thread is about to claim is not ahead of the index, and if
\* it is the index's, its slot is ready.
TicketsSeen ==
  /\ \A t \in Threads : pc[t] \in {"check", "claim"} => loc[t] <= pos[End(t)]
  /\ \A t \in Threads : pc[t] = "claim" /\ loc[t] = pos[End(t)] =>
       sequence[Slot(loc[t])] = Ready(t)

\* What the sequence number of a slot says of it.
SequenceTells ==
  /\ \A t \in Using(Threads) : sequence[Slot(loc[t])] = Ready(t)
  /\ \A n \in tail .. head - 1 :
       sequence[Slot(n)] = n + 1 \/ \E p \in Using(Producers) : loc[p] = n
  /\ \A n \in head .. tail + Capacity - 1 :
       sequence[Slot(n)] = n \/ \E c \in Using(Consumers) : loc[c] = n - Capacity

\* The slots in which a value is alive.
StorageTells ==
  /\ \A p \in Producers : pc[p] = "transfer" => storage[Slot(loc[p])] = None
  /\ \A c \in Consumers : pc[c] = "transfer" => storage[Slot(loc[c])] # None
  /\ \A n \in tail .. head - 1 :
       \/ storage[Slot(n)] # None
       \/ \E p \in Producers : pc[p] = "transfer" /\ loc[p] = n
  /\ \A n \in head .. tail + Capacity - 1 :
       \/ storage[Slot(n)] = None
       \/ \E c \in Consumers : pc[c] = "transfer" /\ loc[c] = n - Capacity

SlotProtocol ==
  TypeOK /\ OnlyMpmc /\ TicketsOut /\ TicketsSeen /\ SequenceTells /\ StorageTells

-----------------------------------------------------------------------------
(* Refinement of FifoQueue.  An MPMC operation takes effect when it claims  *)
(* its ticket, an SPSC operation when it moves the value.                   *)

Ahead(S) == Cardinality({t \in S : path[t] = "spsc" /\ pc[t] \in {"publish", "advance"}})
FirstTicket == pos["tail"] + Ahead(Consumers)
NextTicket  == pos["head"] + Ahead(Producers)

Claimed(t) == path[t] = "mpmc" /\ pc[t] = "transfer"

TicketValue(n) ==
  IF \E p \in Producers : Claimed(p) /\ loc[p] = n
  THEN LET p == CHOOSE q \in Producers : Claimed(q) /\ loc[q] = n
       IN  <<p, sent[p] + 1>>
  ELSE storage[Slot(n)]

QueueOf ==
  [i \in 1 .. NextTicket - FirstTicket |-> TicketValue(FirstTicket + i - 1)]

AcceptedOf ==
  [p \in Producers |-> IF Claimed(p) THEN sent[p] + 1 ELSE sent[p]]

TakenOf ==
  [c \in Consumers |->
     IF Claimed(c) THEN Append(got[c], storage[Slot(loc[c])]) ELSE got[c]]

Fifo == INSTANCE FifoQueue
          WITH queue <- QueueOf, accepted <- AcceptedOf, taken <- TakenOf

\* The queue is a bounded FIFO queue.
ImplementsFifo == Fifo!Spec
=============================================================================
