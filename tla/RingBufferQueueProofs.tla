------------------------ MODULE RingBufferQueueProofs ------------------------
(***************************************************************************)
(* Proofs about RingBufferQueue: on its MPMC path for any number of        *)
(* threads, and between one producer and one consumer on both paths; any   *)
(* capacity above one and any number of pushes.                            *)
(***************************************************************************)
EXTENDS RingBufferQueue, SequenceTheorems, FiniteSetTheorems, TLAPS

\* The constructor was called with enable_spsc_fast_path = false, on a
\* capacity of at least two.
MpmcOnly == ~FastPath /\ Capacity > 1

-----------------------------------------------------------------------------
(* Slots of tickets. *)

\* A ticket's slot is an index of the buffer.
LEMMA SlotInBuffer ==
  ASSUME NEW n \in Nat
  PROVE  Slot(n) \in 0 .. Capacity - 1
BY CapacityAssumption DEF Slot

\* The division that Slot is the remainder of.
LEMMA SlotDivision ==
  ASSUME NEW n \in Nat
  PROVE  \E q \in Int : n = Capacity * q + Slot(n)
<1>1. n \div Capacity \in Int /\ n = Capacity * (n \div Capacity) + (n % Capacity)
  BY CapacityAssumption
<1>. QED  BY <1>1 DEF Slot

\* A multiple of Capacity that is less than Capacity in size is zero.
LEMMA SmallMultiple ==
  ASSUME NEW k \in Int, Capacity * k < Capacity, -Capacity < Capacity * k
  PROVE  k = 0
<1>1. CASE k >= 1
  BY <1>1, CapacityAssumption
<1>2. CASE k <= -1
  BY <1>2, CapacityAssumption
<1>. QED  BY <1>1, <1>2

\* A ticket and the one a lap later share their slot.
LEMMA SlotNextLap ==
  ASSUME NEW n \in Nat
  PROVE  Slot(n + Capacity) = Slot(n)
<1>0. Capacity \in Nat /\ n + Capacity \in Nat
  BY CapacityAssumption
<1>1. PICK a \in Int : n = Capacity * a + Slot(n)
  BY SlotDivision
<1>2. PICK b \in Int : n + Capacity = Capacity * b + Slot(n + Capacity)
  BY <1>0, SlotDivision
<1>3. /\ Slot(n) \in 0 .. Capacity - 1
      /\ Slot(n + Capacity) \in 0 .. Capacity - 1
  BY <1>0, SlotInBuffer
<1>4. Capacity * (b - a - 1) = Slot(n) - Slot(n + Capacity)
  BY <1>0, <1>1, <1>2, <1>3
<1>5. b - a - 1 = 0
  BY <1>0, <1>3, <1>4, SmallMultiple
<1>6. Capacity * (b - a - 1) = 0
  BY <1>0, <1>5
<1>. QED  BY <1>3, <1>4, <1>6

\* Two tickets less than a lap apart have different slots.
LEMMA SlotDistinct ==
  ASSUME NEW m \in Nat, NEW n \in Nat, m < n, n < m + Capacity
  PROVE  Slot(m) # Slot(n)
<1>0. Capacity \in Nat
  BY CapacityAssumption
<1>1. PICK a \in Int : m = Capacity * a + Slot(m)
  BY SlotDivision
<1>2. PICK b \in Int : n = Capacity * b + Slot(n)
  BY SlotDivision
<1>3. Slot(m) \in 0 .. Capacity - 1 /\ Slot(n) \in 0 .. Capacity - 1
  BY SlotInBuffer
<1>4. SUFFICES ASSUME Slot(m) = Slot(n)
               PROVE  FALSE
  OBVIOUS
<1>5. Capacity * (b - a) = n - m
  BY <1>0, <1>1, <1>2, <1>3, <1>4
<1>6. b - a = 0
  BY <1>0, <1>5, SmallMultiple
<1>7. Capacity * (b - a) = 0
  BY <1>0, <1>6
<1>. QED  BY <1>5, <1>7

-----------------------------------------------------------------------------
(* Type correctness, on both paths. *)

LEMMA TypeStep == TypeOK /\ [Next]_vars => TypeOK'
<1>. SUFFICES ASSUME TypeOK, [Next]_vars PROVE TypeOK'
  OBVIOUS
<1>. USE DEF TypeOK
<1>0. CASE UNCHANGED vars
  BY <1>0 DEF vars, shared
<1>1. ASSUME NEW t \in Threads, Step(t) PROVE TypeOK'
  <2>. End(t) \in Side /\ Across(t) \in Side
    BY DEF End, Across, Side
  <2>. \A p \in Producers : p \in Threads
    BY DEF Threads
  <2>1. CASE Enter(t)
    <3>1. CASE Multi
      BY <2>1, <3>1 DEF Enter, shared, Goto, Labels, InCall
    <3>2. CASE ~Multi
      BY <2>1, <3>2 DEF Enter, shared, Goto, Labels, InCall
    <3>. QED  BY <3>1, <3>2
  <2>2. CASE Mark(t)
    <3>1. multi' \in [Side -> BOOLEAN]
      BY <2>2 DEF Mark
    <3>2. \E x \in {"enroll", "select"} : pc' = [pc EXCEPT ![t] = x]
      BY <2>2 DEF Mark, Goto
    <3>. QED  BY <2>2, <3>1, <3>2 DEF Mark, Labels, InCall
  <2>3. CASE Enroll(t)
    BY <2>3 DEF Enroll, Goto, Labels, InCall
  <2>4. CASE Select(t)
    BY <2>4 DEF Select, shared, Goto, Labels, InCall
  <2>5. CASE Load(t)
    BY <2>5 DEF Load, shared, Goto, Labels, InCall
  <2>6. CASE CheckReady(t)
    BY <2>6 DEF CheckReady, shared, Goto, Labels, InCall
  <2>7. CASE CheckStale(t)
    BY <2>7 DEF CheckStale, shared, Goto, Labels, InCall
  <2>8. CASE CheckFails(t)
    <3>1. \E x \in {"idle", "observe"} : pc' = [pc EXCEPT ![t] = x]
      BY <2>8 DEF CheckFails, Goto
    <3>. QED  BY <2>8, <3>1 DEF CheckFails, shared, Labels, InCall
  <2>9. CASE Claim(t)
    BY <2>9 DEF Claim, Goto, Labels, InCall
  <2>10. CASE ClaimFails(t)
    BY <2>10 DEF ClaimFails, shared, Goto, Labels, InCall
  <2>11. CASE Transfer(t)
    <3>. Slot(loc[t]) \in 0 .. Capacity - 1
      BY SlotInBuffer
    <3>1. CASE t \in Producers
      <4>1. sent[t] + 1 \in 1 .. MaxPushes
        BY <2>11, <3>1, ThreadAssumption DEF Transfer, InCall
      <4>2. <<t, sent[t] + 1>> \in Values
        BY <3>1, <4>1 DEF Values
      <4>3. storage' \in [0 .. Capacity - 1 -> Values \union {None}]
        BY <2>11, <3>1, <4>2 DEF Transfer
      <4>4. /\ sent' = [sent EXCEPT ![t] = sent[t] + 1]
            /\ pc' = [pc EXCEPT ![t] = "publish"]
        BY <2>11, <3>1 DEF Transfer, Goto
      <4>5. sent[t] + 1 \in 0 .. MaxPushes
        BY <4>1, ThreadAssumption
      <4>6. pc' \in [Threads -> Labels] /\ sent' \in [Producers -> 0 .. MaxPushes]
        BY <4>4, <4>5 DEF Labels
      <4>7. \A p \in Producers : pc'[p] \in InCall => sent'[p] < MaxPushes
        BY <2>11, <3>1, <4>4 DEF Transfer, InCall
      <4>. QED  BY <2>11, <3>1, <4>3, <4>6, <4>7 DEF Transfer
    <3>2. CASE t \notin Producers
      <4>1. t \in Consumers
        BY <3>2 DEF Threads
      <4>2. got' = [got EXCEPT ![t] = Append(got[t], storage[Slot(loc[t])])]
        BY <2>11, <3>2 DEF Transfer
      <4>3. got' \in [Consumers -> Seq(Values \union {None})]
        BY <4>1, <4>2
      <4>. QED  BY <2>11, <3>2, <4>3 DEF Transfer, Goto, Labels, InCall
    <3>. QED  BY <3>1, <3>2
  <2>12. CASE Publish(t)
    <3>1. Done(t) \in Nat
      BY CapacityAssumption DEF Done
    <3>2. sequence' \in [0 .. Capacity - 1 -> Nat]
      BY <2>12, <3>1 DEF Publish
    <3>3. \E x \in {"notify", "advance"} : pc' = [pc EXCEPT ![t] = x]
      BY <2>12 DEF Publish, Goto
    <3>. QED  BY <2>12, <3>2, <3>3 DEF Publish, Labels, InCall
  <2>13. CASE Advance(t)
    BY <2>13 DEF Advance, Goto, Labels, InCall
  <2>14. CASE CheckWaiters(t)
    BY <2>14 DEF CheckWaiters, shared, Goto, Labels, InCall
  <2>15. CASE Flag(t)
    BY <2>15 DEF Flag, Goto, Labels, InCall
  <2>16. CASE Wake(t)
    <3>1. CASE Asleep(End(t)) = {}
      BY <2>16, <3>1 DEF Wake, shared, Goto, Labels, InCall
    <3>2. CASE Asleep(End(t)) # {}
      <4>1. PICK u \in Asleep(End(t)) :
              pc' = [pc EXCEPT ![t] = "unflag", ![u] = "wait"]
        BY <2>16, <3>2 DEF Wake
      <4>. QED  BY <2>16, <4>1 DEF Wake, shared, Labels, InCall, Asleep
    <3>. QED  BY <3>1, <3>2
  <2>17. CASE Unflag(t)
    BY <2>17 DEF Unflag, Goto, Labels, InCall
  <2>18. CASE Observe(t)
    BY <2>18 DEF Observe, shared, Goto, Labels, InCall
  <2>19. CASE Register(t)
    BY <2>19 DEF Register, Goto, Labels, InCall
  <2>20. CASE Wait(t)
    BY <2>20 DEF Wait, shared, Goto, Labels, InCall
  <2>21. CASE Deregister(t)
    BY <2>21 DEF Deregister, Goto, Labels, InCall
  <2>. QED
    BY <1>1, <2>1, <2>2, <2>3, <2>4, <2>5, <2>6, <2>7, <2>8, <2>9, <2>10,
       <2>11, <2>12, <2>13, <2>14, <2>15, <2>16, <2>17, <2>18, <2>19, <2>20,
       <2>21
    DEF Step, ChoosePath, UseSlot, Notify, Block
<1>. QED  BY <1>0, <1>1 DEF Next

LEMMA TypeInit == Init => TypeOK
<1>. SUFFICES ASSUME Init PROVE TypeOK
  OBVIOUS
<1>1. multi \in [Side -> BOOLEAN] /\ notifying \in [Side -> BOOLEAN]
  BY ThreadAssumption DEF Init
<1>2. sequence \in [0 .. Capacity - 1 -> Nat]
  BY CapacityAssumption DEF Init
<1>3. got \in [Consumers -> Seq(Values \union {None})]
  BY DEF Init
<1>. QED
  BY <1>1, <1>2, <1>3, ThreadAssumption DEF Init, TypeOK, Labels, InCall, Threads

\* The variables keep their types, on both paths.
THEOREM TypeCorrect == Spec => []TypeOK
<1>1. Init => TypeOK
  BY TypeInit
<1>2. TypeOK /\ [Next]_vars => TypeOK'
  BY TypeStep
<1>. QED  BY <1>1, <1>2, PTL DEF Spec

-----------------------------------------------------------------------------
(* Slots are exclusive. *)

\* Two different tickets less than a lap apart, in either order.
LEMMA SlotsApart ==
  ASSUME NEW m \in Nat, NEW n \in Nat,
         m # n, m < n + Capacity, n < m + Capacity
  PROVE  Slot(m) # Slot(n)
<1>1. CASE m < n
  BY <1>1, SlotDistinct
<1>2. CASE n < m
  BY <1>2, SlotDistinct
<1>. QED  BY <1>1, <1>2

\* The numbers an invariant's arithmetic is about.
LEMMA Numbers ==
  ASSUME TypeOK
  PROVE  /\ head \in Nat /\ tail \in Nat
         /\ Capacity \in Nat /\ Capacity > 0
         /\ \A t \in Threads : loc[t] \in Nat
         /\ \A t \in Producers : t \in Threads /\ t \notin Consumers /\ End(t) = "head"
         /\ \A t \in Consumers : t \in Threads /\ t \notin Producers /\ End(t) = "tail"
         /\ \A t \in Threads : t \in Producers \/ t \in Consumers
BY CapacityAssumption, ThreadAssumption
DEF TypeOK, head, tail, Side, Threads, End

\* The threads that use a slot have tickets less than a lap apart.
LEMMA ProtocolExclusion == TypeOK /\ TicketsOut => SlotExclusion
<1>. SUFFICES ASSUME TypeOK, TicketsOut,
                     NEW t \in Using(Threads), NEW u \in Using(Threads), t # u
              PROVE  Slot(loc[t]) # Slot(loc[u])
  BY DEF SlotExclusion
<1>. USE Numbers DEF TicketsOut
<1>1. t \in Threads /\ u \in Threads
  BY DEF Using
<1>2. /\ t \in Using(Producers) \/ t \in Using(Consumers)
      /\ u \in Using(Producers) \/ u \in Using(Consumers)
  BY <1>1 DEF Using
<1>3. /\ loc[t] # loc[u]
      /\ loc[t] < loc[u] + Capacity
      /\ loc[u] < loc[t] + Capacity
  <2>1. CASE t \in Using(Producers) /\ u \in Using(Producers)
    BY <1>1, <2>1
  <2>2. CASE t \in Using(Consumers) /\ u \in Using(Consumers)
    BY <1>1, <2>2
  <2>3. CASE t \in Using(Producers) /\ u \in Using(Consumers)
    BY <1>1, <2>3
  <2>4. CASE t \in Using(Consumers) /\ u \in Using(Producers)
    BY <1>1, <2>4
  <2>. QED  BY <1>2, <2>1, <2>2, <2>3, <2>4
<1>. QED  BY <1>1, <1>3, SlotsApart

\* StorageTells says of every thread that moves a value what SlotLifetime asks.
LEMMA ProtocolLifetime == StorageTells => SlotLifetime
BY ThreadAssumption DEF StorageTells, SlotLifetime, Threads

\* Every thread stays on the MPMC path.
LEMMA ModeStep ==
  ASSUME TypeOK, OnlyMpmc, [Next]_vars
  PROVE  OnlyMpmc'
<1>. USE DEF TypeOK, OnlyMpmc
<1>0. CASE UNCHANGED vars
  BY <1>0 DEF vars, shared
<1>1. ASSUME NEW t \in Threads, Step(t) PROVE OnlyMpmc'
  <2>0. Multi /\ \A s \in Side : multi[s]
    BY DEF Multi, Side
  <2>1. CASE ChoosePath(t)
    BY <2>0, <2>1 DEF ChoosePath, Enter, Mark, Enroll, Select, Goto, shared
  <2>2. CASE UseSlot(t)
    <3>1. multi' = multi /\ path' = path
      BY <2>2 DEF UseSlot, Load, CheckReady, CheckStale, CheckFails, Claim,
                  ClaimFails, Transfer, Publish, Advance, shared
    <3>2. \E x \in Labels \ {"mark", "enroll", "select", "advance"} :
            pc' = [pc EXCEPT ![t] = x]
      BY <2>2 DEF UseSlot, Load, CheckReady, CheckStale, CheckFails, Claim,
                  ClaimFails, Transfer, Publish, Advance, Goto, Labels
    <3>. QED  BY <3>1, <3>2
  <2>3. CASE Notify(t)
    <3>1. multi' = multi /\ path' = path
      BY <2>3 DEF Notify, CheckWaiters, Flag, Wake, Unflag, shared
    <3>2. CASE Wake(t)
      BY <3>1, <3>2 DEF Wake, Goto, Asleep
    <3>3. CASE CheckWaiters(t) \/ Flag(t) \/ Unflag(t)
      BY <3>1, <3>3 DEF CheckWaiters, Flag, Unflag, Goto
    <3>. QED  BY <2>3, <3>2, <3>3 DEF Notify
  <2>4. CASE Block(t)
    BY <2>4 DEF Block, Observe, Register, Wait, Deregister, Goto, shared
  <2>. QED  BY <1>1, <2>1, <2>2, <2>3, <2>4 DEF Step
<1>. QED  BY <1>0, <1>1 DEF Next

\* The part of the protocol that is about tickets and slots.
Tickets == TicketsOut /\ TicketsSeen /\ SequenceTells /\ StorageTells

\* A step of a thread that neither takes nor uses a slot.
LEMMA QuietStep ==
  ASSUME TypeOK, TypeOK', Tickets, NEW t \in Threads,
         UNCHANGED <<pos, sequence, storage>>,
         pc[t] \notin {"transfer", "publish"},
         pc'[t] \notin {"claim", "transfer", "publish"},
         pc'[t] = "check" => loc'[t] <= pos[End(t)],
         \A u \in Threads \ {t} :
           /\ loc'[u] = loc[u]
           /\ pc'[u] = pc[u] \/ (pc[u] = "asleep" /\ pc'[u] = "wait")
  PROVE  Tickets'
<1>. USE DEF Tickets
<1>1. /\ head' = head /\ tail' = tail
      /\ pos' = pos /\ sequence' = sequence /\ storage' = storage
  BY DEF head, tail
<1>2. ASSUME NEW S, \A u \in S : u \in Threads
      PROVE  /\ Using(S)' = Using(S)
             /\ \A u \in Using(S) : loc'[u] = loc[u]
             /\ \A u \in S : pc'[u] = "transfer" <=> pc[u] = "transfer"
  BY <1>2 DEF Using
<1>3. /\ Using(Producers)' = Using(Producers)
      /\ Using(Consumers)' = Using(Consumers)
      /\ Using(Threads)' = Using(Threads)
      /\ \A u \in Using(Threads) : loc'[u] = loc[u]
      /\ \A u \in Threads : pc'[u] = "transfer" <=> pc[u] = "transfer"
      /\ Using(Producers) \subseteq Using(Threads)
      /\ Using(Consumers) \subseteq Using(Threads)
  BY <1>2 DEF Threads, Using
<1>4. TicketsOut'
  BY <1>1, <1>3 DEF TicketsOut
<1>5. TicketsSeen'
  BY <1>1 DEF TicketsSeen, Ready, End
<1>6. SequenceTells'
  BY <1>1, <1>3 DEF SequenceTells, Ready, End
<1>7. StorageTells'
  <2>1. \A u \in Threads : pc[u] = "transfer" => loc'[u] = loc[u]
    OBVIOUS
  <2>. QED  BY <1>1, <1>3, <2>1 DEF StorageTells, Threads
<1>. QED  BY <1>4, <1>5, <1>6, <1>7

\* The steps that QuietStep covers.
LEMMA QuietSteps ==
  ASSUME TypeOK, TypeOK', OnlyMpmc, Tickets, NEW t \in Threads,
         \/ ChoosePath(t) \/ Load(t) \/ CheckStale(t) \/ CheckFails(t)
         \/ ClaimFails(t) \/ Notify(t) \/ Block(t)
  PROVE  Tickets'
<1>. USE DEF TypeOK, Goto, shared
<1>0. Multi
  BY DEF OnlyMpmc, Multi, Side
<1>1. CASE ChoosePath(t)
  <2>1. Enter(t)
    BY <1>1 DEF ChoosePath, OnlyMpmc, Mark, Enroll, Select
  <2>. QED  BY <1>0, <2>1, QuietStep DEF Enter
<1>2. CASE Load(t)
  <2>1. loc'[t] = pos[End(t)] /\ pos[End(t)] \in Nat
    BY <1>2 DEF Load, End, Side
  <2>2. /\ UNCHANGED <<pos, sequence, storage>>
        /\ pc[t] = "load" /\ pc'[t] = "check"
        /\ loc'[t] <= pos[End(t)]
        /\ \A u \in Threads \ {t} : loc'[u] = loc[u] /\ pc'[u] = pc[u]
    BY <1>2, <2>1 DEF Load
  <2>. QED  BY <2>2, QuietStep
<1>3. CASE CheckStale(t)
  BY <1>3, QuietStep DEF CheckStale
<1>4. CASE CheckFails(t)
  BY <1>4, QuietStep DEF CheckFails
<1>5. CASE ClaimFails(t)
  <2>1. loc'[t] = pos[End(t)] /\ pos[End(t)] \in Nat
    BY <1>5 DEF ClaimFails, End, Side
  <2>2. /\ UNCHANGED <<pos, sequence, storage>>
        /\ pc[t] = "claim" /\ pc'[t] = "check"
        /\ loc'[t] <= pos[End(t)]
        /\ \A u \in Threads \ {t} : loc'[u] = loc[u] /\ pc'[u] = pc[u]
    BY <1>5, <2>1 DEF ClaimFails
  <2>. QED  BY <2>2, QuietStep
<1>6. CASE Notify(t)
  <2>1. CASE Wake(t) /\ Asleep(End(t)) # {}
    <3>1. PICK u \in Asleep(End(t)) :
            pc' = [pc EXCEPT ![t] = "unflag", ![u] = "wait"]
      BY <2>1 DEF Wake
    <3>2. u \in Threads /\ pc[u] = "asleep" /\ u # t
      BY <2>1 DEF Asleep, Wake
    <3>3. /\ UNCHANGED <<pos, sequence, storage, loc>>
          /\ pc[t] = "wake" /\ pc'[t] = "unflag" /\ pc'[u] = "wait"
          /\ \A v \in Threads \ {t} : v # u => pc'[v] = pc[v]
      BY <2>1, <3>1, <3>2 DEF Wake
    <3>. QED  BY <3>2, <3>3, QuietStep
  <2>2. CASE Wake(t) /\ Asleep(End(t)) = {}
    BY <2>2, QuietStep DEF Wake
  <2>3. CASE CheckWaiters(t)
    BY <2>3, QuietStep DEF CheckWaiters
  <2>4. CASE Flag(t)
    BY <2>4, QuietStep DEF Flag
  <2>5. CASE Unflag(t)
    BY <2>5, QuietStep DEF Unflag
  <2>. QED  BY <1>6, <2>1, <2>2, <2>3, <2>4, <2>5 DEF Notify
<1>7. CASE Block(t)
  <2>1. CASE Observe(t)
    BY <2>1, QuietStep DEF Observe
  <2>2. CASE Register(t)
    BY <2>2, QuietStep DEF Register
  <2>3. CASE Wait(t)
    BY <2>3, QuietStep DEF Wait
  <2>4. CASE Deregister(t)
    BY <2>4, QuietStep DEF Deregister
  <2>. QED  BY <1>7, <2>1, <2>2, <2>3, <2>4 DEF Block
<1>. QED  BY <1>1, <1>2, <1>3, <1>4, <1>5, <1>6, <1>7

\* A slot found ready stays ready for the ticket at the index until the index
\* moves, because nobody else may write its sequence number.
LEMMA ReadyStep ==
  ASSUME TypeOK, TypeOK', OnlyMpmc, Tickets, NEW t \in Threads, CheckReady(t)
  PROVE  Tickets'
<1>1. /\ pc[t] = "check" /\ pc' = [pc EXCEPT ![t] = "claim"]
      /\ sequence[Slot(loc[t])] = Ready(t)
      /\ UNCHANGED <<pos, sequence, storage, loc>>
  BY DEF CheckReady, OnlyMpmc, Goto, shared
<1>2. /\ head' = head /\ tail' = tail
      /\ \A u \in Threads : u # t => pc'[u] = pc[u]
      /\ pc'[t] = "claim"
  BY <1>1 DEF head, tail, TypeOK
<1>3. /\ Using(Producers)' = Using(Producers)
      /\ Using(Consumers)' = Using(Consumers)
      /\ Using(Threads)' = Using(Threads)
      /\ \A u \in Threads : pc'[u] = "transfer" <=> pc[u] = "transfer"
  BY <1>1, <1>2 DEF Using, Threads
<1>. USE DEF Tickets
<1>4. TicketsOut'
  BY <1>1, <1>2, <1>3 DEF TicketsOut
<1>5. TicketsSeen'
  BY <1>1, <1>2 DEF TicketsSeen, Ready, End
<1>6. SequenceTells'
  BY <1>1, <1>2, <1>3 DEF SequenceTells, Ready
<1>7. StorageTells'
  BY <1>1, <1>2, <1>3 DEF StorageTells, Threads
<1>. QED  BY <1>4, <1>5, <1>6, <1>7

\* A producer claims the ticket head: the slot was handed back by the consumer
\* of the lap before, so at most Capacity tickets are out afterwards.
LEMMA ClaimPush ==
  ASSUME MpmcOnly, TypeOK, TypeOK', Tickets, NEW t \in Producers, Claim(t)
  PROVE  Tickets'
<1>. USE Numbers
<1>1. /\ pc[t] = "claim" /\ loc[t] = head
      /\ sequence[Slot(head)] = head
      /\ pc' = [pc EXCEPT ![t] = "transfer"]
      /\ UNCHANGED <<sequence, storage, loc>>
  BY DEF Claim, Goto, Tickets, TicketsSeen, Ready, head
<1>2. head' = head + 1 /\ tail' = tail
  BY <1>1 DEF Claim, head, tail, TypeOK, Side
<1>3. /\ Using(Producers)' = Using(Producers) \union {t}
      /\ Using(Consumers)' = Using(Consumers)
      /\ Using(Threads)' = Using(Threads) \union {t}
      /\ t \notin Using(Producers)
  <2>1. /\ \A u \in Threads : u # t => pc'[u] = pc[u]
        /\ pc'[t] = "transfer" /\ t \notin Consumers
    BY <1>1, ThreadAssumption DEF TypeOK, Threads
  <2>. QED  BY <1>1, <2>1 DEF Using, Threads
<1>4. /\ \A p \in Using(Producers) : sequence[Slot(loc[p])] = loc[p]
      /\ \A c \in Using(Consumers) : sequence[Slot(loc[c])] = loc[c] + 1
  BY DEF Tickets, SequenceTells, Ready, Using
<1>5. head # tail + Capacity
  <2>. SUFFICES ASSUME head = tail + Capacity PROVE FALSE
    OBVIOUS
  <2>1. Slot(tail) = Slot(head)
    BY SlotNextLap
  <2>2. sequence[Slot(tail)] = tail + 1 \/ \E p \in Using(Producers) : loc[p] = tail
    BY DEF Tickets, SequenceTells
  <2>3. sequence[Slot(tail)] = tail + 1 \/ sequence[Slot(tail)] = tail
    BY <1>4, <2>2
  <2>. QED  BY <1>1, <2>1, <2>3 DEF MpmcOnly
<1>6. \A c \in Using(Consumers) : loc[c] + Capacity # head
  <2>. SUFFICES ASSUME NEW c \in Using(Consumers), loc[c] + Capacity = head
                PROVE  FALSE
    OBVIOUS
  <2>1. c \in Threads
    BY DEF Using
  <2>2. Slot(loc[c]) = Slot(head)
    BY <2>1, SlotNextLap
  <2>. QED  BY <1>1, <1>4, <2>1, <2>2 DEF MpmcOnly
<1>7. TicketsOut'
  BY <1>1, <1>2, <1>3, <1>5, <1>6 DEF Tickets, TicketsOut, Using
<1>8. TicketsSeen'
  <2>1. \A u \in Threads : u # t => pc'[u] = pc[u]
    BY <1>1 DEF TypeOK
  <2>2. /\ pos'["head"] = head + 1 /\ pos'["tail"] = tail
        /\ pos["head"] = head /\ pos["tail"] = tail
    BY <1>2 DEF head, tail
  <2>3. pc'[t] = "transfer"
    BY <1>1 DEF TypeOK
  <2>. QED  BY <1>1, <2>1, <2>2, <2>3 DEF Tickets, TicketsSeen, Ready
<1>9. SequenceTells'
  <2>1. \A u \in Using(Threads)' : sequence'[Slot(loc'[u])] = Ready(u)'
    BY <1>1, <1>3 DEF Tickets, SequenceTells, Ready
  <2>. QED  BY <1>1, <1>2, <1>3, <2>1 DEF Tickets, SequenceTells
<1>10. StorageTells'
  <2>. USE DEF Tickets, StorageTells
  <2>1. /\ pc'[t] = "transfer"
        /\ \A u \in Threads : u # t => pc'[u] = pc[u]
    BY <1>1 DEF TypeOK
  <2>2. storage[Slot(head)] = None
    <3>1. \/ storage[Slot(head)] = None
          \/ \E c \in Consumers : pc[c] = "transfer" /\ loc[c] = head - Capacity
      BY <1>5 DEF TicketsOut
    <3>. QED  BY <1>6, <3>1 DEF Using
  <2>. QED  BY <1>1, <1>2, <2>1, <2>2
<1>. QED  BY <1>7, <1>8, <1>9, <1>10 DEF Tickets

\* A consumer claims the ticket tail: its producer has published it.
LEMMA ClaimPop ==
  ASSUME MpmcOnly, TypeOK, TypeOK', Tickets, NEW t \in Consumers, Claim(t)
  PROVE  Tickets'
<1>. USE Numbers
<1>1. /\ pc[t] = "claim" /\ loc[t] = tail
      /\ sequence[Slot(tail)] = tail + 1
      /\ pc' = [pc EXCEPT ![t] = "transfer"]
      /\ UNCHANGED <<sequence, storage, loc>>
  BY DEF Claim, Goto, Tickets, TicketsSeen, Ready, tail
<1>2. head' = head /\ tail' = tail + 1
  BY <1>1 DEF Claim, head, tail, TypeOK, Side
<1>3. /\ Using(Producers)' = Using(Producers)
      /\ Using(Consumers)' = Using(Consumers) \union {t}
      /\ Using(Threads)' = Using(Threads) \union {t}
      /\ t \notin Using(Consumers)
  BY <1>1 DEF Using, TypeOK
<1>4. /\ \A p \in Using(Producers) : sequence[Slot(loc[p])] = loc[p]
      /\ \A c \in Using(Consumers) : sequence[Slot(loc[c])] = loc[c] + 1
  BY DEF Tickets, SequenceTells, Ready, Using
<1>5. tail # head
  <2>. SUFFICES ASSUME tail = head PROVE FALSE
    OBVIOUS
  <2>1. PICK c \in Using(Consumers) : loc[c] = tail - Capacity
    BY <1>1 DEF Tickets, SequenceTells
  <2>2. c \in Threads
    BY DEF Using
  <2>3. Slot(loc[c]) = Slot(tail)
    BY <2>1, <2>2, SlotNextLap
  <2>. QED  BY <1>1, <1>4, <2>1, <2>2, <2>3
<1>6. \A p \in Using(Producers) : loc[p] # tail
  BY <1>1, <1>4
<1>7. TicketsOut'
  BY <1>1, <1>2, <1>3, <1>5, <1>6 DEF Tickets, TicketsOut, Using
<1>8. TicketsSeen'
  <2>1. \A u \in Threads : u # t => pc'[u] = pc[u]
    BY <1>1 DEF TypeOK
  <2>2. /\ pos'["head"] = head /\ pos'["tail"] = tail + 1
        /\ pos["head"] = head /\ pos["tail"] = tail
    BY <1>2 DEF head, tail
  <2>3. pc'[t] = "transfer"
    BY <1>1 DEF TypeOK
  <2>. QED  BY <1>1, <2>1, <2>2, <2>3 DEF Tickets, TicketsSeen, Ready
<1>9. SequenceTells'
  <2>1. \A u \in Using(Threads)' : sequence'[Slot(loc'[u])] = Ready(u)'
    BY <1>1, <1>3 DEF Tickets, SequenceTells, Ready
  <2>. QED  BY <1>1, <1>2, <1>3, <2>1 DEF Tickets, SequenceTells
<1>10. StorageTells'
  <2>. USE DEF Tickets, StorageTells
  <2>1. /\ pc'[t] = "transfer"
        /\ \A u \in Threads : u # t => pc'[u] = pc[u]
    BY <1>1 DEF TypeOK
  <2>2. storage[Slot(tail)] # None
    <3>1. \/ storage[Slot(tail)] # None
          \/ \E p \in Producers : pc[p] = "transfer" /\ loc[p] = tail
      BY <1>5 DEF TicketsOut
    <3>. QED  BY <1>6, <3>1 DEF Using
  <2>. QED  BY <1>1, <1>2, <2>1, <2>2
<1>. QED  BY <1>7, <1>8, <1>9, <1>10 DEF Tickets

\* The value is moved in a slot no other thread is in.
LEMMA TransferStep ==
  ASSUME TypeOK, TypeOK', Tickets, NEW t \in Threads, Transfer(t)
  PROVE  Tickets'
<1>. USE Numbers
<1>. DEFINE s == Slot(loc[t])
<1>1. /\ pc[t] = "transfer" /\ pc' = [pc EXCEPT ![t] = "publish"]
      /\ pc'[t] = "publish" /\ \A u \in Threads : u # t => pc'[u] = pc[u]
      /\ UNCHANGED <<pos, sequence, loc>>
      /\ head' = head /\ tail' = tail
  BY DEF Transfer, Goto, TypeOK, head, tail
<1>2. /\ Using(Producers)' = Using(Producers)
      /\ Using(Consumers)' = Using(Consumers)
      /\ Using(Threads)' = Using(Threads)
      /\ t \in Using(Threads)
  BY <1>1 DEF Using
<1>3. s \in 0 .. Capacity - 1
  BY SlotInBuffer
<1>4. /\ \A i \in 0 .. Capacity - 1 : i # s => storage'[i] = storage[i]
      /\ t \in Producers => storage'[s] # None
      /\ t \in Consumers => storage'[s] = None
  <2>1. CASE t \in Producers
    <3>1. storage' = [storage EXCEPT ![s] = <<t, sent[t] + 1>>]
      BY <2>1 DEF Transfer
    <3>2. sent[t] + 1 \in 1 .. MaxPushes
      BY <1>1, <2>1, ThreadAssumption DEF TypeOK, InCall
    <3>3. <<t, sent[t] + 1>> # None
      BY <2>1, <3>2, ThreadAssumption DEF Values
    <3>. QED  BY <1>3, <2>1, <3>1, <3>3 DEF TypeOK
  <2>2. CASE t \in Consumers
    BY <1>3, <2>2 DEF Transfer, TypeOK
  <2>. QED  BY <2>1, <2>2
<1>5. \A u \in Threads : pc[u] = "transfer" /\ u # t => Slot(loc[u]) # s
  BY <1>1, <1>2, ProtocolExclusion DEF Tickets, SlotExclusion, Using
<1>6. \A u \in Threads : Slot(loc[u]) \in 0 .. Capacity - 1
  BY SlotInBuffer
<1>7. StorageTells'
  <2>1. \A u \in Threads : pc'[u] = "transfer" =>
          /\ u # t /\ pc[u] = "transfer"
          /\ storage'[Slot(loc[u])] = storage[Slot(loc[u])]
    BY <1>1, <1>4, <1>5, <1>6
  <2>2. ASSUME NEW n \in tail .. head - 1
        PROVE  \/ storage'[Slot(n)] # None
               \/ \E p \in Producers : pc'[p] = "transfer" /\ loc[p] = n
    <3>0. n \in Nat /\ Slot(n) \in 0 .. Capacity - 1
      BY SlotInBuffer
    <3>1. CASE Slot(n) = s
      <4>1. CASE t \in Producers
        BY <1>4, <3>1, <4>1
      <4>2. CASE t \in Consumers
        <5>1. loc[t] < n /\ n < loc[t] + Capacity
          BY <1>1, <3>0, <4>2 DEF Tickets, TicketsOut, Using
        <5>. QED  BY <3>0, <3>1, <5>1, SlotsApart
      <4>. QED  BY <4>1, <4>2
    <3>2. CASE Slot(n) # s
      BY <1>1, <1>4, <3>0, <3>2 DEF Tickets, StorageTells
    <3>. QED  BY <3>1, <3>2
  <2>3. ASSUME NEW n \in head .. tail + Capacity - 1
        PROVE  \/ storage'[Slot(n)] = None
               \/ \E c \in Consumers : pc'[c] = "transfer" /\ loc[c] = n - Capacity
    <3>0. n \in Nat /\ Slot(n) \in 0 .. Capacity - 1
      BY SlotInBuffer
    <3>1. CASE Slot(n) = s
      <4>1. CASE t \in Producers
        <5>1. loc[t] < n /\ n < loc[t] + Capacity
          BY <1>1, <3>0, <4>1 DEF Tickets, TicketsOut, Using
        <5>. QED  BY <3>0, <3>1, <5>1, SlotsApart
      <4>2. CASE t \in Consumers
        BY <1>4, <3>1, <4>2
      <4>. QED  BY <4>1, <4>2
    <3>2. CASE Slot(n) # s
      <4>1. \A c \in Consumers : loc[c] = n - Capacity => Slot(loc[c]) = Slot(n)
        <5>. SUFFICES ASSUME NEW c \in Consumers, loc[c] = n - Capacity
                      PROVE  Slot(loc[c]) = Slot(n)
          OBVIOUS
        <5>1. loc[c] \in Nat /\ n = loc[c] + Capacity
          BY <3>0
        <5>. QED  BY <5>1, SlotNextLap
      <4>. QED  BY <1>1, <1>4, <3>0, <3>2, <4>1 DEF Tickets, StorageTells
    <3>. QED  BY <3>1, <3>2
  <2>. QED  BY <1>1, <2>1, <2>2, <2>3 DEF Tickets, StorageTells
<1>8. TicketsOut' /\ TicketsSeen' /\ SequenceTells'
  BY <1>1, <1>2 DEF Tickets, TicketsOut, TicketsSeen, SequenceTells, Ready
<1>. QED  BY <1>7, <1>8 DEF Tickets

\* The slot is handed over: by a producer to the consumer of the same ticket,
\* by a consumer to the producer of the ticket a lap later.
LEMMA PublishStep ==
  ASSUME MpmcOnly, TypeOK, TypeOK', OnlyMpmc, Tickets, NEW t \in Threads, Publish(t)
  PROVE  Tickets'
<1>. USE Numbers
<1>. DEFINE s == Slot(loc[t])
<1>1. /\ pc[t] = "publish" /\ pc' = [pc EXCEPT ![t] = "notify"]
      /\ pc'[t] = "notify" /\ \A u \in Threads : u # t => pc'[u] = pc[u]
      /\ UNCHANGED <<pos, storage, loc>>
      /\ head' = head /\ tail' = tail
  BY DEF Publish, Goto, TypeOK, OnlyMpmc, head, tail
<1>2. /\ Using(Producers)' = Using(Producers) \ {t}
      /\ Using(Consumers)' = Using(Consumers) \ {t}
      /\ Using(Threads)' = Using(Threads) \ {t}
      /\ t \in Using(Threads)
      /\ t \in Using(Producers) \/ t \in Using(Consumers)
  BY <1>1 DEF Using
<1>3. s \in 0 .. Capacity - 1 /\ \A u \in Threads : Slot(loc[u]) \in 0 .. Capacity - 1
  BY SlotInBuffer
<1>4. /\ \A i \in 0 .. Capacity - 1 : i # s => sequence'[i] = sequence[i]
      /\ sequence'[s] = Done(t)
      /\ sequence[s] = Ready(t)
  BY <1>2, <1>3 DEF Publish, TypeOK, Tickets, SequenceTells
<1>5. \A u \in Using(Threads) : u # t => Slot(loc[u]) # s
  BY <1>2, ProtocolExclusion DEF Tickets, SlotExclusion
<1>6. TicketsOut'
  BY <1>1, <1>2 DEF Tickets, TicketsOut
<1>7. TicketsSeen'
  <2>1. \A u \in Threads : pc'[u] \in {"check", "claim"} => loc[u] <= pos[End(u)]
    BY <1>1 DEF Tickets, TicketsSeen
  <2>2. ASSUME NEW u \in Threads, pc'[u] = "claim", loc[u] = pos[End(u)]
        PROVE  sequence'[Slot(loc[u])] = Ready(u)
    <3>1. u # t /\ sequence[Slot(loc[u])] = Ready(u)
      BY <1>1, <2>2 DEF Tickets, TicketsSeen
    <3>2. CASE Slot(loc[u]) = s
      <4>1. Ready(u) = Ready(t)
        BY <1>4, <3>1, <3>2
      <4>2. CASE u \in Producers /\ t \in Producers
        BY <1>1, <1>2, <2>2, <4>1, <4>2
        DEF Ready, Tickets, TicketsOut, Using, head
      <4>3. CASE u \in Consumers /\ t \in Consumers
        BY <1>1, <1>2, <2>2, <4>1, <4>3
        DEF Ready, Tickets, TicketsOut, Using, tail
      <4>4. CASE u \in Producers /\ t \in Consumers
        <5>1. loc[u] = loc[t] + 1
          BY <4>1, <4>4 DEF Ready
        <5>. QED  BY <3>2, <5>1, SlotsApart DEF MpmcOnly
      <4>5. CASE u \in Consumers /\ t \in Producers
        <5>1. loc[t] = loc[u] + 1
          BY <4>1, <4>5 DEF Ready
        <5>. QED  BY <3>2, <5>1, SlotsApart DEF MpmcOnly
      <4>. QED  BY <4>2, <4>3, <4>4, <4>5
    <3>3. CASE Slot(loc[u]) # s
      BY <1>3, <1>4, <3>1, <3>3
    <3>. QED  BY <3>2, <3>3
  <2>. QED  BY <1>1, <2>1, <2>2 DEF TicketsSeen, Ready
<1>8. SequenceTells'
  <2>1. \A u \in Using(Threads)' : sequence'[Slot(loc[u])] = Ready(u)
    <3>1. \A u \in Using(Threads) : u \in Threads /\ sequence[Slot(loc[u])] = Ready(u)
      BY DEF Tickets, SequenceTells, Using
    <3>. QED  BY <1>2, <1>3, <1>4, <1>5, <3>1
  <2>2. ASSUME NEW n \in tail .. head - 1
        PROVE  \/ sequence'[Slot(n)] = n + 1
               \/ \E p \in Using(Producers)' : loc[p] = n
    <3>0. n \in Nat /\ Slot(n) \in 0 .. Capacity - 1
      BY SlotInBuffer
    <3>1. CASE n = loc[t]
      <4>1. t \in Producers
        BY <1>2, <3>0, <3>1 DEF Tickets, TicketsOut, Using
      <4>. QED  BY <1>4, <3>1, <4>1 DEF Done
    <3>2. CASE n # loc[t]
      <4>1. n < loc[t] + Capacity /\ loc[t] < n + Capacity
        BY <1>2, <3>0 DEF Tickets, TicketsOut
      <4>2. Slot(n) # s
        BY <3>0, <3>2, <4>1, SlotsApart
      <4>3. sequence'[Slot(n)] = sequence[Slot(n)]
        BY <1>4, <3>0, <4>2
      <4>. QED  BY <1>2, <3>2, <4>3 DEF Tickets, SequenceTells
    <3>. QED  BY <3>1, <3>2
  <2>3. ASSUME NEW n \in head .. tail + Capacity - 1
        PROVE  \/ sequence'[Slot(n)] = n
               \/ \E c \in Using(Consumers)' : loc[c] = n - Capacity
    <3>0. n \in Nat /\ Slot(n) \in 0 .. Capacity - 1
      BY SlotInBuffer
    <3>1. CASE t \in Using(Consumers) /\ n = loc[t] + Capacity
      <4>1. Slot(n) = s
        BY <3>1, SlotNextLap
      <4>. QED  BY <1>4, <3>1, <4>1 DEF Done, Using
    <3>2. CASE t \in Using(Consumers) /\ n # loc[t] + Capacity
      <4>1. /\ n < (loc[t] + Capacity) + Capacity
            /\ loc[t] + Capacity < n + Capacity
            /\ loc[t] + Capacity \in Nat
        BY <3>0, <3>2 DEF Tickets, TicketsOut
      <4>2. Slot(n) # Slot(loc[t] + Capacity)
        BY <3>0, <3>2, <4>1, SlotsApart
      <4>3. Slot(n) # s
        BY <4>2, SlotNextLap
      <4>4. sequence'[Slot(n)] = sequence[Slot(n)]
        BY <1>4, <3>0, <4>3
      <4>. QED  BY <1>2, <3>0, <3>2, <4>4 DEF Tickets, SequenceTells
    <3>3. CASE t \in Using(Producers)
      <4>1. loc[t] < n /\ n < loc[t] + Capacity
        BY <3>0, <3>3 DEF Tickets, TicketsOut
      <4>2. Slot(n) # s
        BY <3>0, <4>1, SlotsApart
      <4>3. sequence'[Slot(n)] = sequence[Slot(n)]
        BY <1>4, <3>0, <4>2
      <4>4. t \notin Using(Consumers)
        BY <3>3 DEF Using
      <4>. QED  BY <1>2, <3>0, <4>3, <4>4 DEF Tickets, SequenceTells
    <3>. QED  BY <1>2, <3>1, <3>2, <3>3
  <2>. QED  BY <1>1, <2>1, <2>2, <2>3 DEF SequenceTells, Ready
<1>9. StorageTells'
  BY <1>1 DEF Tickets, StorageTells, Threads
<1>. QED  BY <1>6, <1>7, <1>8, <1>9 DEF Tickets

LEMMA ProtocolInit == MpmcOnly /\ Init => OnlyMpmc /\ Tickets
<1>. SUFFICES ASSUME MpmcOnly, Init PROVE OnlyMpmc /\ Tickets
  OBVIOUS
<1>1. /\ \A t \in Threads : pc[t] = "idle" /\ path[t] = "mpmc"
      /\ head = 0 /\ tail = 0 /\ Capacity \in Nat /\ Capacity > 1
      /\ Using(Threads) = {} /\ Using(Producers) = {} /\ Using(Consumers) = {}
  BY CapacityAssumption DEF MpmcOnly, Init, head, tail, Side, Using, Threads
<1>2. \A n \in 0 .. Capacity - 1 : Slot(n) = n
  BY <1>1 DEF Slot
<1>3. \A n \in 0 .. Capacity - 1 : sequence[Slot(n)] = n /\ storage[Slot(n)] = None
  BY <1>2 DEF Init
<1>4. OnlyMpmc
  BY <1>1 DEF OnlyMpmc, Init, MpmcOnly
<1>5. TicketsOut
  BY <1>1 DEF TicketsOut
<1>6. TicketsSeen
  BY <1>1 DEF TicketsSeen
<1>7. SequenceTells
  BY <1>1, <1>3 DEF SequenceTells
<1>8. StorageTells
  BY <1>1, <1>3 DEF StorageTells, Threads
<1>. QED  BY <1>4, <1>5, <1>6, <1>7, <1>8 DEF Tickets

LEMMA ProtocolStep ==
  ASSUME MpmcOnly, SlotProtocol, [Next]_vars
  PROVE  SlotProtocol'
<1>1. TypeOK /\ OnlyMpmc /\ Tickets
  BY DEF SlotProtocol, Tickets
<1>2. TypeOK' /\ OnlyMpmc'
  BY <1>1, TypeStep, ModeStep
<1>3. Tickets'
  <2>0. CASE UNCHANGED vars
    BY <1>1, <2>0
    DEF vars, shared, Tickets, TicketsOut, TicketsSeen, SequenceTells,
        StorageTells, Using, Ready, head, tail
  <2>1. ASSUME NEW t \in Threads, Step(t) PROVE Tickets'
    <3>1. CASE \/ ChoosePath(t) \/ Load(t) \/ CheckStale(t) \/ CheckFails(t)
               \/ ClaimFails(t) \/ Notify(t) \/ Block(t)
      BY <1>1, <1>2, <3>1, QuietSteps
    <3>2. CASE CheckReady(t)
      BY <1>1, <1>2, <3>2, ReadyStep
    <3>3. CASE Claim(t)
      BY <1>1, <1>2, <3>3, ClaimPush, ClaimPop DEF Threads
    <3>4. CASE Transfer(t)
      BY <1>1, <1>2, <3>4, TransferStep
    <3>5. CASE Publish(t)
      BY <1>1, <1>2, <3>5, PublishStep
    <3>6. ~Advance(t)
      BY <1>1 DEF Advance, OnlyMpmc
    <3>. QED  BY <2>1, <3>1, <3>2, <3>3, <3>4, <3>5, <3>6 DEF Step, UseSlot
  <2>. QED  BY <2>0, <2>1 DEF Next
<1>. QED  BY <1>2, <1>3 DEF SlotProtocol, Tickets

\* On the MPMC path the slot protocol is an invariant, for any number of
\* threads, blocking or not, and any capacity above one.
THEOREM ProtocolCorrect ==
  ASSUME MpmcOnly
  PROVE  Spec => []SlotProtocol
<1>1. Init => SlotProtocol
  BY TypeInit, ProtocolInit DEF SlotProtocol, Tickets
<1>2. SlotProtocol /\ [Next]_vars => SlotProtocol'
  BY ProtocolStep
<1>. QED  BY <1>1, <1>2, PTL DEF Spec

\* Hence no two threads are ever in the same slot.
THEOREM SlotExclusionCorrect ==
  ASSUME MpmcOnly
  PROVE  Spec => []SlotExclusion
<1>1. SlotProtocol => SlotExclusion
  BY ProtocolExclusion DEF SlotProtocol
<1>. QED  BY <1>1, ProtocolCorrect, PTL

\* Hence a value is constructed only where none is alive and moved out only
\* where one is: nothing is overwritten and nothing is taken twice.
THEOREM SlotLifetimeCorrect ==
  ASSUME MpmcOnly
  PROVE  Spec => []SlotLifetime
<1>1. SlotProtocol => SlotLifetime
  BY ProtocolLifetime DEF SlotProtocol
<1>. QED  BY <1>1, ProtocolCorrect, PTL

-----------------------------------------------------------------------------
(* On its MPMC path RingBufferQueue implements FifoQueue. *)

Items == Values \union {None}

\* Appending and removing, for sequences given element by element.
LEMMA AppendByElement ==
  ASSUME NEW f \in Seq(Items), NEW g \in Seq(Items), Len(g) = Len(f) + 1,
         \A i \in 1 .. Len(f) : g[i] = f[i]
  PROVE  g = Append(f, g[Len(g)])
<1>1. Len(f) \in Nat /\ g[Len(g)] \in Items
  BY LenProperties, ElementOfSeq
<1>2. /\ Append(f, g[Len(g)]) \in Seq(Items)
      /\ Len(Append(f, g[Len(g)])) = Len(f) + 1
      /\ \A i \in 1 .. Len(f) : Append(f, g[Len(g)])[i] = f[i]
      /\ Append(f, g[Len(g)])[Len(f) + 1] = g[Len(g)]
  BY <1>1
<1>3. \A i \in 1 .. Len(g) : g[i] = Append(f, g[Len(g)])[i]
  BY <1>1, <1>2
<1>. QED  BY <1>2, <1>3, SeqEqual

LEMMA TailByElement ==
  ASSUME NEW f \in Seq(Items), NEW g \in Seq(Items), Len(f) = Len(g) + 1,
         \A i \in 1 .. Len(g) : g[i] = f[i + 1]
  PROVE  f # <<>> /\ g = Tail(f)
<1>1. Len(g) \in Nat /\ Len(f) \in Nat
  BY LenProperties
<1>2. f # <<>>
  BY <1>1
<1>3. /\ Tail(f) \in Seq(Items)
      /\ Len(Tail(f)) = Len(f) - 1
      /\ \A i \in 1 .. Len(Tail(f)) : Tail(f)[i] = f[i + 1]
  BY <1>2, HeadTailProperties
<1>4. \A i \in 1 .. Len(g) : g[i] = Tail(f)[i]
  BY <1>1, <1>3
<1>. QED  BY <1>1, <1>2, <1>3, <1>4, SeqEqual

-----------------------------------------------------------------------------
(* The refinement mapping on the MPMC path. *)

\* No SPSC operation is under way, so the tickets held are tail .. head - 1
\* and a thread has claimed a ticket iff it is about to move its value.
LEMMA MappingSimple ==
  ASSUME TypeOK, OnlyMpmc
  PROVE  /\ FirstTicket = tail /\ NextTicket = head
         /\ \A t \in Threads : Claimed(t) <=> pc[t] = "transfer"
<1>1. \A S : S \subseteq Threads =>
        {t \in S : path[t] = "spsc" /\ pc[t] \in {"publish", "advance"}} = {}
  BY DEF OnlyMpmc
<1>2. Ahead(Consumers) = 0 /\ Ahead(Producers) = 0
  BY <1>1, FS_EmptySet DEF Ahead, Threads
<1>3. pos["head"] + 0 = pos["head"] /\ pos["tail"] + 0 = pos["tail"]
  BY DEF TypeOK, Side
<1>. QED  BY <1>2, <1>3 DEF FirstTicket, NextTicket, head, tail, OnlyMpmc, Claimed

\* The value of a ticket is still with the producer that claimed it, or it is
\* in the ticket's slot.
LEMMA TicketValues ==
  ASSUME TypeOK, OnlyMpmc, TicketsOut, NEW n \in Nat
  PROVE  /\ \A p \in Producers : pc[p] = "transfer" /\ loc[p] = n =>
              TicketValue(n) = <<p, sent[p] + 1>>
         /\ (\A p \in Producers : pc[p] = "transfer" => loc[p] # n) =>
              TicketValue(n) = storage[Slot(n)]
<1>1. \A p \in Producers : Claimed(p) <=> pc[p] = "transfer"
  BY MappingSimple DEF Threads
<1>2. ASSUME NEW p \in Producers, pc[p] = "transfer", loc[p] = n
      PROVE  TicketValue(n) = <<p, sent[p] + 1>>
  <2>. DEFINE q == CHOOSE q \in Producers : Claimed(q) /\ loc[q] = n
  <2>1. q \in Producers /\ Claimed(q) /\ loc[q] = n
    BY <1>1, <1>2
  <2>2. q = p
    BY <1>1, <1>2, <2>1 DEF TicketsOut, Using
  <2>. QED  BY <1>1, <1>2, <2>2 DEF TicketValue
<1>3. ASSUME \A p \in Producers : pc[p] = "transfer" => loc[p] # n
      PROVE  TicketValue(n) = storage[Slot(n)]
  BY <1>1, <1>3 DEF TicketValue
<1>. QED  BY <1>2, <1>3

\* The queue that is held, element by element.
LEMMA QueueElements ==
  ASSUME TypeOK, OnlyMpmc, TicketsOut
  PROVE  /\ QueueOf \in Seq(Items)
         /\ Len(QueueOf) = head - tail
         /\ \A i \in 1 .. head - tail : QueueOf[i] = TicketValue(tail + i - 1)
<1>. USE Numbers
<1>1. head - tail \in Nat
  BY DEF TicketsOut
<1>2. QueueOf = [i \in 1 .. head - tail |-> TicketValue(tail + i - 1)]
  BY MappingSimple DEF QueueOf
<1>3. ASSUME NEW i \in 1 .. head - tail
      PROVE  TicketValue(tail + i - 1) \in Items
  <2>1. tail + i - 1 \in Nat
    BY <1>1
  <2>2. CASE \E p \in Producers : pc[p] = "transfer" /\ loc[p] = tail + i - 1
    <3>1. PICK p \in Producers : pc[p] = "transfer" /\ loc[p] = tail + i - 1
      BY <2>2
    <3>2. TicketValue(tail + i - 1) = <<p, sent[p] + 1>>
      BY <2>1, <3>1, TicketValues
    <3>3. sent[p] + 1 \in 1 .. MaxPushes
      BY <3>1, ThreadAssumption DEF TypeOK, InCall
    <3>. QED  BY <3>2, <3>3 DEF Items, Values
  <2>3. CASE \A p \in Producers : pc[p] = "transfer" => loc[p] # tail + i - 1
    <3>1. TicketValue(tail + i - 1) = storage[Slot(tail + i - 1)]
      BY <2>1, <2>3, TicketValues
    <3>2. Slot(tail + i - 1) \in 0 .. Capacity - 1
      BY <2>1, SlotInBuffer
    <3>. QED  BY <3>1, <3>2 DEF TypeOK, Items
  <2>. QED  BY <2>2, <2>3
<1>4. QueueOf \in [1 .. head - tail -> Items]
  BY <1>2, <1>3
<1>5. QueueOf \in Seq(Items)
  BY <1>1, <1>4, SeqDef
<1>6. Len(QueueOf) = head - tail
  <2>1. Len(QueueOf) \in Nat /\ DOMAIN QueueOf = 1 .. Len(QueueOf)
    BY <1>5, LenProperties
  <2>2. DOMAIN QueueOf = 1 .. head - tail
    BY <1>4
  <2>. QED  BY <1>1, <2>1, <2>2
<1>. QED  BY <1>2, <1>5, <1>6

\* What producers and consumers are seen to have done.
LEMMA CountsSimple ==
  ASSUME TypeOK, OnlyMpmc
  PROVE  /\ AcceptedOf = [p \in Producers |->
              IF pc[p] = "transfer" THEN sent[p] + 1 ELSE sent[p]]
         /\ TakenOf = [c \in Consumers |->
              IF pc[c] = "transfer" THEN Append(got[c], storage[Slot(loc[c])])
                                    ELSE got[c]]
BY MappingSimple DEF AcceptedOf, TakenOf, Threads

\* What the refinement mapping is on the MPMC path.
Mapping ==
  /\ QueueOf \in Seq(Items)
  /\ Len(QueueOf) = head - tail
  /\ \A i \in 1 .. head - tail : QueueOf[i] = TicketValue(tail + i - 1)
  /\ \A n \in Nat :
       /\ \A p \in Producers : pc[p] = "transfer" /\ loc[p] = n =>
            TicketValue(n) = <<p, sent[p] + 1>>
       /\ (\A p \in Producers : pc[p] = "transfer" => loc[p] # n) =>
            TicketValue(n) = storage[Slot(n)]
  /\ AcceptedOf = [p \in Producers |->
       IF pc[p] = "transfer" THEN sent[p] + 1 ELSE sent[p]]
  /\ TakenOf = [c \in Consumers |->
       IF pc[c] = "transfer" THEN Append(got[c], storage[Slot(loc[c])])
                             ELSE got[c]]

\* The two ways a ticket's value is found.
LEMMA ValueHeld ==
  ASSUME Mapping, NEW n \in Nat, NEW p \in Producers, pc[p] = "transfer", loc[p] = n
  PROVE  TicketValue(n) = <<p, sent[p] + 1>>
BY DEF Mapping

LEMMA ValueHeldNext ==
  ASSUME Mapping', NEW n \in Nat, NEW p \in Producers, pc'[p] = "transfer", loc'[p] = n
  PROVE  TicketValue(n)' = <<p, sent'[p] + 1>>
BY DEF Mapping

LEMMA ValueStored ==
  ASSUME Mapping, NEW n \in Nat,
         \A p \in Producers : pc[p] = "transfer" => loc[p] # n
  PROVE  TicketValue(n) = storage[Slot(n)]
BY DEF Mapping

LEMMA ValueStoredNext ==
  ASSUME Mapping', NEW n \in Nat,
         \A p \in Producers : pc'[p] = "transfer" => loc'[p] # n
  PROVE  TicketValue(n)' = storage'[Slot(n)]
BY DEF Mapping

\* The counts, before a step and after it.
LEMMA Counts ==
  ASSUME Mapping
  PROVE  /\ AcceptedOf = [p \in Producers |->
              IF pc[p] = "transfer" THEN sent[p] + 1 ELSE sent[p]]
         /\ TakenOf = [c \in Consumers |->
              IF pc[c] = "transfer" THEN Append(got[c], storage[Slot(loc[c])])
                                    ELSE got[c]]
BY DEF Mapping

LEMMA CountsNext ==
  ASSUME Mapping'
  PROVE  /\ AcceptedOf' = [p \in Producers |->
              IF pc'[p] = "transfer" THEN sent'[p] + 1 ELSE sent'[p]]
         /\ TakenOf' = [c \in Consumers |->
              IF pc'[c] = "transfer" THEN Append(got'[c], storage'[Slot(loc'[c])])
                                     ELSE got'[c]]
BY DEF Mapping

LEMMA SameAccepted ==
  ASSUME Mapping, Mapping',
         \A p \in Producers : (pc'[p] = "transfer" <=> pc[p] = "transfer")
                              /\ sent'[p] = sent[p]
  PROVE  AcceptedOf' = AcceptedOf
<1>1. ASSUME NEW p \in Producers
      PROVE  (IF pc'[p] = "transfer" THEN sent'[p] + 1 ELSE sent'[p])
               = (IF pc[p] = "transfer" THEN sent[p] + 1 ELSE sent[p])
  OBVIOUS
<1>. QED  BY <1>1, Counts, CountsNext

LEMMA SameTaken ==
  ASSUME Mapping, Mapping',
         \A c \in Consumers :
           /\ pc'[c] = "transfer" <=> pc[c] = "transfer"
           /\ pc[c] = "transfer" => storage'[Slot(loc'[c])] = storage[Slot(loc[c])]
           /\ got'[c] = got[c]
  PROVE  TakenOf' = TakenOf
<1>1. ASSUME NEW c \in Consumers
      PROVE  (IF pc'[c] = "transfer" THEN Append(got'[c], storage'[Slot(loc'[c])])
                                     ELSE got'[c])
               = (IF pc[c] = "transfer" THEN Append(got[c], storage[Slot(loc[c])])
                                        ELSE got[c])
  <2>1. CASE pc[c] = "transfer"
    BY <2>1
  <2>2. CASE pc[c] # "transfer"
    BY <2>2
  <2>. QED  BY <2>1, <2>2
<1>. QED  BY <1>1, Counts, CountsNext

LEMMA MappingHolds == SlotProtocol => Mapping
BY TicketValues, QueueElements, CountsSimple DEF Mapping, SlotProtocol

-----------------------------------------------------------------------------
(* Each step is a step of FifoQueue or leaves its variables alone. *)

\* Mapping', read off for one element.
LEMMA NextElement ==
  ASSUME Mapping', NEW i \in 1 .. head' - tail'
  PROVE  QueueOf'[i] = TicketValue(tail + i - 1)'
BY DEF Mapping

\* The queue is the same when its tickets are and their values are.
LEMMA SameQueue ==
  ASSUME Mapping, Mapping', head \in Nat, tail \in Nat,
         head' = head, tail' = tail,
         \A n \in tail .. head - 1 : TicketValue(n)' = TicketValue(n)
  PROVE  QueueOf' = QueueOf
<1>1. \A i \in 1 .. head - tail : QueueOf'[i] = QueueOf[i]
  BY DEF Mapping
<1>. QED  BY <1>1, SeqEqual DEF Mapping

\* Steps between the claim and the move of a value change nothing.
LEMMA StutterQuiet ==
  ASSUME SlotProtocol, SlotProtocol', Mapping, Mapping', NEW t \in Threads,
         \/ ChoosePath(t) \/ Load(t) \/ CheckReady(t) \/ CheckStale(t)
         \/ CheckFails(t) \/ ClaimFails(t) \/ Publish(t) \/ Advance(t)
         \/ Notify(t) \/ Block(t)
  PROVE  UNCHANGED <<QueueOf, AcceptedOf, TakenOf>>
<1>0. TypeOK /\ TypeOK' /\ OnlyMpmc /\ head \in Nat /\ tail \in Nat
  BY Numbers DEF SlotProtocol
<1>1. /\ UNCHANGED <<pos, storage, sent, got>>
      /\ \A u \in Threads : pc'[u] = "transfer" <=> pc[u] = "transfer"
      /\ \A u \in Threads : pc[u] = "transfer" => loc'[u] = loc[u]
  <2>. USE <1>0 DEF Goto, shared, TypeOK
  <2>1. CASE ChoosePath(t)
    BY <2>1 DEF ChoosePath, Enter, Mark, Enroll, Select
  <2>2. CASE Load(t) \/ ClaimFails(t)
    BY <2>2 DEF Load, ClaimFails
  <2>3. CASE CheckReady(t)
    BY <2>3 DEF CheckReady, OnlyMpmc
  <2>4. CASE CheckStale(t) \/ CheckFails(t) \/ Publish(t)
    BY <2>4 DEF CheckStale, CheckFails, Publish
  <2>5. CASE Advance(t)
    BY <2>5 DEF Advance, OnlyMpmc
  <2>6. CASE Notify(t)
    BY <2>6 DEF Notify, CheckWaiters, Flag, Wake, Unflag, Asleep
  <2>7. CASE Block(t)
    BY <2>7 DEF Block, Observe, Register, Wait, Deregister
  <2>. QED  BY <2>1, <2>2, <2>3, <2>4, <2>5, <2>6, <2>7
<1>2. head' = head /\ tail' = tail
  BY <1>1 DEF head, tail
<1>3. ASSUME NEW n \in Nat PROVE TicketValue(n)' = TicketValue(n)
  <2>1. CASE \E p \in Producers : pc[p] = "transfer" /\ loc[p] = n
    <3>1. PICK p \in Producers : pc[p] = "transfer" /\ loc[p] = n
      BY <2>1
    <3>2. pc'[p] = "transfer" /\ loc'[p] = n /\ sent'[p] = sent[p]
      BY <1>1, <3>1 DEF Threads
    <3>. QED  BY <3>1, <3>2, ValueHeld, ValueHeldNext
  <2>2. CASE \A p \in Producers : pc[p] = "transfer" => loc[p] # n
    <3>1. \A p \in Producers : pc'[p] = "transfer" => loc'[p] # n
      BY <1>1, <2>2 DEF Threads
    <3>. QED  BY <1>1, <2>2, <3>1, ValueStored, ValueStoredNext
  <2>. QED  BY <2>1, <2>2
<1>4. QueueOf' = QueueOf
  BY <1>0, <1>2, <1>3, SameQueue
<1>5. AcceptedOf' = AcceptedOf
  BY <1>1, SameAccepted DEF Threads
<1>6. TakenOf' = TakenOf
  BY <1>1, SameTaken DEF Threads
<1>. QED  BY <1>4, <1>5, <1>6

\* The move of the value has been seen already, when the ticket was claimed.
LEMMA StutterTransfer ==
  ASSUME SlotProtocol, SlotProtocol', Mapping, Mapping', NEW t \in Threads,
         Transfer(t)
  PROVE  UNCHANGED <<QueueOf, AcceptedOf, TakenOf>>
<1>. DEFINE s == Slot(loc[t])
<1>0. TypeOK /\ TypeOK' /\ TicketsOut /\ SlotExclusion
  BY ProtocolExclusion DEF SlotProtocol
<1>. USE <1>0, Numbers
<1>1. /\ pc[t] = "transfer" /\ pc'[t] = "publish"
      /\ \A u \in Threads : u # t => pc'[u] = pc[u]
      /\ UNCHANGED <<pos, loc>>
      /\ head' = head /\ tail' = tail
  BY DEF Transfer, Goto, TypeOK, head, tail
<1>2. /\ s \in 0 .. Capacity - 1
      /\ \A u \in Threads : Slot(loc[u]) \in 0 .. Capacity - 1
  BY SlotInBuffer
<1>3. \A i \in 0 .. Capacity - 1 : i # s => storage'[i] = storage[i]
  BY <1>2 DEF Transfer, TypeOK
<1>4. \A u \in Threads : pc[u] = "transfer" /\ u # t => Slot(loc[u]) # s
  BY <1>1 DEF SlotExclusion, Using
<1>5. CASE t \in Producers
  <2>1. /\ storage' = [storage EXCEPT ![s] = <<t, sent[t] + 1>>]
        /\ sent' = [sent EXCEPT ![t] = @ + 1] /\ got' = got
    BY <1>5 DEF Transfer
  <2>2. ASSUME NEW n \in tail .. head - 1 PROVE TicketValue(n)' = TicketValue(n)
    <3>0. n \in Nat /\ Slot(n) \in 0 .. Capacity - 1
      BY SlotInBuffer
    <3>1. CASE n = loc[t]
      <4>1. TicketValue(n) = <<t, sent[t] + 1>>
        BY <1>1, <1>5, <3>0, <3>1 DEF Mapping
      <4>2. \A p \in Producers : pc'[p] = "transfer" => loc'[p] # n
        BY <1>1, <1>5, <3>1 DEF TicketsOut, Using
      <4>3. TicketValue(n)' = storage'[Slot(n)]
        BY <3>0, <4>2 DEF Mapping
      <4>. QED  BY <1>2, <2>1, <3>1, <4>1, <4>3 DEF TypeOK
    <3>2. CASE n # loc[t] /\ \E p \in Producers : pc[p] = "transfer" /\ loc[p] = n
      <4>1. PICK p \in Producers : pc[p] = "transfer" /\ loc[p] = n
        BY <3>2
      <4>2. p # t /\ p \in Threads
        BY <3>2, <4>1
      <4>3. pc'[p] = "transfer" /\ loc'[p] = n /\ sent'[p] = sent[p]
        BY <1>1, <2>1, <4>1, <4>2 DEF TypeOK
      <4>. QED  BY <3>0, <4>1, <4>3, ValueHeld, ValueHeldNext
    <3>3. CASE n # loc[t] /\ \A p \in Producers : pc[p] = "transfer" => loc[p] # n
      <4>1. Slot(n) # s
        BY <1>1, <1>5, <3>0, <3>3, SlotsApart DEF TicketsOut, Using
      <4>2. storage'[Slot(n)] = storage[Slot(n)]
        BY <1>3, <3>0, <4>1
      <4>3. TicketValue(n) = storage[Slot(n)]
        BY <3>0, <3>3, ValueStored
      <4>4. \A p \in Producers : pc'[p] = "transfer" => loc'[p] # n
        BY <1>1, <3>3
      <4>5. TicketValue(n)' = storage'[Slot(n)]
        BY <3>0, <4>4, ValueStoredNext
      <4>. QED  BY <4>2, <4>3, <4>5
    <3>. QED  BY <3>1, <3>2, <3>3
  <2>3. QueueOf' = QueueOf
    BY <1>1, <2>2, SameQueue
  <2>4. AcceptedOf' = AcceptedOf
    <3>1. sent'[t] = sent[t] + 1 /\ \A p \in Producers : p # t => sent'[p] = sent[p]
      BY <1>5, <2>1 DEF TypeOK
    <3>2. ASSUME NEW p \in Producers
          PROVE  (IF pc'[p] = "transfer" THEN sent'[p] + 1 ELSE sent'[p])
                   = (IF pc[p] = "transfer" THEN sent[p] + 1 ELSE sent[p])
      BY <1>1, <3>1 DEF Threads
    <3>. QED  BY <3>2, Counts, CountsNext
  <2>5. TakenOf' = TakenOf
    <3>1. \A c \in Consumers : pc[c] = "transfer" =>
            storage'[Slot(loc[c])] = storage[Slot(loc[c])]
      BY <1>2, <1>3, <1>4, <1>5
    <3>2. \A c \in Consumers : pc'[c] = pc[c] /\ loc'[c] = loc[c] /\ got'[c] = got[c]
      BY <1>1, <1>5, <2>1
    <3>. QED  BY <1>1, <3>1, <3>2, SameTaken
  <2>. QED  BY <2>3, <2>4, <2>5
<1>6. CASE t \in Consumers
  <2>1. /\ storage' = [storage EXCEPT ![s] = None]
        /\ got' = [got EXCEPT ![t] = Append(@, storage[s])] /\ sent' = sent
    BY <1>6 DEF Transfer
  <2>2. ASSUME NEW n \in tail .. head - 1 PROVE TicketValue(n)' = TicketValue(n)
    <3>0. n \in Nat /\ Slot(n) \in 0 .. Capacity - 1
      BY SlotInBuffer
    <3>1. Slot(n) # s
      BY <1>1, <1>6, <3>0, SlotsApart DEF TicketsOut, Using
    <3>2. storage'[Slot(n)] = storage[Slot(n)]
      BY <1>3, <3>0, <3>1
    <3>3. \A p \in Producers : pc'[p] = pc[p]
      BY <1>1, <1>6
    <3>4. CASE \E p \in Producers : pc[p] = "transfer" /\ loc[p] = n
      <4>1. PICK p \in Producers : pc[p] = "transfer" /\ loc[p] = n
        BY <3>4
      <4>2. pc'[p] = "transfer" /\ loc'[p] = n /\ sent'[p] = sent[p]
        BY <1>1, <2>1, <3>3, <4>1
      <4>. QED  BY <3>0, <4>1, <4>2, ValueHeld, ValueHeldNext
    <3>5. CASE \A p \in Producers : pc[p] = "transfer" => loc[p] # n
      <4>1. \A p \in Producers : pc'[p] = "transfer" => loc'[p] # n
        BY <1>1, <3>3, <3>5
      <4>. QED  BY <3>0, <3>2, <3>5, <4>1, ValueStored, ValueStoredNext
    <3>. QED  BY <3>4, <3>5
  <2>3. QueueOf' = QueueOf
    BY <1>1, <2>2, SameQueue
  <2>4. AcceptedOf' = AcceptedOf
    <3>1. \A p \in Producers : pc'[p] = pc[p]
      BY <1>1, <1>6
    <3>. QED  BY <2>1, <3>1, SameAccepted
  <2>5. TakenOf' = TakenOf
    <3>1. \A c \in Consumers : c # t /\ pc[c] = "transfer" =>
            storage'[Slot(loc[c])] = storage[Slot(loc[c])]
      BY <1>2, <1>3, <1>4
    <3>2. /\ got'[t] = Append(got[t], storage[s])
          /\ \A c \in Consumers : c # t => got'[c] = got[c]
      BY <1>6, <2>1 DEF TypeOK
    <3>3. ASSUME NEW c \in Consumers
          PROVE  (IF pc'[c] = "transfer" THEN Append(got'[c], storage'[Slot(loc'[c])])
                                         ELSE got'[c])
                   = (IF pc[c] = "transfer" THEN Append(got[c], storage[Slot(loc[c])])
                                            ELSE got[c])
      BY <1>1, <3>1, <3>2 DEF Threads
    <3>. QED  BY <3>3, Counts, CountsNext
  <2>. QED  BY <2>3, <2>4, <2>5
<1>. QED  BY <1>5, <1>6

\* A producer's claim pushes its value.
LEMMA PushStep ==
  ASSUME SlotProtocol, SlotProtocol', Mapping, Mapping', NEW t \in Producers,
         Claim(t)
  PROVE  Fifo!Push(t)
<1>0. TypeOK /\ TypeOK' /\ TicketsOut /\ TicketsOut'
  BY DEF SlotProtocol
<1>. USE <1>0, Numbers
<1>1. /\ pc[t] = "claim" /\ loc[t] = head /\ pc'[t] = "transfer"
      /\ \A u \in Threads : u # t => pc'[u] = pc[u]
      /\ UNCHANGED <<sequence, storage, sent, got, loc>>
      /\ head' = head + 1 /\ tail' = tail
  BY DEF Claim, Goto, TypeOK, head, tail, Side
<1>2. Len(QueueOf) < Capacity
  BY <1>1 DEF TicketsOut, Mapping
<1>3. AcceptedOf[t] = sent[t] /\ sent[t] < MaxPushes
  BY <1>1, Counts DEF TypeOK, InCall
<1>4. QueueOf' = Append(QueueOf, <<t, sent[t] + 1>>)
  <2>1. ASSUME NEW n \in tail .. head - 1 PROVE TicketValue(n)' = TicketValue(n)
    <3>0. n \in Nat /\ n # loc[t]
      BY <1>1
    <3>1. CASE \E p \in Producers : pc[p] = "transfer" /\ loc[p] = n
      <4>1. PICK p \in Producers : pc[p] = "transfer" /\ loc[p] = n
        BY <3>1
      <4>2. pc'[p] = "transfer" /\ loc'[p] = n /\ sent'[p] = sent[p]
        BY <1>1, <4>1
      <4>. QED  BY <3>0, <4>1, <4>2, ValueHeld, ValueHeldNext
    <3>2. CASE \A p \in Producers : pc[p] = "transfer" => loc[p] # n
      <4>1. \A p \in Producers : pc'[p] = "transfer" => loc'[p] # n
        BY <1>1, <3>0, <3>2
      <4>. QED  BY <1>1, <3>0, <3>2, <4>1, ValueStored, ValueStoredNext
    <3>. QED  BY <3>1, <3>2
  <2>2. ASSUME NEW n \in Nat, n = head PROVE TicketValue(n)' = <<t, sent[t] + 1>>
    <3>1. loc'[t] = n /\ sent'[t] = sent[t] /\ pc'[t] = "transfer"
      BY <1>1, <2>2
    <3>. QED  BY <3>1, ValueHeldNext
  <2>3. Len(QueueOf') = Len(QueueOf) + 1 /\ Len(QueueOf) = head - tail
    BY <1>1 DEF Mapping, TicketsOut
  <2>4. \A i \in 1 .. Len(QueueOf) : QueueOf'[i] = QueueOf[i]
    <3>. SUFFICES ASSUME NEW i \in 1 .. head - tail PROVE QueueOf'[i] = QueueOf[i]
      BY <2>3
    <3>1. /\ i \in 1 .. head' - tail'
          /\ tail + i - 1 \in tail .. head - 1
      BY <1>1
    <3>2. QueueOf[i] = TicketValue(tail + i - 1)
      BY DEF Mapping
    <3>3. QueueOf'[i] = TicketValue(tail + i - 1)'
      BY <3>1, NextElement
    <3>. QED  BY <1>1, <2>1, <3>1, <3>2, <3>3
  <2>5. ASSUME NEW i \in Nat, i = head + 1 - tail
        PROVE  QueueOf'[i] = <<t, sent[t] + 1>>
    <3>1. i \in 1 .. head' - tail' /\ (tail + i - 1)' = head
      BY <1>1, <2>5 DEF TicketsOut
    <3>2. QueueOf'[i] = TicketValue(tail + i - 1)'
      BY <3>1 DEF Mapping
    <3>3. ASSUME NEW n \in Nat, n = (tail + i - 1)'
          PROVE  TicketValue(tail + i - 1)' = TicketValue(n)'
      BY <3>3
    <3>. QED  BY <2>2, <3>1, <3>2, <3>3
  <2>6. QueueOf'[Len(QueueOf')] = <<t, sent[t] + 1>>
    BY <2>3, <2>5, LenProperties DEF Mapping, TicketsOut
  <2>. QED  BY <2>3, <2>4, <2>6, AppendByElement DEF Mapping
<1>5. AcceptedOf' = [AcceptedOf EXCEPT ![t] = @ + 1]
  <2>1. ASSUME NEW p \in Producers, p # t PROVE AcceptedOf'[p] = AcceptedOf[p]
    BY <1>1, <2>1, Counts, CountsNext DEF Threads
  <2>2. AcceptedOf'[t] = AcceptedOf[t] + 1
    BY <1>1, <1>3, CountsNext
  <2>. QED  BY <2>1, <2>2, Counts, CountsNext
<1>6. TakenOf' = TakenOf
  <2>1. \A c \in Consumers : pc'[c] = pc[c]
    BY <1>1
  <2>. QED  BY <1>1, <2>1, SameTaken
<1>. QED  BY <1>2, <1>3, <1>4, <1>5, <1>6 DEF Fifo!Push

\* A consumer's claim pops the oldest value.
LEMMA PopStep ==
  ASSUME SlotProtocol, SlotProtocol', Mapping, Mapping', NEW t \in Consumers,
         Claim(t)
  PROVE  Fifo!Pop(t)
<1>0. TypeOK /\ TypeOK' /\ TicketsOut /\ TicketsOut'
  BY DEF SlotProtocol
<1>. USE <1>0, Numbers
<1>1. /\ pc[t] = "claim" /\ loc[t] = tail /\ pc'[t] = "transfer"
      /\ \A u \in Threads : u # t => pc'[u] = pc[u]
      /\ UNCHANGED <<sequence, storage, sent, got, loc>>
      /\ head' = head /\ tail' = tail + 1
  BY DEF Claim, Goto, TypeOK, head, tail, Side
<1>2. \A n \in Nat : TicketValue(n)' = TicketValue(n)
  <2>. SUFFICES ASSUME NEW n \in Nat PROVE TicketValue(n)' = TicketValue(n)
    OBVIOUS
  <2>0. \A p \in Producers : pc'[p] = pc[p] /\ loc'[p] = loc[p] /\ sent'[p] = sent[p]
    BY <1>1
  <2>1. CASE \E p \in Producers : pc[p] = "transfer" /\ loc[p] = n
    <3>1. PICK p \in Producers : pc[p] = "transfer" /\ loc[p] = n
      BY <2>1
    <3>. QED  BY <2>0, <3>1, ValueHeld, ValueHeldNext
  <2>2. CASE \A p \in Producers : pc[p] = "transfer" => loc[p] # n
    <3>1. \A p \in Producers : pc'[p] = "transfer" => loc'[p] # n
      BY <2>0, <2>2
    <3>. QED  BY <1>1, <2>2, <3>1, ValueStored, ValueStoredNext
  <2>. QED  BY <2>1, <2>2
<1>3. QueueOf # <<>> /\ QueueOf' = Tail(QueueOf)
  <2>1. Len(QueueOf) = Len(QueueOf') + 1 /\ Len(QueueOf') = head - (tail + 1)
    BY <1>1 DEF Mapping, TicketsOut
  <2>2. ASSUME NEW i \in 1 .. Len(QueueOf') PROVE QueueOf'[i] = QueueOf[i + 1]
    <3>1. /\ i \in 1 .. head' - tail' /\ i + 1 \in 1 .. head - tail
          /\ tail' + i - 1 = tail + i /\ tail + (i + 1) - 1 = tail + i
          /\ tail + i \in Nat
      <4>1. i \in 1 .. head - (tail + 1)
        BY <2>1
      <4>. HIDE <1>0
      <4>2. head \in Nat /\ tail \in Nat /\ head' = head /\ tail' = tail + 1
        BY <1>0, <1>1
      <4>. QED  BY <4>1, <4>2
    <3>2. QueueOf[i + 1] = TicketValue(tail + i)
      BY <3>1 DEF Mapping
    <3>3. QueueOf'[i] = TicketValue(tail + i - 1)'
      BY <3>1, NextElement
    <3>4. ASSUME NEW n \in Nat, n = (tail + i - 1)'
          PROVE  TicketValue(tail + i - 1)' = TicketValue(n)'
      BY <3>4
    <3>. QED  BY <1>2, <3>1, <3>2, <3>3, <3>4
  <2>. QED  BY <2>1, <2>2, TailByElement DEF Mapping
<1>4. Head(QueueOf) = storage[Slot(tail)]
  <2>1. QueueOf[1] = TicketValue(tail)
    BY <1>1 DEF Mapping, TicketsOut
  <2>2. \A p \in Producers : pc[p] = "transfer" => loc[p] # tail
    BY <1>1 DEF TicketsOut, Using
  <2>3. TicketValue(tail) = storage[Slot(tail)]
    BY <2>2 DEF Mapping
  <2>. QED  BY <1>3, <2>1, <2>3 DEF Mapping
<1>5. TakenOf' = [TakenOf EXCEPT ![t] = Append(@, Head(QueueOf))]
  <2>1. ASSUME NEW c \in Consumers, c # t PROVE TakenOf'[c] = TakenOf[c]
    <3>1. pc'[c] = pc[c]
      BY <1>1, <2>1 DEF Threads
    <3>2. CASE pc[c] = "transfer"
      <4>1. TakenOf[c] = Append(got[c], storage[Slot(loc[c])])
        BY <3>2, Counts
      <4>2. TakenOf'[c] = Append(got'[c], storage'[Slot(loc'[c])])
        BY <3>1, <3>2, CountsNext
      <4>. QED  BY <1>1, <4>1, <4>2
    <3>3. CASE pc[c] # "transfer"
      BY <1>1, <3>1, <3>3, Counts, CountsNext
    <3>. QED  BY <3>2, <3>3
  <2>2. TakenOf'[t] = Append(TakenOf[t], Head(QueueOf))
    BY <1>1, <1>4, Counts, CountsNext
  <2>. QED  BY <2>1, <2>2, Counts, CountsNext
<1>6. AcceptedOf' = AcceptedOf
  <2>1. \A p \in Producers : pc'[p] = pc[p]
    BY <1>1
  <2>. QED  BY <1>1, <2>1, SameAccepted
<1>. QED  BY <1>3, <1>5, <1>6 DEF Fifo!Pop

LEMMA FifoStep ==
  ASSUME SlotProtocol, SlotProtocol', Mapping, Mapping', [Next]_vars
  PROVE  [Fifo!Next]_(Fifo!vars)
<1>1. CASE UNCHANGED vars
  <2>1. UNCHANGED <<QueueOf, AcceptedOf, TakenOf>>
    BY <1>1 DEF vars, shared, QueueOf, AcceptedOf, TakenOf, FirstTicket,
                NextTicket, Ahead, TicketValue, Claimed
  <2>. QED  BY <2>1 DEF Fifo!vars
<1>2. ASSUME NEW t \in Threads, Step(t) PROVE [Fifo!Next]_(Fifo!vars)
  <2>1. CASE Claim(t)
    BY <2>1, PushStep, PopStep DEF Fifo!Next, Threads
  <2>2. CASE Transfer(t)
    BY <2>2, StutterTransfer DEF Fifo!vars
  <2>3. CASE ~Claim(t) /\ ~Transfer(t)
    BY <1>2, <2>3, StutterQuiet DEF Fifo!vars, Step, UseSlot
  <2>. QED  BY <2>1, <2>2, <2>3
<1>. QED  BY <1>1, <1>2 DEF Next

LEMMA FifoInit ==
  ASSUME MpmcOnly, Init, Mapping, head \in Nat
  PROVE  Fifo!Init
<1>1. head = 0 /\ tail = 0 /\ \A t \in Threads : pc[t] = "idle"
  BY DEF Init, head, tail, Side
<1>2. QueueOf = <<>>
  BY <1>1, EmptySeq, SeqEqual DEF Mapping
<1>3. AcceptedOf = [p \in Producers |-> 0]
  BY <1>1 DEF Mapping, Init, Threads
<1>4. TakenOf = [c \in Consumers |-> <<>>]
  BY <1>1 DEF Mapping, Init, Threads
<1>. QED  BY <1>2, <1>3, <1>4 DEF Fifo!Init

\* On the MPMC path the queue is a bounded FIFO queue: every value accepted is
\* handed to one consumer, in the order of acceptance.
THEOREM FifoCorrect ==
  ASSUME MpmcOnly
  PROVE  Spec => ImplementsFifo
<1>1. SlotProtocol => Mapping /\ head \in Nat
  BY MappingHolds, Numbers DEF SlotProtocol
<1>2. SlotProtocol /\ Init => Fifo!Init
  BY <1>1, FifoInit
<1>3. SlotProtocol' => Mapping'
  BY MappingHolds, PTL
<1>4. SlotProtocol /\ SlotProtocol' /\ [Next]_vars => [Fifo!Next]_(Fifo!vars)
  BY <1>1, <1>3, FifoStep
<1>. QED
  BY <1>2, <1>4, ProtocolCorrect, PTL DEF Spec, ImplementsFifo, Fifo!Spec
-----------------------------------------------------------------------------
(* One producer and one consumer, on whichever path they are: no sleeper     *)
(* misses that its index has moved.                                          *)

\* A queue between two threads, the use the SPSC path is made for.
OneEach == \E p, c : Producers = {p} /\ Consumers = {c}

\* A thread is counted among the waiters of the other index from the moment
\* it registers, a pending notification is its own, and only the MPMC path
\* claims.
Counted(t) ==
  /\ waiters[Across(t)] =
       IF pc[t] \in {"wait", "asleep", "deregister"} THEN 1 ELSE 0
  /\ notifying[End(t)] => pc[t] \in {"wake", "unflag"}
  /\ pc[t] = "claim" => path[t] = "mpmc"

\* When t sleeps on an index that has moved, u has not finished maybe_notify.
WokenBy(t, u) ==
  pc[t] = "asleep" /\ pos[Across(t)] # loc[t] =>
    \/ pc[u] \in {"transfer", "publish"} /\ path[u] = "mpmc"
    \/ pc[u] \in {"notify", "flag", "wake"}

Sleepers ==
  /\ \A t \in Threads : Counted(t)
  /\ \A t, u \in Threads : t # u => WokenBy(t, u)

\* The two threads face one another.
LEMMA TwoThreads ==
  ASSUME OneEach, NEW t \in Threads
  PROVE  \E u \in Threads :
           /\ t # u /\ \A v \in Threads : v = t \/ v = u
           /\ End(u) = Across(t) /\ Across(u) = End(t) /\ End(t) # Across(t)
           /\ End(t) \in Side /\ Across(t) \in Side
           /\ t \in Producers <=> u \in Consumers
           /\ t \in Consumers <=> u \in Producers
<1>1. PICK p, c : Producers = {p} /\ Consumers = {c}
  BY DEF OneEach
<1>2. p # c /\ Threads = {p, c}
  BY <1>1, ThreadAssumption DEF Threads
<1>3. /\ End(p) = "head" /\ Across(p) = "tail"
      /\ End(c) = "tail" /\ Across(c) = "head"
      /\ p \notin Consumers /\ c \notin Producers
  BY <1>1, <1>2 DEF End, Across
<1>4. CASE t = p
  BY <1>1, <1>2, <1>3, <1>4 DEF Side
<1>5. CASE t = c
  BY <1>1, <1>2, <1>3, <1>5 DEF Side
<1>. QED  BY <1>2, <1>4, <1>5

LEMMA SleepersStep ==
  ASSUME OneEach, TypeOK, TypeOK', Sleepers, [Next]_vars
  PROVE  Sleepers'
<1>1. CASE UNCHANGED vars
  BY <1>1 DEF Sleepers, Counted, WokenBy, vars, shared
<1>2. ASSUME NEW t \in Threads, Step(t) PROVE Sleepers'
  <2>1. PICK u \in Threads :
          /\ t # u /\ \A v \in Threads : v = t \/ v = u
          /\ End(u) = Across(t) /\ Across(u) = End(t) /\ End(t) # Across(t)
          /\ End(t) \in Side /\ Across(t) \in Side
          /\ t \in Producers <=> u \in Consumers
          /\ t \in Consumers <=> u \in Producers
    BY TwoThreads
  <2>. SUFFICES Counted(t)' /\ Counted(u)' /\ WokenBy(t, u)' /\ WokenBy(u, t)'
    BY <2>1 DEF Sleepers
  <2>2. Counted(t) /\ Counted(u) /\ WokenBy(t, u) /\ WokenBy(u, t)
    BY <2>1 DEF Sleepers
  <2>. USE DEF TypeOK, Counted, WokenBy, Goto, shared
  <2>3. CASE ChoosePath(t)
    BY <2>1, <2>2, <2>3 DEF ChoosePath, Enter, Mark, Enroll, Select
  <2>4. CASE UseSlot(t)
    <3>1. CASE Load(t) \/ ClaimFails(t)
      BY <2>1, <2>2, <3>1 DEF Load, ClaimFails
    <3>2. CASE CheckReady(t)
      BY <2>1, <2>2, <3>2 DEF CheckReady
    <3>3. CASE CheckStale(t) \/ CheckFails(t)
      BY <2>1, <2>2, <3>3 DEF CheckStale, CheckFails
    <3>4. CASE Claim(t) \/ Advance(t)
      BY <2>1, <2>2, <3>4 DEF Claim, Advance
    <3>5. CASE Transfer(t)
      <4>1. pc' = [pc EXCEPT ![t] = "publish"] /\ pc[t] = "transfer"
            /\ UNCHANGED <<pos, waiters, notifying, path, loc>>
        BY <3>5 DEF Transfer
      <4>. QED  BY <2>1, <2>2, <4>1
    <3>6. CASE Publish(t)
      BY <2>1, <2>2, <3>6 DEF Publish
    <3>. QED  BY <2>4, <3>1, <3>2, <3>3, <3>4, <3>5, <3>6 DEF UseSlot
  <2>5. CASE Notify(t)
    <3>1. CASE CheckWaiters(t)
      BY <2>1, <2>2, <3>1 DEF CheckWaiters
    <3>2. CASE Flag(t)
      BY <2>1, <2>2, <3>2 DEF Flag
    <3>3. CASE Wake(t) /\ Asleep(End(t)) = {}
      <4>1. pc[u] # "asleep"
        BY <2>1, <3>3 DEF Asleep
      <4>. QED  BY <2>1, <2>2, <3>3, <4>1 DEF Wake
    <3>4. CASE Wake(t) /\ Asleep(End(t)) # {}
      <4>1. PICK v \in Asleep(End(t)) :
              pc' = [pc EXCEPT ![t] = "unflag", ![v] = "wait"]
        BY <3>4 DEF Wake
      <4>2. v = u /\ pc[u] = "asleep"
        BY <2>1, <4>1 DEF Asleep
      <4>. QED  BY <2>1, <2>2, <3>4, <4>1, <4>2 DEF Wake
    <3>5. CASE Unflag(t)
      BY <2>1, <2>2, <3>5 DEF Unflag
    <3>. QED  BY <2>5, <3>1, <3>2, <3>3, <3>4, <3>5 DEF Notify
  <2>6. CASE Block(t)
    <3>1. CASE Observe(t)
      BY <2>1, <2>2, <3>1 DEF Observe
    <3>2. CASE Register(t)
      BY <2>1, <2>2, <3>2 DEF Register
    <3>3. CASE Wait(t)
      BY <2>1, <2>2, <3>3 DEF Wait
    <3>4. CASE Deregister(t)
      BY <2>1, <2>2, <3>4 DEF Deregister
    <3>. QED  BY <2>6, <3>1, <3>2, <3>3, <3>4 DEF Block
  <2>. QED  BY <1>2, <2>3, <2>4, <2>5, <2>6 DEF Step
<1>. QED  BY <1>1, <1>2 DEF Next

\* Between one producer and one consumer, a thread asleep on an index that has
\* moved has a notification on the way: no push_wait and no pop_wait sleeps on
\* because the other thread looked for waiters too early or too late.  (With
\* more threads a notification that is pending swallows the next one.)
THEOREM NoMissedAdvanceCorrect ==
  ASSUME OneEach
  PROVE  Spec => []NoMissedAdvance
<1>1. Init => Sleepers
  BY DEF Init, Sleepers, Counted, WokenBy, Threads, Side, End, Across
<1>2. TypeOK /\ TypeOK' /\ Sleepers /\ [Next]_vars => Sleepers'
  BY SleepersStep
<1>3. Sleepers => NoMissedAdvance
  <2>. SUFFICES ASSUME Sleepers, NEW t \in Threads,
                       pc[t] = "asleep", pos[Across(t)] # loc[t]
                PROVE  \E u \in Threads :
                         /\ End(u) = Across(t)
                         /\ pc[u] \in {"transfer", "publish", "notify", "flag", "wake"}
    BY DEF NoMissedAdvance
  <2>1. PICK u \in Threads : t # u /\ End(u) = Across(t)
    BY TwoThreads
  <2>2. WokenBy(t, u)
    BY <2>1 DEF Sleepers
  <2>. QED  BY <2>1, <2>2 DEF WokenBy
<1>. QED  BY <1>1, <1>2, <1>3, TypeCorrect, PTL DEF Spec

-----------------------------------------------------------------------------
(* The slot protocol between one producer and one consumer.  A thread's      *)
(* tickets are used in order, so it is enough to count them.                 *)

\* How far the index of a thread is ahead of the tickets it has published: the
\* MPMC path moves it before, the SPSC path after.
Lead(t) ==
  IF path[t] = "mpmc" /\ pc[t] \in {"transfer", "publish"} THEN 1
  ELSE IF pc[t] = "advance" THEN -1 ELSE 0

\* How many tickets a thread has published, and how many values it has moved.
Published(t) == pos[End(t)] - Lead(t)
Moved(t)     == Published(t) + (IF pc[t] = "publish" THEN 1 ELSE 0)

\* A thread that has found its slot ready and has not published it.
AtSlot(t) == pc[t] \in {"claim", "transfer", "publish"}

\* The ticket a thread works on is the next one it will publish.
OwnTicket(t) ==
  /\ Published(t) \in Nat
  /\ pc[t] = "check" \/ AtSlot(t) => loc[t] = Published(t)
  /\ pc[t] = "advance" => loc[t] = pos[End(t)] /\ path[t] = "spsc"
  /\ pc[t] = "claim" => path[t] = "mpmc"

\* The consumer is behind the producer by at most a lap; a slot found ready
\* still has room, or a value.
Room(p, c) ==
  /\ Published(c) <= Published(p)
  /\ Published(p) <= Published(c) + Capacity
  /\ AtSlot(p) => Published(p) < Published(c) + Capacity
  /\ AtSlot(c) => Published(c) < Published(p)

\* What the sequence numbers say, and where values are alive.
Slots(p, c) ==
  /\ \A n \in Published(c) .. Published(p) - 1 : sequence[Slot(n)] = n + 1
  /\ \A n \in Published(p) .. Published(c) + Capacity - 1 : sequence[Slot(n)] = n
  /\ \A n \in Moved(c) .. Moved(p) - 1 : storage[Slot(n)] # None
  /\ \A n \in Moved(p) .. Moved(c) + Capacity - 1 : storage[Slot(n)] = None

PairProtocol ==
  /\ TypeOK
  /\ \A t \in Threads : OwnTicket(t)
  /\ \A p \in Producers, c \in Consumers : Room(p, c) /\ Slots(p, c)

\* What a step leaves alone of the thread that does not take it.
SameThread(u) ==
  /\ Published(u)' = Published(u) /\ Moved(u)' = Moved(u)
  /\ loc'[u] = loc[u] /\ path'[u] = path[u]
  /\ pc'[u] = pc[u] \/ (pc[u] = "asleep" /\ pc'[u] = "wait")

LEMMA OtherThread ==
  ASSUME TypeOK, TypeOK', NEW t \in Threads, NEW u \in Threads, t # u,
         End(u) # End(t), Step(t)
  PROVE  SameThread(u)
<1>1. End(t) \in Side /\ End(u) \in Side
  BY DEF End, Side
<1>2. pos'[End(u)] = pos[End(u)] /\ loc'[u] = loc[u] /\ path'[u] = path[u]
  <2>. USE <1>1 DEF TypeOK, shared
  <2>1. CASE ChoosePath(t)
    BY <2>1 DEF ChoosePath, Enter, Mark, Enroll, Select
  <2>2. CASE UseSlot(t)
    BY <2>2 DEF UseSlot, Load, CheckReady, CheckStale, CheckFails, Claim,
                ClaimFails, Transfer, Publish, Advance
  <2>3. CASE Notify(t)
    BY <2>3 DEF Notify, CheckWaiters, Flag, Wake, Unflag
  <2>4. CASE Block(t)
    BY <2>4 DEF Block, Observe, Register, Wait, Deregister
  <2>. QED  BY <2>1, <2>2, <2>3, <2>4 DEF Step
<1>3. pc'[u] = pc[u] \/ (pc[u] = "asleep" /\ pc'[u] = "wait")
  <2>. USE DEF TypeOK, Goto
  <2>1. CASE ChoosePath(t)
    BY <2>1 DEF ChoosePath, Enter, Mark, Enroll, Select
  <2>2. CASE UseSlot(t)
    BY <2>2 DEF UseSlot, Load, CheckReady, CheckStale, CheckFails, Claim,
                ClaimFails, Transfer, Publish, Advance
  <2>3. CASE Notify(t)
    <3>1. CASE Wake(t) /\ Asleep(End(t)) # {}
      <4>1. PICK v \in Asleep(End(t)) :
              pc' = [pc EXCEPT ![t] = "unflag", ![v] = "wait"]
        BY <3>1 DEF Wake
      <4>2. v \in Threads /\ pc[v] = "asleep"
        BY <4>1 DEF Asleep
      <4>. QED  BY <4>1, <4>2
    <3>2. CASE Wake(t) /\ Asleep(End(t)) = {}
      BY <3>2 DEF Wake
    <3>. QED  BY <2>3, <3>1, <3>2 DEF Notify, CheckWaiters, Flag, Unflag
  <2>4. CASE Block(t)
    BY <2>4 DEF Block, Observe, Register, Wait, Deregister
  <2>. QED  BY <2>1, <2>2, <2>3, <2>4 DEF Step
<1>4. Lead(u)' = Lead(u)
  BY <1>2, <1>3 DEF Lead
<1>5. Published(u)' = Published(u)
  BY <1>2, <1>4 DEF Published
<1>. QED  BY <1>2, <1>3, <1>5 DEF SameThread, Moved

\* What a step does to the tickets of the thread that takes it.
LEMMA OwnStep ==
  ASSUME TypeOK, TypeOK', NEW t \in Threads, OwnTicket(t), Step(t)
  PROVE  /\ OwnTicket(t)'
         /\ Publish(t) => /\ Published(t)' = Published(t) + 1
                          /\ Moved(t)' = Moved(t)
         /\ Transfer(t) => /\ Published(t)' = Published(t)
                           /\ Moved(t)' = Moved(t) + 1
         /\ ~Publish(t) /\ ~Transfer(t) =>
              /\ Published(t)' = Published(t) /\ Moved(t)' = Moved(t)
              /\ UNCHANGED <<sequence, storage>>
              /\ AtSlot(t)' => AtSlot(t) \/ CheckReady(t)
<1>1. End(t) \in Side /\ pos[End(t)] \in Nat /\ loc[t] \in Nat
  BY DEF End, Side, TypeOK
<1>. USE <1>1 DEF TypeOK, OwnTicket, Published, Moved, Lead, AtSlot, Goto, shared
<1>2. CASE ChoosePath(t)
  <2>1. CASE Enter(t)
    BY <2>1 DEF Enter, Publish, Transfer
  <2>2. CASE Mark(t)
    BY <2>2 DEF Mark, Publish, Transfer
  <2>3. CASE Enroll(t)
    BY <2>3 DEF Enroll, Publish, Transfer
  <2>4. CASE Select(t)
    BY <2>4 DEF Select, Publish, Transfer
  <2>. QED  BY <1>2, <2>1, <2>2, <2>3, <2>4 DEF ChoosePath
<1>3. CASE UseSlot(t)
  <2>1. CASE Load(t)
    BY <2>1 DEF Load, Publish, Transfer
  <2>2. CASE CheckReady(t)
    BY <2>2 DEF CheckReady, Publish, Transfer
  <2>3. CASE CheckStale(t)
    BY <2>3 DEF CheckStale, Publish, Transfer
  <2>4. CASE CheckFails(t)
    BY <2>4 DEF CheckFails, Publish, Transfer
  <2>5. CASE Claim(t)
    BY <2>5 DEF Claim, Publish, Transfer
  <2>6. CASE ClaimFails(t)
    BY <2>6 DEF ClaimFails, Publish, Transfer
  <2>7. CASE Transfer(t)
    <3>1. /\ pc[t] = "transfer" /\ pc'[t] = "publish"
          /\ UNCHANGED <<pos, path, loc>>
      BY <2>7 DEF Transfer
    <3>. QED  BY <2>7, <3>1 DEF Publish
  <2>8. CASE Publish(t)
    <3>1. /\ pc[t] = "publish"
          /\ pc'[t] = IF path[t] = "mpmc" THEN "notify" ELSE "advance"
          /\ UNCHANGED <<pos, path, loc>>
      BY <2>8 DEF Publish
    <3>. QED  BY <2>8, <3>1 DEF Transfer
  <2>9. CASE Advance(t)
    BY <2>9 DEF Advance, Publish, Transfer
  <2>. QED
    BY <1>3, <2>1, <2>2, <2>3, <2>4, <2>5, <2>6, <2>7, <2>8, <2>9 DEF UseSlot
<1>4. CASE Notify(t)
  <2>1. /\ pc[t] \in {"notify", "flag", "wake", "unflag"}
        /\ pc'[t] \in {"idle", "flag", "wake", "unflag"}
        /\ UNCHANGED <<pos, sequence, storage, path, loc>>
    <3>1. CASE Wake(t) /\ Asleep(End(t)) # {}
      <4>1. PICK v \in Asleep(End(t)) :
              pc' = [pc EXCEPT ![t] = "unflag", ![v] = "wait"]
        BY <3>1 DEF Wake
      <4>2. v # t
        BY <3>1, <4>1 DEF Asleep, Wake
      <4>. QED  BY <3>1, <4>1, <4>2 DEF Wake
    <3>2. CASE Wake(t) /\ Asleep(End(t)) = {}
      BY <3>2 DEF Wake
    <3>. QED  BY <1>4, <3>1, <3>2 DEF Notify, CheckWaiters, Flag, Unflag
  <2>. QED  BY <2>1 DEF Publish, Transfer
<1>5. CASE Block(t)
  <2>1. /\ pc[t] \in {"observe", "register", "wait", "deregister"}
        /\ pc'[t] \in {"idle", "register", "wait", "asleep", "deregister"}
        /\ UNCHANGED <<pos, sequence, storage, path>>
    BY <1>5 DEF Block, Observe, Register, Wait, Deregister
  <2>. QED  BY <2>1 DEF Publish, Transfer
<1>. QED  BY <1>2, <1>3, <1>4, <1>5 DEF Step

\* The numbers a pair's arithmetic is about.
LEMMA PairNumbers ==
  ASSUME PairProtocol, NEW p \in Producers, NEW c \in Consumers
  PROVE  /\ TypeOK /\ OwnTicket(p) /\ OwnTicket(c) /\ Room(p, c) /\ Slots(p, c)
         /\ p \in Threads /\ c \in Threads /\ p # c /\ p \notin Consumers
         /\ c \notin Producers /\ End(p) = "head" /\ End(c) = "tail"
         /\ Published(p) \in Nat /\ Published(c) \in Nat
         /\ Moved(p) \in Nat /\ Moved(c) \in Nat
         /\ loc[p] \in Nat /\ loc[c] \in Nat
         /\ Capacity \in Nat /\ Capacity > 0
         /\ Published(p) <= Moved(p) /\ Published(c) <= Moved(c)
         /\ Moved(c) <= Moved(p) /\ Moved(p) <= Moved(c) + Capacity
         /\ pc[p] = "publish" => Moved(p) = Published(p) + 1
         /\ pc[c] = "publish" => Moved(c) = Published(c) + 1
         /\ pc[p] # "publish" => Moved(p) = Published(p)
         /\ pc[c] # "publish" => Moved(c) = Published(c)
<1>1. /\ TypeOK /\ OwnTicket(p) /\ OwnTicket(c) /\ Room(p, c) /\ Slots(p, c)
      /\ p \in Threads /\ c \in Threads /\ p # c /\ p \notin Consumers
      /\ c \notin Producers /\ End(p) = "head" /\ End(c) = "tail"
  BY ThreadAssumption DEF PairProtocol, Threads, End
<1>2. /\ Published(p) \in Nat /\ Published(c) \in Nat
      /\ loc[p] \in Nat /\ loc[c] \in Nat
      /\ Capacity \in Nat /\ Capacity > 0
  BY <1>1, CapacityAssumption DEF OwnTicket, TypeOK
<1>. QED  BY <1>1, <1>2 DEF Moved, Room, AtSlot

\* A slot is not found ready unless there is room in it, or a value.
LEMMA ReadyMeans ==
  ASSUME Capacity > 1, PairProtocol, NEW p \in Producers, NEW c \in Consumers
  PROVE  /\ CheckReady(p) => Published(p) < Published(c) + Capacity
         /\ CheckReady(c) => Published(c) < Published(p)
<1>. USE PairNumbers
<1>1. ASSUME CheckReady(p), Published(p) = Published(c) + Capacity PROVE FALSE
  <2>1. sequence[Slot(Published(p))] = Published(p)
    BY <1>1 DEF CheckReady, OwnTicket, Ready
  <2>2. Slot(Published(p)) = Slot(Published(c))
    BY <1>1, SlotNextLap
  <2>3. sequence[Slot(Published(c))] = Published(c) + 1
    BY <1>1 DEF Slots
  <2>. QED  BY <1>1, <2>1, <2>2, <2>3
<1>2. ASSUME CheckReady(c), Published(c) = Published(p) PROVE FALSE
  <2>1. sequence[Slot(Published(c))] = Published(c) + 1
    BY <1>2 DEF CheckReady, OwnTicket, Ready
  <2>2. sequence[Slot(Published(c))] = Published(c)
    BY <1>2 DEF Slots
  <2>. QED  BY <2>1, <2>2
<1>. QED  BY <1>1, <1>2 DEF Room

\* The slots after the producer's or the consumer's next number is written.
LEMMA SlotsPublish ==
  ASSUME PairProtocol, NEW p \in Producers, NEW c \in Consumers, NEW t \in {p, c},
         AtSlot(t), Moved(p)' = Moved(p), Moved(c)' = Moved(c),
         Published(p)' = Published(p) + (IF t = p THEN 1 ELSE 0),
         Published(c)' = Published(c) + (IF t = c THEN 1 ELSE 0),
         storage' = storage,
         sequence' = [sequence EXCEPT ![Slot(loc[t])] = Done(t)]
  PROVE  Slots(p, c)'
<1>. USE PairNumbers
<1>. DEFINE P == Published(p)  C == Published(c)
<1>0. P \in Nat /\ C \in Nat /\ C <= P /\ P <= C + Capacity /\ Capacity \in Nat
  BY DEF Room
<1>1. \A n \in Nat : Slot(n) \in DOMAIN sequence
  BY SlotInBuffer DEF TypeOK
<1>2. \A n \in Moved(c)' .. Moved(p)' - 1 : storage'[Slot(n)] # None
  BY DEF Slots
<1>3. \A n \in Moved(p)' .. Moved(c)' + Capacity - 1 : storage'[Slot(n)] = None
  BY DEF Slots
<1>4. CASE t = p
  <2>1. /\ loc[t] = P /\ P < C + Capacity /\ Done(t) = P + 1
        /\ Published(p)' = P + 1 /\ Published(c)' = C
    BY <1>4 DEF OwnTicket, Room, Done
  <2>2. \A n \in C .. P - 1 : sequence[Slot(n)] = n + 1
    BY DEF Slots
  <2>3. \A n \in P .. C + Capacity - 1 : sequence[Slot(n)] = n
    BY DEF Slots
  <2>4. \A n \in Nat : n # P /\ C <= n /\ n < C + Capacity =>
          sequence'[Slot(n)] = sequence[Slot(n)]
    BY <1>0, <1>1, <2>1, SlotsApart
  <2>5. sequence'[Slot(P)] = P + 1
    BY <1>0, <1>1, <2>1
  <2>. HIDE DEF P, C
  <2>6. \A n \in C .. P : sequence'[Slot(n)] = n + 1
    BY <1>0, <2>1, <2>2, <2>4, <2>5
  <2>7. \A n \in P + 1 .. C + Capacity - 1 : sequence'[Slot(n)] = n
    BY <1>0, <2>1, <2>3, <2>4
  <2>8. P + 1 - 1 = P
    BY <1>0
  <2>. QED  BY <1>2, <1>3, <2>1, <2>6, <2>7, <2>8 DEF Slots
<1>5. CASE t = c
  <2>1. /\ loc[t] = C /\ C < P /\ Done(t) = C + Capacity
        /\ Published(p)' = P /\ Published(c)' = C + 1
    BY <1>5 DEF OwnTicket, Room, Done
  <2>2. \A n \in C .. P - 1 : sequence[Slot(n)] = n + 1
    BY DEF Slots
  <2>3. \A n \in P .. C + Capacity - 1 : sequence[Slot(n)] = n
    BY DEF Slots
  <2>4. \A n \in Nat : C < n /\ n < C + Capacity =>
          sequence'[Slot(n)] = sequence[Slot(n)]
    BY <1>0, <1>1, <2>1, SlotsApart
  <2>5. sequence'[Slot(C + Capacity)] = C + Capacity
    BY <1>0, <1>1, <2>1, SlotNextLap
  <2>. HIDE DEF P, C
  <2>6. \A n \in C + 1 .. P - 1 : sequence'[Slot(n)] = n + 1
    BY <1>0, <2>1, <2>2, <2>4
  <2>7. \A n \in P .. C + 1 + Capacity - 1 : sequence'[Slot(n)] = n
    BY <1>0, <2>1, <2>3, <2>4, <2>5
  <2>. QED  BY <1>2, <1>3, <2>1, <2>6, <2>7 DEF Slots
<1>. QED  BY <1>4, <1>5

\* The slots after a value is moved into one or out of one.
LEMMA SlotsTransfer ==
  ASSUME PairProtocol, NEW p \in Producers, NEW c \in Consumers, NEW t \in {p, c},
         pc[t] = "transfer", NEW v, t = p => v # None, t = c => v = None,
         Published(p)' = Published(p), Published(c)' = Published(c),
         Moved(p)' = Moved(p) + (IF t = p THEN 1 ELSE 0),
         Moved(c)' = Moved(c) + (IF t = c THEN 1 ELSE 0),
         sequence' = sequence,
         storage' = [storage EXCEPT ![Slot(loc[t])] = v]
  PROVE  Slots(p, c)'
<1>. USE PairNumbers
<1>. DEFINE P == Moved(p)  C == Moved(c)
<1>0. P \in Nat /\ C \in Nat /\ C <= P /\ P <= C + Capacity /\ Capacity \in Nat
  OBVIOUS
<1>1. \A n \in Nat : Slot(n) \in DOMAIN storage
  BY SlotInBuffer DEF TypeOK
<1>2. \A n \in Published(c)' .. Published(p)' - 1 : sequence'[Slot(n)] = n + 1
  BY DEF Slots
<1>3. \A n \in Published(p)' .. Published(c)' + Capacity - 1 : sequence'[Slot(n)] = n
  BY DEF Slots
<1>4. \A n \in C .. P - 1 : storage[Slot(n)] # None
  BY DEF Slots
<1>5. \A n \in P .. C + Capacity - 1 : storage[Slot(n)] = None
  BY DEF Slots
<1>6. CASE t = p
  <2>1. loc[t] = P /\ P < C + Capacity /\ P' = P + 1 /\ C' = C
    BY <1>6 DEF OwnTicket, Room, AtSlot
  <2>2. \A n \in Nat : n # P /\ C <= n /\ n < C + Capacity =>
          storage'[Slot(n)] = storage[Slot(n)]
    BY <1>0, <1>1, <2>1, SlotsApart
  <2>3. storage'[Slot(P)] # None
    BY <1>0, <1>1, <1>6, <2>1
  <2>4. Moved(p)' = P + 1 /\ Moved(c)' = C
    BY <2>1
  <2>. HIDE DEF P, C
  <2>5. \A n \in C .. P : storage'[Slot(n)] # None
    BY <1>0, <2>1, <1>4, <2>2, <2>3
  <2>6. \A n \in P + 1 .. C + Capacity - 1 : storage'[Slot(n)] = None
    BY <1>0, <2>1, <1>5, <2>2
  <2>7. \A n \in Moved(c)' .. Moved(p)' - 1 : storage'[Slot(n)] # None
    BY <1>0, <2>4, <2>5
  <2>8. \A n \in Moved(p)' .. Moved(c)' + Capacity - 1 : storage'[Slot(n)] = None
    BY <2>4, <2>6
  <2>. QED  BY <1>2, <1>3, <2>7, <2>8 DEF Slots
<1>7. CASE t = c
  <2>1. loc[t] = C /\ C < P /\ P' = P /\ C' = C + 1
    BY <1>7 DEF OwnTicket, Room, AtSlot
  <2>2. \A n \in Nat : C < n /\ n < C + Capacity =>
          storage'[Slot(n)] = storage[Slot(n)]
    BY <1>0, <1>1, <2>1, SlotsApart
  <2>3. storage'[Slot(C + Capacity)] = None
    BY <1>0, <1>1, <1>7, <2>1, SlotNextLap
  <2>4. Moved(p)' = P /\ Moved(c)' = C + 1
    BY <2>1
  <2>. HIDE DEF P, C
  <2>5. \A n \in C + 1 .. P - 1 : storage'[Slot(n)] # None
    BY <1>0, <2>1, <1>4, <2>2
  <2>6. \A n \in P .. C + 1 + Capacity - 1 : storage'[Slot(n)] = None
    BY <1>0, <2>1, <1>5, <2>2, <2>3
  <2>. QED  BY <1>2, <1>3, <2>4, <2>5, <2>6 DEF Slots
<1>. QED  BY <1>6, <1>7

LEMMA PairStep ==
  ASSUME OneEach, Capacity > 1, PairProtocol, TypeOK', [Next]_vars
  PROVE  PairProtocol'
<1>1. CASE UNCHANGED vars
  BY <1>1 DEF PairProtocol, TypeOK, OwnTicket, Room, Slots, AtSlot, Published,
              Moved, Lead, vars, shared
<1>2. ASSUME NEW t \in Threads, Step(t) PROVE PairProtocol'
  <2>1. PICK u \in Threads :
          /\ t # u /\ \A v \in Threads : v = t \/ v = u
          /\ End(u) # End(t)
    BY TwoThreads
  <2>2. TypeOK /\ OwnTicket(t) /\ OwnTicket(u)
    BY DEF PairProtocol
  <2>3. SameThread(u)
    BY <1>2, <2>1, <2>2, OtherThread
  <2>4. OwnTicket(t)'
    BY <1>2, <2>2, OwnStep
  <2>5. OwnTicket(u)'
    <3>1. pos'[End(u)] = pos[End(u)]
      <4>1. Lead(u)' = Lead(u)
        BY <2>3 DEF SameThread, Lead
      <4>2. /\ pos[End(u)] \in Nat /\ pos'[End(u)] \in Nat
            /\ Lead(u) \in Int
        BY <2>2 DEF TypeOK, End, Side, Lead
      <4>3. pos'[End(u)] - Lead(u)' = pos[End(u)] - Lead(u)
        BY <2>3 DEF SameThread, Published
      <4>. QED  BY <4>1, <4>2, <4>3
    <3>. QED  BY <2>2, <2>3, <3>1 DEF SameThread, OwnTicket, AtSlot
  <2>6. AtSlot(u)' <=> AtSlot(u)
    BY <2>3 DEF SameThread, AtSlot
  <2>7. ASSUME NEW p \in Producers, NEW c \in Consumers
        PROVE  Room(p, c)' /\ Slots(p, c)'
    <3>. USE PairNumbers
    <3>1. (t = p /\ u = c) \/ (t = c /\ u = p)
      BY <2>1
    <3>2. CASE Publish(t)
      <4>1. Published(t)' = Published(t) + 1 /\ Moved(t)' = Moved(t)
        BY <1>2, <2>2, <3>2, OwnStep
      <4>2. /\ AtSlot(t) /\ ~AtSlot(t)' /\ storage' = storage
            /\ sequence' = [sequence EXCEPT ![Slot(loc[t])] = Done(t)]
        BY <2>2, <3>2 DEF Publish, AtSlot, Goto, TypeOK
      <4>3. Room(p, c)'
        BY <2>1, <2>3, <2>6, <3>1, <4>1, <4>2 DEF Room, SameThread
      <4>4. /\ Published(p)' = Published(p) + (IF t = p THEN 1 ELSE 0)
            /\ Published(c)' = Published(c) + (IF t = c THEN 1 ELSE 0)
            /\ Moved(p)' = Moved(p) /\ Moved(c)' = Moved(c)
        BY <2>3, <3>1, <4>1 DEF SameThread
      <4>5. Slots(p, c)'
        BY <3>1, <4>2, <4>4, SlotsPublish
      <4>. QED  BY <4>3, <4>5
    <3>3. CASE Transfer(t)
      <4>1. Published(t)' = Published(t) /\ Moved(t)' = Moved(t) + 1
        BY <1>2, <2>2, <3>3, OwnStep
      <4>2. pc[t] = "transfer" /\ AtSlot(t) /\ AtSlot(t)' /\ sequence' = sequence
        BY <2>2, <3>3 DEF Transfer, AtSlot, Goto, TypeOK
      <4>3. Room(p, c)'
        BY <2>1, <2>3, <2>6, <3>1, <4>1, <4>2 DEF Room, SameThread
      <4>4. Slots(p, c)'
        <5>1. PICK v :
                /\ storage' = [storage EXCEPT ![Slot(loc[t])] = v]
                /\ t = p => v # None
                /\ t = c => v = None
          <6>1. CASE t = p
            <7>1. sent[p] + 1 \in 1 .. MaxPushes
              BY <2>2, <3>3, <6>1, ThreadAssumption DEF TypeOK, Transfer, InCall
            <7>2. <<p, sent[p] + 1>> \in Values
              BY <7>1 DEF Values
            <7>3. <<p, sent[p] + 1>> # None
              BY <7>2, ThreadAssumption
            <7>. QED  BY <3>3, <6>1, <7>3 DEF Transfer
          <6>2. CASE t = c
            BY <3>3, <6>2 DEF Transfer
          <6>. QED  BY <3>1, <6>1, <6>2
        <5>2. /\ Moved(p)' = Moved(p) + (IF t = p THEN 1 ELSE 0)
              /\ Moved(c)' = Moved(c) + (IF t = c THEN 1 ELSE 0)
              /\ Published(p)' = Published(p) /\ Published(c)' = Published(c)
          BY <2>3, <3>1, <4>1 DEF SameThread
        <5>. QED  BY <3>1, <4>2, <5>1, <5>2, SlotsTransfer
      <4>. QED  BY <4>3, <4>4
    <3>4. CASE ~Publish(t) /\ ~Transfer(t)
      <4>1. /\ Published(t)' = Published(t) /\ Moved(t)' = Moved(t)
            /\ UNCHANGED <<sequence, storage>>
            /\ AtSlot(t)' => AtSlot(t) \/ CheckReady(t)
        BY <1>2, <2>2, <3>4, OwnStep
      <4>2. Room(p, c)'
        <5>1. /\ AtSlot(p)' => AtSlot(p) \/ CheckReady(p)
              /\ AtSlot(c)' => AtSlot(c) \/ CheckReady(c)
          BY <2>6, <3>1, <4>1
        <5>2. /\ AtSlot(p)' => Published(p) < Published(c) + Capacity
              /\ AtSlot(c)' => Published(c) < Published(p)
          BY <5>1, ReadyMeans DEF Room
        <5>. QED  BY <2>3, <3>1, <4>1, <5>2 DEF Room, SameThread
      <4>3. Slots(p, c)'
        BY <2>3, <3>1, <4>1 DEF Slots, SameThread
      <4>. QED  BY <4>2, <4>3
    <3>. QED  BY <3>2, <3>3, <3>4
  <2>8. \A v \in Threads : OwnTicket(v)'
    BY <2>1, <2>4, <2>5
  <2>. QED  BY <2>7, <2>8 DEF PairProtocol, Threads
<1>. QED  BY <1>1, <1>2 DEF Next

LEMMA PairInit == Init => PairProtocol
<1>. SUFFICES ASSUME Init PROVE PairProtocol
  OBVIOUS
<1>0. TypeOK
  BY TypeInit
<1>1. ASSUME NEW t \in Threads
      PROVE  Published(t) = 0 /\ Moved(t) = 0 /\ pc[t] = "idle"
  <2>1. pc[t] = "idle" /\ pos[End(t)] = 0
    BY DEF Init, End, Side
  <2>2. Lead(t) = 0
    BY <2>1 DEF Lead
  <2>. QED  BY <2>1, <2>2 DEF Published, Moved
<1>2. \A t \in Threads : OwnTicket(t)
  BY <1>1 DEF OwnTicket, AtSlot
<1>3. ASSUME NEW p \in Producers, NEW c \in Consumers
      PROVE  Room(p, c) /\ Slots(p, c)
  <2>1. p \in Threads /\ c \in Threads
    BY DEF Threads
  <2>. Capacity \in Nat /\ Capacity > 0
    BY CapacityAssumption
  <2>. \A n \in 0 .. Capacity - 1 : Slot(n) = n
    BY DEF Slot
  <2>2. \A n \in 0 .. Capacity - 1 : sequence[Slot(n)] = n /\ storage[Slot(n)] = None
    BY DEF Init
  <2>3. Published(p) = 0 /\ Published(c) = 0 /\ Moved(p) = 0 /\ Moved(c) = 0
    BY <1>1, <2>1
  <2>4. Room(p, c)
    BY <1>1, <2>1, <2>3, CapacityAssumption DEF Room, AtSlot
  <2>5. Slots(p, c)
    BY <2>2, <2>3, CapacityAssumption DEF Slots
  <2>. QED  BY <2>4, <2>5
<1>. QED  BY <1>0, <1>2, <1>3 DEF PairProtocol

\* Between one producer and one consumer the sequence numbers tell exactly
\* which tickets are published, on the SPSC path, on the MPMC path and while
\* a thread goes over from one to the other.
THEOREM PairCorrect ==
  ASSUME OneEach, Capacity > 1
  PROVE  Spec => []PairProtocol
<1>1. PairProtocol /\ [Next]_vars => PairProtocol'
  BY TypeStep, PairStep DEF PairProtocol
<1>. QED  BY <1>1, PairInit, PTL DEF Spec

\* Between one producer and one consumer the two are never inside one slot,
\* and a value is constructed only where none is alive and taken only where
\* one is, on both paths.
THEOREM PairExclusionCorrect ==
  ASSUME OneEach, Capacity > 1
  PROVE  Spec => [](SlotExclusion /\ SlotLifetime)
<1>1. ASSUME PairProtocol PROVE SlotExclusion
  <2>. SUFFICES ASSUME NEW t \in Using(Threads), NEW u \in Using(Threads), t # u
                PROVE  Slot(loc[t]) # Slot(loc[u])
    BY DEF SlotExclusion
  <2>1. ASSUME NEW p \in Producers, NEW c \in Consumers,
               p \in Using(Threads), c \in Using(Threads)
        PROVE  Slot(loc[p]) # Slot(loc[c])
    <3>1. AtSlot(p) /\ AtSlot(c)
      BY <2>1 DEF Using, AtSlot
    <3>2. loc[p] = Published(p) /\ loc[c] = Published(c)
      BY <1>1, <3>1, PairNumbers DEF OwnTicket
    <3>3. loc[c] < loc[p] /\ loc[p] < loc[c] + Capacity
      BY <1>1, <3>1, <3>2, PairNumbers DEF Room
    <3>. QED  BY <1>1, <3>3, PairNumbers, SlotDistinct
  <2>2. t \in Threads /\ u \in Threads
    BY DEF Using
  <2>3. (t \in Producers /\ u \in Consumers) \/ (t \in Consumers /\ u \in Producers)
    BY <2>2 DEF OneEach, Threads
  <2>. QED  BY <2>1, <2>3
<1>2. ASSUME PairProtocol PROVE SlotLifetime
  <2>. SUFFICES ASSUME NEW t \in Threads, pc[t] = "transfer"
                PROVE  t \in Producers <=> storage[Slot(loc[t])] = None
    BY DEF SlotLifetime
  <2>1. PICK p \in Producers, c \in Consumers : TRUE
    BY DEF OneEach
  <2>. USE <1>2, PairNumbers
  <2>2. CASE t = p
    <3>1. AtSlot(p) /\ pc[p] # "publish"
      BY <2>2 DEF AtSlot
    <3>2. loc[p] = Moved(p) /\ Moved(p) < Moved(c) + Capacity
      BY <3>1 DEF OwnTicket, Room
    <3>3. storage[Slot(Moved(p))] = None
      BY <3>2 DEF Slots
    <3>. QED  BY <2>2, <3>2, <3>3
  <2>3. CASE t = c
    <3>1. AtSlot(c) /\ pc[c] # "publish"
      BY <2>3 DEF AtSlot
    <3>2. loc[c] = Moved(c) /\ Moved(c) < Moved(p)
      BY <3>1 DEF OwnTicket, Room
    <3>3. storage[Slot(Moved(c))] # None
      BY <3>2 DEF Slots
    <3>. QED  BY <2>3, <3>2, <3>3
  <2>4. t = p \/ t = c
    BY DEF OneEach, Threads
  <2>. QED  BY <2>2, <2>3, <2>4
<1>. QED  BY <1>1, <1>2, PairCorrect, PTL

-----------------------------------------------------------------------------
(* Between one producer and one consumer the queue implements FifoQueue.     *)

\* The tickets that are in the queue, seen from FifoQueue.
Entered(t) == Moved(t) + (IF Claimed(t) THEN 1 ELSE 0)

\* The queue the refinement mapping shows, ticket by ticket.
QueueRead ==
  /\ FirstTicket \in Nat /\ NextTicket \in Nat /\ FirstTicket <= NextTicket
  /\ QueueOf \in Seq(Items)
  /\ Len(QueueOf) = NextTicket - FirstTicket
  /\ \A n \in FirstTicket .. NextTicket - 1 :
       QueueOf[n - FirstTicket + 1] = TicketValue(n)

\* The queue is the same when its tickets are and their values are.
LEMMA QueueKept ==
  ASSUME QueueRead, QueueRead', FirstTicket' = FirstTicket, NextTicket' = NextTicket,
         \A n \in FirstTicket .. NextTicket - 1 : TicketValue(n)' = TicketValue(n)
  PROVE  QueueOf' = QueueOf
<1>. DEFINE F == FirstTicket  N == NextTicket
<1>1. /\ F \in Nat /\ N \in Nat
      /\ Len(QueueOf) = N - F /\ Len(QueueOf') = N - F
      /\ \A n \in F .. N - 1 : QueueOf[n - F + 1] = TicketValue(n)
      /\ \A n \in F .. N - 1 : QueueOf'[n - F + 1] = TicketValue(n)'
  BY DEF QueueRead
<1>2. ASSUME NEW i \in 1 .. Len(QueueOf) PROVE QueueOf'[i] = QueueOf[i]
  <2>. HIDE DEF F, N
  <2>1. F + i - 1 \in F .. N - 1 /\ (F + i - 1) - F + 1 = i
    BY <1>1
  <2>2. QueueOf[i] = TicketValue(F + i - 1)
    BY <1>1, <2>1
  <2>3. PICK n \in F .. N - 1 : n = F + i - 1
    BY <2>1
  <2>4. QueueOf'[i] = TicketValue(n)' /\ QueueOf[i] = TicketValue(n)
    BY <1>1, <2>1, <2>3
  <2>. QED  BY <2>4 DEF F, N
<1>. QED  BY <1>1, <1>2, SeqEqual DEF QueueRead

\* A ticket more is a value appended.
LEMMA QueuePushed ==
  ASSUME QueueRead, QueueRead', FirstTicket' = FirstTicket,
         NextTicket' = NextTicket + 1,
         \A n \in FirstTicket .. NextTicket - 1 : TicketValue(n)' = TicketValue(n),
         NEW v, \A n \in Nat : n = NextTicket => TicketValue(n)' = v
  PROVE  QueueOf' = Append(QueueOf, v)
<1>. DEFINE F == FirstTicket  N == NextTicket
<1>1. /\ F \in Nat /\ N \in Nat /\ F <= N
      /\ Len(QueueOf) = N - F /\ Len(QueueOf') = N + 1 - F
      /\ \A n \in F .. N - 1 : QueueOf[n - F + 1] = TicketValue(n)
      /\ \A n \in F .. N : QueueOf'[n - F + 1] = TicketValue(n)'
  <2>1. N + 1 - 1 = N
    BY DEF QueueRead
  <2>. QED  BY <2>1 DEF QueueRead
<1>2. ASSUME NEW i \in 1 .. Len(QueueOf) PROVE QueueOf'[i] = QueueOf[i]
  <2>. HIDE DEF F, N
  <2>1. F + i - 1 \in F .. N - 1 /\ (F + i - 1) - F + 1 = i
    BY <1>1
  <2>2. PICK n \in F .. N - 1 : n = F + i - 1
    BY <2>1
  <2>3. n \in F .. N
    BY <1>1
  <2>4. QueueOf'[i] = TicketValue(n)' /\ QueueOf[i] = TicketValue(n)
    BY <1>1, <2>1, <2>2, <2>3
  <2>. QED  BY <2>4 DEF F, N
<1>3. QueueOf'[Len(QueueOf')] = v
  <2>1. PICK n \in Nat : n = N
    BY <1>1
  <2>2. TicketValue(n)' = v
    BY <2>1
  <2>. HIDE DEF F, N
  <2>3. n \in F .. N /\ n - F + 1 = Len(QueueOf')
    BY <1>1, <2>1
  <2>. QED  BY <1>1, <2>2, <2>3
<1>4. Len(QueueOf') = Len(QueueOf) + 1
  <2>. HIDE DEF F, N
  <2>. QED  BY <1>1
<1>. QED  BY <1>2, <1>3, <1>4, AppendByElement DEF QueueRead

\* A ticket less is the oldest value removed.
LEMMA QueuePopped ==
  ASSUME QueueRead, QueueRead', FirstTicket' = FirstTicket + 1,
         NextTicket' = NextTicket, FirstTicket < NextTicket,
         \A n \in FirstTicket + 1 .. NextTicket - 1 : TicketValue(n)' = TicketValue(n)
  PROVE  /\ QueueOf # <<>> /\ QueueOf' = Tail(QueueOf)
         /\ \A n \in Nat : n = FirstTicket => Head(QueueOf) = TicketValue(n)
<1>. DEFINE F == FirstTicket  N == NextTicket
<1>1. /\ F \in Nat /\ N \in Nat /\ F < N
      /\ Len(QueueOf) = N - F /\ Len(QueueOf') = N - (F + 1)
      /\ \A n \in F .. N - 1 : QueueOf[n - F + 1] = TicketValue(n)
      /\ \A n \in F + 1 .. N - 1 : QueueOf'[n - (F + 1) + 1] = TicketValue(n)'
  BY DEF QueueRead
<1>2. ASSUME NEW i \in 1 .. Len(QueueOf') PROVE QueueOf'[i] = QueueOf[i + 1]
  <2>. HIDE DEF F, N
  <2>0. i \in 1 .. N - (F + 1)
    BY <1>1
  <2>1. /\ F + i \in F + 1 .. N - 1
        /\ (F + i) - (F + 1) + 1 = i /\ (F + i) - F + 1 = i + 1
    <3>1. F \in Nat /\ N \in Nat /\ F < N
      BY <1>1
    <3>. QED  BY <2>0, <3>1
  <2>2. PICK n \in F + 1 .. N - 1 : n = F + i
    BY <2>1
  <2>3. n \in F .. N - 1
    BY <1>1
  <2>4. QueueOf'[i] = TicketValue(n)' /\ QueueOf[i + 1] = TicketValue(n)
    BY <1>1, <2>1, <2>2, <2>3
  <2>. QED  BY <2>4 DEF F, N
<1>3. Len(QueueOf) = Len(QueueOf') + 1
  <2>. HIDE DEF F, N
  <2>. QED  BY <1>1
<1>4. QueueOf # <<>> /\ QueueOf' = Tail(QueueOf)
  BY <1>2, <1>3, TailByElement DEF QueueRead
<1>5. ASSUME NEW n \in Nat, n = F PROVE Head(QueueOf) = TicketValue(n)
  <2>. HIDE DEF F, N
  <2>1. n \in F .. N - 1 /\ n - F + 1 = 1
    BY <1>1, <1>5
  <2>2. QueueOf[1] = TicketValue(n)
    BY <1>1, <2>1
  <2>. QED  BY <1>4, <2>2 DEF QueueRead
<1>. QED  BY <1>4, <1>5

\* The refinement mapping of a pair.
PairMapping(p, c) ==
  /\ FirstTicket = Entered(c) /\ NextTicket = Entered(p)
  /\ QueueRead
  /\ \A n \in Nat : TicketValue(n) =
       IF Claimed(p) /\ loc[p] = n THEN <<p, sent[p] + 1>> ELSE storage[Slot(n)]
  /\ AcceptedOf = [q \in {p} |-> IF Claimed(p) THEN sent[p] + 1 ELSE sent[p]]
  /\ TakenOf = [d \in {c} |->
       IF Claimed(c) THEN Append(got[c], storage[Slot(loc[c])]) ELSE got[c]]

\* One thread is ahead of its index or it is not.
LEMMA AheadOfOne ==
  ASSUME TypeOK, NEW t \in Threads, OwnTicket(t)
  PROVE  pos[End(t)] + Ahead({t}) = Entered(t)
<1>. DEFINE A == path[t] = "spsc" /\ pc[t] \in {"publish", "advance"}
<1>1. Ahead({t}) = IF A THEN 1 ELSE 0
  <2>. DEFINE S == {u \in {t} : path[u] = "spsc" /\ pc[u] \in {"publish", "advance"}}
  <2>1. CASE A
    <3>1. S = {t}
      BY <2>1
    <3>2. Cardinality(S) = 1
      BY <3>1, FS_Singleton
    <3>. QED  BY <2>1, <3>2 DEF Ahead
  <2>2. CASE ~A
    <3>1. S = {}
      BY <2>2
    <3>2. Cardinality(S) = 0
      BY <3>1, FS_EmptySet
    <3>. QED  BY <2>2, <3>2 DEF Ahead
  <2>. QED  BY <2>1, <2>2
<1>2. pos[End(t)] \in Nat /\ path[t] \in {"mpmc", "spsc"}
  BY DEF TypeOK, End, Side
<1>. QED
  BY <1>1, <1>2 DEF Entered, Moved, Published, Lead, Claimed, OwnTicket

LEMMA PairMapped ==
  ASSUME PairProtocol, NEW p \in Producers, NEW c \in Consumers,
         Producers = {p}, Consumers = {c}
  PROVE  PairMapping(p, c)
<1>. USE PairNumbers
<1>1. FirstTicket = Entered(c) /\ NextTicket = Entered(p)
  BY AheadOfOne DEF FirstTicket, NextTicket
<1>2. ASSUME NEW n \in Nat
      PROVE  TicketValue(n) =
               IF Claimed(p) /\ loc[p] = n THEN <<p, sent[p] + 1>> ELSE storage[Slot(n)]
  <2>1. CASE Claimed(p) /\ loc[p] = n
    <3>. DEFINE q == CHOOSE q \in Producers : Claimed(q) /\ loc[q] = n
    <3>1. q \in Producers
      BY <2>1
    <3>. QED  BY <2>1, <3>1 DEF TicketValue
  <2>2. CASE ~(Claimed(p) /\ loc[p] = n)
    BY <2>2 DEF TicketValue
  <2>. QED  BY <2>1, <2>2
<1>3. AcceptedOf = [q \in {p} |-> IF Claimed(p) THEN sent[p] + 1 ELSE sent[p]]
  BY DEF AcceptedOf
<1>4. TakenOf = [d \in {c} |->
       IF Claimed(c) THEN Append(got[c], storage[Slot(loc[c])]) ELSE got[c]]
  BY DEF TakenOf
<1>5. Entered(p) \in Nat /\ Entered(c) \in Nat /\ Entered(c) <= Entered(p)
  <2>1. Claimed(c) => Moved(c) < Moved(p)
    BY DEF Claimed, AtSlot, Room
  <2>. QED  BY <2>1 DEF Entered
<1>6. ASSUME NEW n \in Nat PROVE TicketValue(n) \in Items
  <2>1. CASE Claimed(p) /\ loc[p] = n
    <3>1. sent[p] + 1 \in 1 .. MaxPushes
      BY <2>1, ThreadAssumption DEF TypeOK, Claimed, InCall
    <3>. QED  BY <1>2, <2>1, <3>1 DEF Items, Values
  <2>2. CASE ~(Claimed(p) /\ loc[p] = n)
    <3>1. TicketValue(n) = storage[Slot(n)]
      BY <1>2, <2>2
    <3>2. Slot(n) \in 0 .. Capacity - 1
      BY SlotInBuffer
    <3>. QED  BY <3>1, <3>2 DEF TypeOK, Items
  <2>. QED  BY <2>1, <2>2
<1>7. QueueRead
  <2>. DEFINE F == FirstTicket  N == NextTicket
  <2>0. F \in Nat /\ N \in Nat /\ F <= N
    BY <1>1, <1>5
  <2>1. QueueOf = [i \in 1 .. N - F |-> TicketValue(F + i - 1)]
    BY DEF QueueOf
  <2>. HIDE DEF F, N
  <2>2. QueueOf \in [1 .. N - F -> Items]
    <3>1. \A i \in 1 .. N - F : F + i - 1 \in Nat
      BY <2>0
    <3>. QED  BY <1>6, <2>1, <3>1
  <2>3. N - F \in Nat
    BY <2>0
  <2>4. QueueOf \in Seq(Items)
    BY <2>2, <2>3, SeqDef
  <2>5. Len(QueueOf) = N - F
    <3>1. Len(QueueOf) \in Nat /\ DOMAIN QueueOf = 1 .. Len(QueueOf)
      BY <2>4, LenProperties
    <3>2. DOMAIN QueueOf = 1 .. N - F
      BY <2>2
    <3>. QED  BY <2>3, <3>1, <3>2
  <2>6. ASSUME NEW n \in F .. N - 1 PROVE QueueOf[n - F + 1] = TicketValue(n)
    <3>1. n - F + 1 \in 1 .. N - F /\ F + (n - F + 1) - 1 = n
      BY <2>0
    <3>. QED  BY <2>1, <3>1
  <2>. QED  BY <2>0, <2>4, <2>5, <2>6 DEF F, N, QueueRead
<1>. QED  BY <1>1, <1>2, <1>3, <1>4, <1>7 DEF PairMapping

\* The mapping holds before a step and after it.
LEMMA PairMappings ==
  ASSUME NEW p \in Producers, NEW c \in Consumers, Producers = {p}, Consumers = {c}
  PROVE  /\ PairProtocol => PairMapping(p, c)
         /\ PairProtocol' => PairMapping(p, c)'
<1>1. PairProtocol => PairMapping(p, c)
  BY PairMapped
<1>2. PairProtocol' => PairMapping(p, c)'
  BY <1>1, PTL
<1>. QED  BY <1>1, <1>2

\* What FifoQueue sees of the thread that does not take the step.
LEMMA OtherSeen ==
  ASSUME NEW u \in Threads, SameThread(u)
  PROVE  (Claimed(u)' <=> Claimed(u)) /\ Entered(u)' = Entered(u) /\ loc'[u] = loc[u]
<1>1. Claimed(u)' <=> Claimed(u)
  BY DEF SameThread, Claimed
<1>. QED  BY <1>1 DEF SameThread, Entered

\* Steps that neither claim a ticket nor move a value are not seen.
LEMMA OwnSeen ==
  ASSUME TypeOK, TypeOK', NEW t \in Threads, OwnTicket(t), Step(t),
         ~Claim(t), ~Transfer(t)
  PROVE  /\ ~Claimed(t) /\ ~Claimed(t)' /\ Entered(t)' = Entered(t)
         /\ UNCHANGED <<storage, sent, got>>
<1>. USE DEF TypeOK, Claimed, Goto, shared
<1>1. /\ ~Claimed(t) /\ ~Claimed(t)'
      /\ UNCHANGED <<storage, sent, got>>
  <2>1. CASE ChoosePath(t)
    BY <2>1 DEF ChoosePath, Enter, Mark, Enroll, Select
  <2>2. CASE UseSlot(t)
    BY <2>2 DEF UseSlot, Load, CheckReady, CheckStale, CheckFails, ClaimFails,
                Publish, Advance
  <2>3. CASE Notify(t)
    <3>1. CASE Wake(t) /\ Asleep(End(t)) # {}
      <4>1. PICK v \in Asleep(End(t)) :
              pc' = [pc EXCEPT ![t] = "unflag", ![v] = "wait"]
        BY <3>1 DEF Wake
      <4>2. v # t
        BY <3>1, <4>1 DEF Asleep, Wake
      <4>. QED  BY <3>1, <4>1, <4>2 DEF Wake
    <3>2. CASE Wake(t) /\ Asleep(End(t)) = {}
      BY <3>2 DEF Wake
    <3>. QED  BY <2>3, <3>1, <3>2 DEF Notify, CheckWaiters, Flag, Unflag
  <2>4. CASE Block(t)
    BY <2>4 DEF Block, Observe, Register, Wait, Deregister
  <2>. QED  BY <2>1, <2>2, <2>3, <2>4 DEF Step
<1>2. Moved(t)' = Moved(t)
  <2>1. CASE Publish(t)
    BY <2>1, OwnStep
  <2>2. CASE ~Publish(t)
    BY <2>2, OwnStep
  <2>. QED  BY <2>1, <2>2
<1>. QED  BY <1>1, <1>2 DEF Entered

\* The slot a producer moves its value into is none of the queue's.
LEMMA ProducerApart ==
  ASSUME PairProtocol, NEW p \in Producers, NEW c \in Consumers, pc[p] = "transfer"
  PROVE  /\ loc[p] = Moved(p) /\ Moved(p) < Moved(c) + Capacity
         /\ \A n \in Moved(c) .. Moved(p) - 1 : Slot(n) # Slot(loc[p])
         /\ pc[c] = "transfer" => Slot(loc[c]) # Slot(loc[p])
<1>. USE PairNumbers
<1>1. loc[p] = Moved(p) /\ Moved(p) < Moved(c) + Capacity
  BY DEF OwnTicket, AtSlot, Room
<1>2. ASSUME NEW n \in Moved(c) .. Moved(p) - 1 PROVE Slot(n) # Slot(loc[p])
  <2>1. n \in Nat /\ loc[p] \in Nat /\ n < loc[p] /\ loc[p] < n + Capacity
    BY <1>1
  <2>. QED  BY <2>1, SlotDistinct
<1>3. ASSUME pc[c] = "transfer" PROVE loc[c] \in Moved(c) .. Moved(p) - 1
  BY <1>3 DEF OwnTicket, AtSlot, Room
<1>. QED  BY <1>1, <1>2, <1>3

\* The slot a consumer moves its value out of holds no later ticket.
LEMMA ConsumerApart ==
  ASSUME PairProtocol, NEW p \in Producers, NEW c \in Consumers, pc[c] = "transfer"
  PROVE  /\ loc[c] = Moved(c) /\ Moved(c) < Moved(p) /\ Entered(p) \in Nat
         /\ \A n \in Moved(c) + 1 .. Entered(p) - 1 : Slot(n) # Slot(loc[c])
<1>. USE PairNumbers
<1>1. loc[c] = Moved(c) /\ Moved(c) < Moved(p)
  BY DEF OwnTicket, AtSlot, Room
<1>2. Entered(p) \in Nat /\ Entered(p) <= Moved(c) + Capacity
  BY DEF Entered, Claimed, AtSlot, Room
<1>3. ASSUME NEW n \in Moved(c) + 1 .. Entered(p) - 1 PROVE Slot(n) # Slot(loc[c])
  <2>1. n \in Nat /\ loc[c] \in Nat /\ loc[c] < n /\ n < loc[c] + Capacity
    BY <1>1, <1>2
  <2>. QED  BY <2>1, SlotDistinct
<1>. QED  BY <1>1, <1>2, <1>3

LEMMA PairStutter ==
  ASSUME NEW p \in Producers, NEW c \in Consumers,
         PairProtocol, PairMapping(p, c), PairMapping(p, c)',
         NEW t \in {p, c}, NEW u \in {p, c}, t # u,
         SameThread(u), ~Claimed(t), ~Claimed(t)', Entered(t)' = Entered(t),
         UNCHANGED <<storage, sent, got>>
  PROVE  UNCHANGED <<QueueOf, AcceptedOf, TakenOf>>
<1>. USE PairNumbers
<1>1. u \in Threads
  OBVIOUS
<1>2. (Claimed(u)' <=> Claimed(u)) /\ Entered(u)' = Entered(u) /\ loc'[u] = loc[u]
  BY <1>1, OtherSeen
<1>3. /\ Claimed(p)' <=> Claimed(p)
      /\ Claimed(c)' <=> Claimed(c)
      /\ Entered(p)' = Entered(p) /\ Entered(c)' = Entered(c)
      /\ Claimed(p) => loc'[p] = loc[p]
      /\ Claimed(c) => loc'[c] = loc[c]
  <2>1. CASE t = p /\ u = c
    BY <1>2, <2>1
  <2>2. CASE t = c /\ u = p
    BY <1>2, <2>2
  <2>. QED  BY <2>1, <2>2
<1>4. ASSUME NEW n \in Nat PROVE TicketValue(n)' = TicketValue(n)
  <2>1. TicketValue(n) =
          IF Claimed(p) /\ loc[p] = n THEN <<p, sent[p] + 1>> ELSE storage[Slot(n)]
    BY DEF PairMapping
  <2>2. TicketValue(n)' =
          IF Claimed(p)' /\ loc'[p] = n THEN <<p, sent'[p] + 1>> ELSE storage'[Slot(n)]
    BY DEF PairMapping
  <2>3. CASE Claimed(p)
    BY <1>3, <2>1, <2>2, <2>3
  <2>4. CASE ~Claimed(p)
    BY <1>3, <2>1, <2>2, <2>4
  <2>. QED  BY <2>3, <2>4
<1>5. QueueOf' = QueueOf
  <2>1. FirstTicket \in Nat /\ NextTicket \in Nat
    BY DEF PairMapping, QueueRead
  <2>2. \A n \in FirstTicket .. NextTicket - 1 : TicketValue(n)' = TicketValue(n)
    BY <1>4, <2>1
  <2>3. /\ FirstTicket' = FirstTicket /\ NextTicket' = NextTicket
        /\ QueueRead /\ QueueRead'
    BY <1>3 DEF PairMapping
  <2>. QED  BY <2>2, <2>3, QueueKept
<1>6. AcceptedOf' = AcceptedOf
  <2>1. (IF Claimed(p)' THEN sent'[p] + 1 ELSE sent'[p])
          = (IF Claimed(p) THEN sent[p] + 1 ELSE sent[p])
    BY <1>3
  <2>. QED  BY <2>1 DEF PairMapping
<1>7. TakenOf' = TakenOf
  <2>1. CASE Claimed(c)
    BY <1>3, <2>1 DEF PairMapping
  <2>2. CASE ~Claimed(c)
    BY <1>3, <2>2 DEF PairMapping
  <2>. QED  BY <2>1, <2>2
<1>. QED  BY <1>5, <1>6, <1>7

\* A producer's claim, and its move of the value on the SPSC path, push.
LEMMA PairPush ==
  ASSUME NEW p \in Producers, NEW c \in Consumers,
         PairProtocol, PairMapping(p, c), PairMapping(p, c)',
         TypeOK', SameThread(c), Claim(p) \/ Transfer(p),
         p # c, Producers = {p}, Consumers = {c}
  PROVE  Fifo!Push(p) \/ UNCHANGED <<QueueOf, AcceptedOf, TakenOf>>
<1>. USE PairNumbers
<1>1. (Claimed(c)' <=> Claimed(c)) /\ Entered(c)' = Entered(c) /\ loc'[c] = loc[c]
  BY OtherSeen
<1>2. sent[p] < MaxPushes /\ sent[p] \in Nat
  BY DEF TypeOK, Claim, Transfer, InCall
<1>3. /\ FirstTicket \in Nat /\ NextTicket \in Nat
      /\ FirstTicket = Entered(c) /\ NextTicket = Entered(p)
      /\ FirstTicket' = FirstTicket /\ NextTicket' = Entered(p)'
      /\ Len(QueueOf) = NextTicket - FirstTicket
  BY <1>1 DEF PairMapping, QueueRead
<1>. DEFINE v == <<p, sent[p] + 1>>
<1>4. ASSUME /\ NextTicket' = NextTicket + 1
             /\ NextTicket < FirstTicket + Capacity
             /\ \A n \in FirstTicket .. NextTicket - 1 : TicketValue(n)' = TicketValue(n)
             /\ \A n \in Nat : n = NextTicket => TicketValue(n)' = v
             /\ AcceptedOf[p] = sent[p] /\ AcceptedOf' = [q \in {p} |-> sent[p] + 1]
             /\ TakenOf' = TakenOf
      PROVE  Fifo!Push(p)
  <2>1. QueueOf' = Append(QueueOf, v)
    <3>. HIDE DEF v
    <3>. QED  BY <1>3, <1>4, QueuePushed DEF PairMapping
  <2>2. AcceptedOf' = [AcceptedOf EXCEPT ![p] = @ + 1]
    BY <1>4 DEF PairMapping
  <2>3. Len(QueueOf) < Capacity
    BY <1>3, <1>4
  <2>. QED  BY <1>2, <1>4, <2>1, <2>2, <2>3 DEF Fifo!Push
<1>5. CASE Claim(p)
  <2>1. /\ pc[p] = "claim" /\ path[p] = "mpmc" /\ pc'[p] = "transfer"
        /\ UNCHANGED <<sequence, storage, sent, got, path, loc>>
    BY <1>5 DEF Claim, Goto, TypeOK, OwnTicket
  <2>2. ~Claimed(p) /\ Claimed(p)'
    BY <2>1 DEF Claimed
  <2>3. Entered(p) = loc[p] /\ Moved(p) < Moved(c) + Capacity
    BY <2>1, <2>2 DEF Entered, OwnTicket, AtSlot, Room
  <2>4. Entered(p)' = Entered(p) + 1
    <3>1. Moved(p)' = Moved(p)
      BY <1>5, OwnStep DEF Publish, Transfer, Claim, Step, UseSlot
    <3>. QED  BY <2>2, <3>1 DEF Entered
  <2>5. NextTicket < FirstTicket + Capacity
    BY <1>3, <2>2, <2>3 DEF Entered
  <2>6. ASSUME NEW n \in FirstTicket .. NextTicket - 1
        PROVE  TicketValue(n)' = TicketValue(n)
    <3>1. n \in Nat /\ n # loc[p]
      BY <1>3, <2>3
    <3>. QED  BY <2>1, <2>2, <3>1 DEF PairMapping
  <2>7. ASSUME NEW n \in Nat, n = NextTicket PROVE TicketValue(n)' = v
    BY <1>3, <2>1, <2>2, <2>3, <2>7 DEF PairMapping
  <2>8. AcceptedOf[p] = sent[p] /\ AcceptedOf' = [q \in {p} |-> sent[p] + 1]
    BY <2>1, <2>2 DEF PairMapping
  <2>9. TakenOf' = TakenOf
    BY <1>1, <2>1 DEF PairMapping
  <2>. QED  BY <1>3, <1>4, <2>4, <2>5, <2>6, <2>7, <2>8, <2>9
<1>6. CASE Transfer(p)
  <2>1. /\ pc[p] = "transfer" /\ pc'[p] = "publish"
        /\ storage' = [storage EXCEPT ![Slot(loc[p])] = v]
        /\ sent' = [sent EXCEPT ![p] = @ + 1]
        /\ UNCHANGED <<sequence, got, path, loc>>
    BY <1>6 DEF Transfer, Goto, TypeOK
  <2>2. sent'[p] = sent[p] + 1
    BY <2>1 DEF TypeOK
  <2>3. ~Claimed(p)'
    BY <2>1 DEF Claimed
  <2>4. Moved(p)' = Moved(p) + 1
    BY <1>6, OwnStep DEF Step, UseSlot
  <2>5. /\ \A n \in Nat : Slot(n) # Slot(loc[p]) => storage'[Slot(n)] = storage[Slot(n)]
        /\ storage'[Slot(loc[p])] = v
    <3>1. \A n \in Nat : Slot(n) \in DOMAIN storage
      BY SlotInBuffer DEF TypeOK
    <3>. HIDE DEF v
    <3>. QED  BY <2>1, <3>1
  <2>6. /\ loc[p] = Moved(p) /\ Moved(p) < Moved(c) + Capacity
        /\ \A n \in Moved(c) .. Moved(p) - 1 : Slot(n) # Slot(loc[p])
        /\ pc[c] = "transfer" => Slot(loc[c]) # Slot(loc[p])
    BY <2>1, ProducerApart
  <2>7. ASSUME NEW n \in FirstTicket .. Moved(p) - 1
        PROVE  TicketValue(n)' = TicketValue(n)
    <3>1. n \in Nat /\ n # loc[p] /\ n \in Moved(c) .. Moved(p) - 1
      <4>. DEFINE F == FirstTicket  M == Moved(p)  G == Moved(c)
      <4>1. F \in Nat /\ M \in Nat /\ G \in Nat /\ loc[p] = M
        BY <1>3, <2>6
      <4>2. G <= F
        BY <1>3, <4>1 DEF Entered
      <4>3. n \in F .. M - 1
        OBVIOUS
      <4>. HIDE DEF F, M, G
      <4>4. n \in Nat /\ n # M /\ n \in G .. M - 1
        BY <4>1, <4>2, <4>3
      <4>. QED  BY <4>1, <4>4 DEF M, G
    <3>2. storage'[Slot(n)] = storage[Slot(n)]
      BY <2>5, <2>6, <3>1
    <3>. QED  BY <2>3, <3>1, <3>2 DEF PairMapping
  <2>8. ASSUME NEW n \in Nat, n = loc[p] PROVE TicketValue(n)' = v
    BY <2>3, <2>5, <2>8 DEF PairMapping
  <2>9. TakenOf' = TakenOf
    <3>1. CASE Claimed(c)
      <4>1. storage'[Slot(loc[c])] = storage[Slot(loc[c])]
        BY <2>5, <2>6, <3>1 DEF Claimed
      <4>. QED  BY <1>1, <2>1, <3>1, <4>1 DEF PairMapping
    <3>2. CASE ~Claimed(c)
      BY <1>1, <2>1, <3>2 DEF PairMapping
    <3>. QED  BY <3>1, <3>2
  <2>10. AcceptedOf' = [q \in {p} |-> sent[p] + 1]
    BY <2>2, <2>3 DEF PairMapping
  <2>11. CASE path[p] = "mpmc"
    <3>1. Claimed(p)
      BY <2>1, <2>11 DEF Claimed
    <3>2. NextTicket = Moved(p) + 1 /\ NextTicket' = NextTicket
      BY <1>3, <2>3, <2>4, <3>1 DEF Entered
    <3>3. ASSUME NEW n \in FirstTicket .. NextTicket - 1
          PROVE  TicketValue(n)' = TicketValue(n)
      <4>1. CASE n = loc[p]
        <5>1. TicketValue(n) = v
          BY <3>1, <4>1 DEF PairMapping
        <5>2. n \in Nat
          BY <1>3
        <5>3. TicketValue(n)' = v
          BY <2>8, <4>1, <5>2
        <5>. QED  BY <5>1, <5>3
      <4>2. CASE n # loc[p]
        <5>. DEFINE F == FirstTicket  N == NextTicket  M == Moved(p)
        <5>0. /\ F \in Nat /\ M \in Nat /\ N = M + 1 /\ n # M
              /\ n \in F .. N - 1
          BY <1>3, <2>6, <3>2, <4>2
        <5>1. n \in FirstTicket .. Moved(p) - 1
          <6>. HIDE DEF F, N, M
          <6>1. n \in F .. M - 1
            BY <5>0
          <6>. QED  BY <6>1 DEF F, M
        <5>. QED  BY <2>7, <5>1
      <4>. QED  BY <4>1, <4>2
    <3>4. QueueOf' = QueueOf
      BY <1>3, <3>2, <3>3, QueueKept DEF PairMapping
    <3>5. AcceptedOf' = AcceptedOf
      BY <2>10, <3>1 DEF PairMapping
    <3>. QED  BY <2>9, <3>4, <3>5
  <2>12. CASE path[p] # "mpmc"
    <3>1. ~Claimed(p)
      BY <2>12 DEF Claimed
    <3>2. NextTicket = Moved(p) /\ NextTicket' = NextTicket + 1
      BY <1>3, <2>3, <2>4, <3>1 DEF Entered
    <3>3. NextTicket < FirstTicket + Capacity
      <4>. DEFINE F == FirstTicket  M == Moved(p)  G == Moved(c)
      <4>1. F \in Nat /\ M \in Nat /\ G \in Nat /\ M < G + Capacity
        BY <1>3, <2>6
      <4>2. G <= F
        BY <1>3, <4>1 DEF Entered
      <4>. HIDE DEF F, M, G
      <4>3. M < F + Capacity
        BY <4>1, <4>2
      <4>. QED  BY <3>2, <4>3 DEF F, M
    <3>4. \A n \in FirstTicket .. NextTicket - 1 : TicketValue(n)' = TicketValue(n)
      BY <2>7, <3>2
    <3>5. \A n \in Nat : n = NextTicket => TicketValue(n)' = v
      BY <2>6, <2>8, <3>2
    <3>6. AcceptedOf[p] = sent[p]
      BY <3>1 DEF PairMapping
    <3>. QED  BY <1>4, <2>9, <2>10, <3>2, <3>3, <3>4, <3>5, <3>6
  <2>. QED  BY <2>11, <2>12
<1>. QED  BY <1>5, <1>6

\* A consumer's claim, and its move of the value on the SPSC path, pop.
LEMMA PairPop ==
  ASSUME NEW p \in Producers, NEW c \in Consumers,
         PairProtocol, PairMapping(p, c), PairMapping(p, c)',
         TypeOK', SameThread(p), Claim(c) \/ Transfer(c),
         p # c, Producers = {p}, Consumers = {c}
  PROVE  Fifo!Pop(c) \/ UNCHANGED <<QueueOf, AcceptedOf, TakenOf>>
<1>. USE PairNumbers
<1>1. (Claimed(p)' <=> Claimed(p)) /\ Entered(p)' = Entered(p) /\ loc'[p] = loc[p]
  BY OtherSeen
<1>2. /\ FirstTicket \in Nat /\ NextTicket \in Nat
      /\ FirstTicket = Entered(c) /\ NextTicket = Entered(p)
      /\ NextTicket' = NextTicket /\ FirstTicket' = Entered(c)'
      /\ QueueRead /\ QueueRead'
  BY <1>1 DEF PairMapping, QueueRead
<1>. DEFINE v == storage[Slot(loc[c])]
<1>3. ASSUME /\ FirstTicket' = FirstTicket + 1
             /\ FirstTicket < NextTicket
             /\ \A n \in FirstTicket + 1 .. NextTicket - 1 :
                  TicketValue(n)' = TicketValue(n)
             /\ \A n \in Nat : n = FirstTicket => TicketValue(n) = v
             /\ TakenOf[c] = got[c] /\ TakenOf' = [d \in {c} |-> Append(got[c], v)]
             /\ AcceptedOf' = AcceptedOf
      PROVE  Fifo!Pop(c)
  <2>1. /\ QueueOf # <<>> /\ QueueOf' = Tail(QueueOf)
        /\ \A n \in Nat : n = FirstTicket => Head(QueueOf) = TicketValue(n)
    <3>. HIDE DEF v
    <3>. QED  BY <1>2, <1>3, QueuePopped
  <2>2. Head(QueueOf) = v
    BY <1>2, <1>3, <2>1
  <2>3. TakenOf' = [TakenOf EXCEPT ![c] = Append(@, Head(QueueOf))]
    <3>. HIDE DEF v
    <3>. QED  BY <1>3, <2>2 DEF PairMapping
  <2>. QED  BY <1>3, <2>1, <2>3 DEF Fifo!Pop
<1>4. ASSUME sent' = sent PROVE AcceptedOf' = AcceptedOf
  <2>1. (IF Claimed(p)' THEN sent'[p] + 1 ELSE sent'[p])
          = (IF Claimed(p) THEN sent[p] + 1 ELSE sent[p])
    BY <1>1, <1>4
  <2>. QED  BY <2>1 DEF PairMapping
<1>5. ASSUME NEW n \in Nat, sent' = sent, storage'[Slot(n)] = storage[Slot(n)]
      PROVE  TicketValue(n)' = TicketValue(n)
  <2>1. TicketValue(n) =
          IF Claimed(p) /\ loc[p] = n THEN <<p, sent[p] + 1>> ELSE storage[Slot(n)]
    BY DEF PairMapping
  <2>2. TicketValue(n)' =
          IF Claimed(p)' /\ loc'[p] = n THEN <<p, sent'[p] + 1>> ELSE storage'[Slot(n)]
    BY DEF PairMapping
  <2>. QED  BY <1>1, <1>5, <2>1, <2>2
<1>6. ASSUME AtSlot(c), NEW n \in Nat, n = Moved(c), pc[c] # "publish"
      PROVE  /\ TicketValue(n) = v /\ loc[c] = n
             /\ Moved(c) < Moved(p) /\ Moved(p) <= NextTicket
  <2>1. loc[c] = n /\ Published(c) = Moved(c) /\ Published(c) < Published(p)
    <3>1. loc[c] = Published(c) /\ Published(c) < Published(p)
      BY <1>6 DEF OwnTicket, Room
    <3>2. Moved(c) = Published(c)
      BY <1>6
    <3>. QED  BY <1>6, <3>1, <3>2
  <2>2. Claimed(p) => loc[p] # n
    <3>1. Claimed(p) => loc[p] = Published(p)
      BY DEF OwnTicket, Claimed, AtSlot
    <3>2. Published(c) = n /\ Published(c) < Published(p) /\ Published(p) \in Nat
      BY <1>6, <2>1
    <3>. QED  BY <3>1, <3>2
  <2>3. TicketValue(n) = v
    BY <2>1, <2>2 DEF PairMapping
  <2>4. Moved(c) < Moved(p) /\ Moved(p) <= NextTicket
    BY <1>2, <2>1 DEF Entered
  <2>. QED  BY <2>1, <2>3, <2>4
<1>7. CASE Claim(c)
  <2>1. /\ pc[c] = "claim" /\ path[c] = "mpmc" /\ pc'[c] = "transfer"
        /\ UNCHANGED <<sequence, storage, sent, got, path, loc>>
    BY <1>7 DEF Claim, Goto, TypeOK, OwnTicket
  <2>2. ~Claimed(c) /\ Claimed(c)'
    BY <2>1 DEF Claimed
  <2>3. Entered(c)' = Entered(c) + 1
    <3>1. Moved(c)' = Moved(c)
      BY <1>7, OwnStep DEF Publish, Transfer, Claim, Step, UseSlot
    <3>. QED  BY <2>2, <3>1 DEF Entered
  <2>4. FirstTicket = Moved(c) /\ FirstTicket < NextTicket
    <3>1. FirstTicket = Moved(c)
      BY <1>2, <2>2 DEF Entered
    <3>2. AtSlot(c) /\ pc[c] # "publish"
      BY <2>1 DEF AtSlot
    <3>. QED  BY <1>2, <1>6, <3>1, <3>2
  <2>5. \A n \in Nat : n = FirstTicket => TicketValue(n) = v
    BY <1>6, <2>1, <2>4 DEF AtSlot
  <2>6. \A n \in FirstTicket + 1 .. NextTicket - 1 : TicketValue(n)' = TicketValue(n)
    BY <1>2, <1>5, <2>1
  <2>7. TakenOf[c] = got[c] /\ TakenOf' = [d \in {c} |-> Append(got[c], v)]
    BY <2>1, <2>2 DEF PairMapping
  <2>. QED  BY <1>2, <1>3, <1>4, <2>1, <2>3, <2>4, <2>5, <2>6, <2>7
<1>8. CASE Transfer(c)
  <2>1. /\ pc[c] = "transfer" /\ pc'[c] = "publish"
        /\ storage' = [storage EXCEPT ![Slot(loc[c])] = None]
        /\ got' = [got EXCEPT ![c] = Append(@, v)]
        /\ UNCHANGED <<sequence, sent, path, loc>>
    BY <1>8 DEF Transfer, Goto, TypeOK
  <2>2. got'[c] = Append(got[c], v)
    BY <2>1 DEF TypeOK
  <2>3. ~Claimed(c)'
    BY <2>1 DEF Claimed
  <2>4. Moved(c)' = Moved(c) + 1
    BY <1>8, OwnStep DEF Step, UseSlot
  <2>5. \A n \in Nat : Slot(n) # Slot(loc[c]) => storage'[Slot(n)] = storage[Slot(n)]
    <3>1. \A n \in Nat : Slot(n) \in DOMAIN storage
      BY SlotInBuffer DEF TypeOK
    <3>. QED  BY <2>1, <3>1
  <2>6. \A n \in Moved(c) + 1 .. NextTicket - 1 : TicketValue(n)' = TicketValue(n)
    <3>1. \A n \in Moved(c) + 1 .. NextTicket - 1 : Slot(n) # Slot(loc[c])
      BY <1>2, <2>1, ConsumerApart
    <3>2. \A n \in Moved(c) + 1 .. NextTicket - 1 : n \in Nat
      BY <1>2
    <3>. QED  BY <1>5, <2>1, <2>5, <3>1, <3>2
  <2>7. TakenOf' = [d \in {c} |-> Append(got[c], v)]
    BY <2>2, <2>3 DEF PairMapping
  <2>8. CASE path[c] = "mpmc"
    <3>1. Claimed(c)
      BY <2>1, <2>8 DEF Claimed
    <3>2. FirstTicket = Moved(c) + 1 /\ FirstTicket' = FirstTicket
      BY <1>2, <2>3, <2>4, <3>1 DEF Entered
    <3>3. QueueOf' = QueueOf
      BY <1>2, <2>6, <3>2, QueueKept
    <3>4. TakenOf' = TakenOf
      BY <2>7, <3>1 DEF PairMapping
    <3>. QED  BY <1>4, <2>1, <3>3, <3>4
  <2>9. CASE path[c] # "mpmc"
    <3>1. ~Claimed(c)
      BY <2>9 DEF Claimed
    <3>2. FirstTicket = Moved(c) /\ FirstTicket' = FirstTicket + 1
      BY <1>2, <2>3, <2>4, <3>1 DEF Entered
    <3>3. FirstTicket < NextTicket /\ \A n \in Nat : n = FirstTicket => TicketValue(n) = v
      BY <1>2, <1>6, <2>1, <3>2 DEF AtSlot
    <3>4. TakenOf[c] = got[c]
      BY <3>1 DEF PairMapping
    <3>. QED  BY <1>3, <1>4, <2>1, <2>6, <2>7, <3>2, <3>3, <3>4
  <2>. QED  BY <2>8, <2>9
<1>. QED  BY <1>7, <1>8

LEMMA PairFifoStep ==
  ASSUME NEW p \in Producers, NEW c \in Consumers, Producers = {p}, Consumers = {c},
         PairProtocol, PairProtocol', PairMapping(p, c), PairMapping(p, c)',
         [Next]_vars
  PROVE  [Fifo!Next]_(Fifo!vars)
<1>1. CASE UNCHANGED vars
  <2>1. UNCHANGED <<QueueOf, AcceptedOf, TakenOf>>
    BY <1>1 DEF vars, shared, QueueOf, AcceptedOf, TakenOf, FirstTicket,
                NextTicket, Ahead, TicketValue, Claimed
  <2>. QED  BY <2>1 DEF Fifo!vars
<1>2. ASSUME NEW t \in Threads, Step(t) PROVE [Fifo!Next]_(Fifo!vars)
  <2>0. TypeOK /\ TypeOK' /\ p # c /\ p \in Threads /\ c \in Threads
        /\ End(p) = "head" /\ End(c) = "tail" /\ OwnTicket(t)
    BY PairNumbers DEF PairProtocol
  <2>1. PICK u \in Threads : t # u /\ End(t) # End(u) /\ u \in {p, c} /\ t \in {p, c}
    BY <2>0 DEF Threads
  <2>2. SameThread(u)
    BY <1>2, <2>0, <2>1, OtherThread
  <2>3. CASE Claim(t) \/ Transfer(t)
    <3>1. CASE t = p
      BY <2>0, <2>1, <2>2, <2>3, <3>1, PairPush DEF Fifo!Next, Fifo!vars
    <3>2. CASE t = c
      BY <2>0, <2>1, <2>2, <2>3, <3>2, PairPop DEF Fifo!Next, Fifo!vars
    <3>. QED  BY <2>1, <3>1, <3>2
  <2>4. CASE ~Claim(t) /\ ~Transfer(t)
    <3>1. /\ ~Claimed(t) /\ ~Claimed(t)' /\ Entered(t)' = Entered(t)
          /\ UNCHANGED <<storage, sent, got>>
      BY <1>2, <2>0, <2>4, OwnSeen
    <3>. QED  BY <2>1, <2>2, <3>1, PairStutter DEF Fifo!vars
  <2>. QED  BY <2>3, <2>4
<1>. QED  BY <1>1, <1>2 DEF Next

\* Between one producer and one consumer the queue is a bounded FIFO queue,
\* although each of them goes over from the MPMC path to the SPSC path on its
\* own: values come out in the order in which they went in, none lost.
THEOREM PairFifoCorrect ==
  ASSUME OneEach, Capacity > 1
  PROVE  Spec => ImplementsFifo
<1>1. PICK p, c : p \in Producers /\ c \in Consumers /\ Producers = {p} /\ Consumers = {c}
  BY DEF OneEach
<1>2. /\ PairProtocol => PairMapping(p, c)
      /\ PairProtocol' => PairMapping(p, c)'
  BY <1>1, PairMappings
<1>3. PairProtocol /\ Init => Fifo!Init
  <2>. SUFFICES ASSUME PairProtocol, Init PROVE Fifo!Init
    OBVIOUS
  <2>1. PairMapping(p, c)
    BY <1>2
  <2>2. p \in Threads /\ c \in Threads /\ pc[p] = "idle" /\ pc[c] = "idle"
    BY <1>1 DEF Threads, Init
  <2>3. ~Claimed(p) /\ ~Claimed(c) /\ Moved(p) = 0 /\ Moved(c) = 0
    BY <2>2 DEF Claimed, Moved, Published, Lead, Init, End, Side
  <2>4. QueueOf = <<>>
    BY <2>1, <2>3, EmptySeq, SeqEqual DEF PairMapping, QueueRead, Entered
  <2>5. AcceptedOf = [q \in Producers |-> 0] /\ TakenOf = [d \in Consumers |-> <<>>]
    BY <1>1, <2>1, <2>3 DEF PairMapping, Init
  <2>. QED  BY <2>4, <2>5 DEF Fifo!Init
<1>4. PairProtocol /\ PairProtocol' /\ [Next]_vars => [Fifo!Next]_(Fifo!vars)
  BY <1>1, <1>2, PairFifoStep
<1>. QED
  BY <1>3, <1>4, PairCorrect, PTL DEF Spec, ImplementsFifo, Fifo!Spec
=============================================================================
