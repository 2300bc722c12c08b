------------------------------ MODULE WheelTimer ------------------------------
(***************************************************************************)
(* katana::wheel_timer, which holds the timeouts of connections.           *)
(*                                                                         *)
(* A timer is an entry, and a handle of the entry in the slot that comes   *)
(* round when it expires.  tick() advances the wheel for the time that has *)
(* passed, slot by slot, and runs the callbacks of the timers that expire. *)
(* cancel() only marks an entry; its handle stays in the slot, until one   *)
(* of the visits that compact.  Callbacks may add and cancel timers.       *)
(*                                                                         *)
(* An index of entries_ starts at 1.  The time that passes is what matters *)
(* to the wheel: lag stands for now - last_tick_.                          *)
(***************************************************************************)
EXTENDS Integers, FiniteSets, FiniteSetsExt, SequencesExt

CONSTANTS
  WHEEL_SIZE,              \* slots
  TICK_MS,                 \* milliseconds to a tick
  COMPACT_INTERVAL_TICKS,  \* one in so many visits drops cancelled timers
  Generations,             \* generations an id can tell apart: 2^32
  Timeouts,                \* the timeouts that timers are added with
  MaxAdds,                 \* bound: timers that are added
  MaxLag                   \* bound: time between two calls of tick()

ASSUME WheelAssumption ==
  /\ WHEEL_SIZE \in Nat \ {0}
  /\ TICK_MS \in Nat \ {0}
  /\ COMPACT_INTERVAL_TICKS \in Nat \ {0}
  /\ Generations \in Nat \ {0, 1}
  /\ Timeouts \subseteq Nat
  /\ MaxAdds \in Nat
  /\ MaxLag \in Nat

VARIABLES
  lag,                   \* the time since last_tick_
  current_slot,          \* current_slot_
  slots,                 \* slots_: the handles in each slot
  entries,               \* entries_
  free_list,             \* free_list_
  pending_entries,       \* pending_entries_
  compact_tick_counter,  \* compact_tick_counter_ modulo its interval
  in_callback,           \* tick() has called a callback
  ticks,                 \* how many slots tick() has yet to advance
  handles,               \* the handles advance_slot has yet to look at
  should_compact,        \* whether this visit drops cancelled timers
  made,                  \* history: the timers that were added, in order
  fired,                 \* history: those whose callbacks have been run
  dropped                \* history: those for which cancel() returned true

wheel   == <<current_slot, slots, entries, free_list, pending_entries>>
visit   == <<ticks, handles, should_compact, compact_tick_counter>>
history == <<made, fired, dropped>>
vars    == <<lag, wheel, visit, in_callback, history>>

Slots  == 0 .. WHEEL_SIZE - 1
Made   == DOMAIN made

Init ==
  /\ lag = 0
  /\ current_slot = 0
  /\ slots = [s \in Slots |-> <<>>]
  /\ entries = <<>>
  /\ free_list = <<>>
  /\ pending_entries = 0
  /\ compact_tick_counter = 0
  /\ in_callback = FALSE
  /\ ticks = 0
  /\ handles = <<>>
  /\ should_compact = FALSE
  /\ made = <<>>
  /\ fired = {}
  /\ dropped = {}

\* No call of tick() is going on, or none of its steps before a callback returns.
Idle == ~in_callback /\ handles = <<>> /\ ticks = 0
Free == Idle \/ in_callback

\* Mutant: any id of the entry will do.
AnyGeneration(h) == entries[h.index].active

\* Whether a handle, or an id, is of the entry as it is now.
Current(h) ==
  /\ entries[h.index].active
  /\ entries[h.index].generation = h.generation

-----------------------------------------------------------------------------
(* add() and cancel(), by the owner of the wheel or by a callback. *)

\* Generation 0 is left out.
NextGeneration(g) == IF g + 1 = Generations THEN 1 ELSE g + 1

\* The ticks to a timeout, which is 1 ms at least, rounded up.
TicksOf(timeout) == (Max({1, timeout}) + TICK_MS - 1) \div TICK_MS

Add(timeout) ==
  /\ Free
  /\ Len(made) < MaxAdds
  /\ LET reused == free_list # <<>>
         index  == IF reused THEN Last(free_list) ELSE Len(entries) + 1
         handle == [index |-> index,
                    generation |-> IF reused
                                   THEN NextGeneration(entries[index].generation)
                                   ELSE 1]
         target == (current_slot + (TicksOf(timeout) % WHEEL_SIZE)) % WHEEL_SIZE
         entry  == [generation |-> handle.generation,
                    remaining_rounds |-> TicksOf(timeout) \div WHEEL_SIZE,
                    slot_idx |-> target,
                    active |-> TRUE,
                    cancelled |-> reused /\ entries[index].cancelled,
                    timer |-> Len(made) + 1]
     IN  /\ entries' = IF reused THEN [entries EXCEPT ![index] = entry]
                                 ELSE Append(entries, entry)
         /\ free_list' = IF reused THEN Front(free_list) ELSE free_list
         /\ slots' = [slots EXCEPT ![target] = Append(@, handle)]
         /\ made' = Append(made, [id |-> handle, timeout |-> timeout,
                                  lag |-> lag + ticks * TICK_MS, age |-> 0])
  /\ pending_entries' = pending_entries + 1
  /\ UNCHANGED <<lag, current_slot, visit, in_callback, fired, dropped>>

\* The timers that are set: neither fired nor cancelled.
Live == Made \ (fired \union dropped)

\* Of timers that are no longer set only the id is kept.
Forget(t) == made' = [made EXCEPT ![t].timeout = 0, ![t].age = 0, ![t].lag = 0]

\* A cancel() of an id that is not current returns false and does nothing.
Cancel(t) ==
  /\ Free
  /\ Current(made[t].id)
  /\ entries' = [entries EXCEPT ![made[t].id.index].cancelled = TRUE]
  /\ dropped' = dropped \union {t}
  /\ Forget(t)
  /\ UNCHANGED <<lag, current_slot, slots, free_list, pending_entries, visit, in_callback, fired>>

-----------------------------------------------------------------------------
(* tick(). *)

\* Nothing happens before a tick has passed; then last_tick_ moves by whole ticks.
Tick ==
  /\ Idle
  /\ lag >= TICK_MS
  /\ ticks' = lag \div TICK_MS
  /\ lag' = lag % TICK_MS
  /\ UNCHANGED <<wheel, handles, should_compact, compact_tick_counter,
                 in_callback, history>>

\* advance_slot takes the handles of the next slot.
Advance ==
  /\ ~in_callback
  /\ handles = <<>> /\ ticks > 0
  /\ ticks' = ticks - 1
  /\ LET next  == (current_slot + 1) % WHEEL_SIZE
         count == (compact_tick_counter + 1) % COMPACT_INTERVAL_TICKS
     IN  /\ current_slot' = next
         /\ handles' = slots[next]
         /\ slots' = [slots EXCEPT ![next] = <<>>]
         /\ IF slots[next] = <<>>
            THEN UNCHANGED <<should_compact, compact_tick_counter>>
            ELSE /\ compact_tick_counter' = count
                 /\ should_compact' = (count = 0)
  /\ UNCHANGED <<lag, entries, free_list, pending_entries, in_callback, history>>

\* The next handle of the visit.
handle == Head(handles)
entry  == entries[handle.index]

Examine ==
  /\ ~in_callback
  /\ handles # <<>>
  /\ handles' = Tail(handles)
  /\ UNCHANGED <<lag, current_slot, ticks, should_compact, compact_tick_counter, dropped>>

\* Mutant: the count is left alone.
ReleaseUncounted ==
  /\ entries' = [entries EXCEPT ![handle.index] =
                   [@ EXCEPT !.active = FALSE, !.cancelled = FALSE,
                             !.remaining_rounds = 0, !.slot_idx = 0]]
  /\ free_list' = Append(free_list, handle.index)
  /\ UNCHANGED pending_entries

Release ==
  /\ entries' = [entries EXCEPT ![handle.index] =
                   [@ EXCEPT !.active = FALSE, !.cancelled = FALSE,
                             !.remaining_rounds = 0, !.slot_idx = 0]]
  /\ free_list' = Append(free_list, handle.index)
  /\ pending_entries' = Max({0, pending_entries - 1})

PutBack == slots' = [slots EXCEPT ![current_slot] = Append(@, handle)]

\* The handle goes; a cancelled entry is released by a visit that compacts.
Discard ==
  /\ Examine
  /\ \/ /\ ~Current(handle)
        /\ UNCHANGED <<entries, free_list, pending_entries>>
     \/ /\ Current(handle) /\ entry.cancelled /\ should_compact
        /\ Release
  /\ UNCHANGED <<slots, in_callback, made, fired>>

KeepCancelled ==
  /\ Examine
  /\ Current(handle)
  /\ entry.cancelled /\ ~should_compact
  /\ PutBack
  /\ UNCHANGED <<entries, free_list, pending_entries, in_callback, made, fired>>

KeepRound ==
  /\ Examine
  /\ Current(handle)
  /\ ~entry.cancelled /\ entry.remaining_rounds > 0
  /\ entries' = [entries EXCEPT ![handle.index].remaining_rounds = @ - 1]
  /\ PutBack
  /\ UNCHANGED <<free_list, pending_entries, in_callback, made, fired>>

\* Mutant: the rounds are not looked at.
ExpireEarly ==
  /\ Examine
  /\ Current(handle)
  /\ ~entry.cancelled
  /\ Release
  /\ fired' = fired \union {entry.timer}
  /\ Forget(entry.timer)
  /\ in_callback' = TRUE
  /\ UNCHANGED slots

\* The entry is released before its callback is run.
Expire ==
  /\ Examine
  /\ Current(handle)
  /\ ~entry.cancelled /\ entry.remaining_rounds = 0
  /\ Release
  /\ fired' = fired \union {entry.timer}
  /\ Forget(entry.timer)
  /\ in_callback' = TRUE
  /\ UNCHANGED slots

CallbackReturns ==
  /\ in_callback
  /\ in_callback' = FALSE
  /\ UNCHANGED <<lag, wheel, visit, history>>

-----------------------------------------------------------------------------
\* Time passes between the calls of tick(), and while callbacks run.
Pass ==
  /\ Free
  /\ lag < MaxLag
  /\ lag' = lag + 1
  /\ made' = [t \in Made |->
                IF t \in Live THEN [made[t] EXCEPT !.age = @ + 1] ELSE made[t]]
  /\ UNCHANGED <<wheel, visit, in_callback, fired, dropped>>

AdvanceSlot == Advance \/ Discard \/ KeepCancelled \/ KeepRound \/ Expire

Next ==
  \/ \E timeout \in Timeouts : Add(timeout)
  \/ \E t \in Made : Cancel(t)
  \/ Tick \/ AdvanceSlot \/ CallbackReturns
  \/ Pass

Spec == Init /\ [][Next]_vars

-----------------------------------------------------------------------------
(* time_until_next_expiration(), which the reactor asks between two ticks. *)

Never == -1

\* The slots a handle's entry is looked for in: of those in the wheel, the
\* ones that are not stale.
Candidates ==
  {<<p[1], slots[p[1]][p[2]].index>> : p \in
     {q \in Slots \X (1 .. Len(entries)) :
        q[2] \in DOMAIN slots[q[1]] /\ Current(slots[q[1]][q[2]])}}

\* Mutant: the distance of a slot is taken backwards.
TimeBackwards ==
  IF pending_entries = 0 THEN Never
  ELSE LET base      == TICK_MS - Min({TICK_MS, lag})
           offset(s) == (current_slot - s) % WHEEL_SIZE
       IN  Min({base + TICK_MS * (offset(c[1])
                  + entries[c[2]].remaining_rounds * WHEEL_SIZE) : c \in Candidates})

TimeUntilNextExpiration ==
  IF pending_entries = 0 THEN Never
  ELSE LET base      == TICK_MS - Min({TICK_MS, lag})
           offset(s) == (s - current_slot) % WHEEL_SIZE
       IN  Min({base + TICK_MS * (offset(c[1])
                  + entries[c[2]].remaining_rounds * WHEEL_SIZE) : c \in Candidates})

-----------------------------------------------------------------------------
(* Properties. *)

Handle == [index : Nat \ {0}, generation : 1 .. Generations - 1]
Entry  == [generation : 1 .. Generations - 1, remaining_rounds : Nat,
           slot_idx : Slots, active : BOOLEAN, cancelled : BOOLEAN, timer : Nat \ {0}]
Timer  == [id : Handle, timeout : Timeouts \union {0}, lag : Nat, age : Nat]

TypeOK ==
  /\ lag \in Nat
  /\ current_slot \in Slots
  /\ slots \in [Slots -> Seq(Handle)]
  /\ entries \in Seq(Entry)
  /\ free_list \in Seq(Nat \ {0})
  /\ pending_entries \in Nat
  /\ compact_tick_counter \in 0 .. COMPACT_INTERVAL_TICKS - 1
  /\ in_callback \in BOOLEAN
  /\ ticks \in Nat
  /\ handles \in Seq(Handle)
  /\ should_compact \in BOOLEAN
  /\ made \in Seq(Timer)
  /\ fired \subseteq Made /\ dropped \subseteq Made

\* Where the handles of entry i are: a slot and a place in it, or -1 and a
\* place in the visit.
PlacesOf(i) ==
  {p \in Slots \X (1 .. MaxAdds) :
     p[2] \in DOMAIN slots[p[1]] /\ slots[p[1]][p[2]].index = i}
  \union {p \in {-1} \X (1 .. MaxAdds) :
     p[2] \in DOMAIN handles /\ handles[p[2]].index = i}

Active == {i \in DOMAIN entries : entries[i].active}

\* Every active entry has one handle, of its generation; a released entry has
\* none and is on the free list, once; and pending_entries_ counts the former.
EntriesHeld ==
  /\ \A i \in DOMAIN entries :
       Cardinality(PlacesOf(i)) = (IF i \in Active THEN 1 ELSE 0)
  /\ \A s \in Slots : \A h \in ToSet(slots[s]) : Current(h)
  /\ \A h \in ToSet(handles) : Current(h)
  /\ ToSet(free_list) = DOMAIN entries \ Active
  /\ IsInjective(free_list)
  /\ pending_entries = Cardinality(Active)

\* An entry is marked as cancelled for its own timer, by an id of it that
\* is still good; the ids of earlier timers do it no harm.
CancelsItsOwn ==
  \A i \in Active : entries[i].cancelled <=> entries[i].timer \in dropped

\* The ticks after which a timer fires.  One whose ticks make whole revolutions
\* is put in the current slot, which has just been visited, and takes one more.
Countdown(timeout) ==
  TicksOf(timeout) + (IF TicksOf(timeout) % WHEEL_SIZE = 0 THEN WHEEL_SIZE ELSE 0)

\* By the time of the wheel, a timer does not wait longer than its countdown.
NotLate ==
  \A t \in Live : made[t].age + made[t].lag - (lag + ticks * TICK_MS)
                 <= Countdown(made[t].timeout) * TICK_MS

\* The wheel is well typed; its slots, its entries and its free list agree; and
\* no timer waits beyond its countdown.
WheelRight == TypeOK /\ EntriesHeld /\ NotLate

\* By the clock, a timer may fire before its timeout, and by no more than the
\* wheel lagged when it was added: add() counts the ticks from the last that the
\* wheel has advanced (wheel_timer.hpp:48), not from now.
NotEarly ==
  [][\A t \in fired' \ fired : made[t].age + made[t].lag >= made[t].timeout]_vars

\* The reactor may sleep for time_until_next_expiration(): while a timer is
\* set it does not say that there is none, and it is at most a tick too long.
Remaining(i) ==
  LET rounds == entries[i].remaining_rounds * WHEEL_SIZE
  IN  IF \E h \in ToSet(handles) : h.index = i THEN rounds
      ELSE ((entries[i].slot_idx - current_slot - 1) % WHEEL_SIZE) + 1 + rounds

LiveEntries == {i \in Active : ~entries[i].cancelled}

SleepIsBounded ==
  Idle => \A i \in LiveEntries :
    /\ TimeUntilNextExpiration # Never
    /\ TimeUntilNextExpiration + Min({TICK_MS, lag}) <= (Remaining(i) + 1) * TICK_MS

\* The wheel is a timer service, with a tick for every slot it advances.
EntryOf(t) == CHOOSE i \in LiveEntries : entries[i].timer = t

Service == INSTANCE CountdownTimers WITH
  Timers <- 1 .. MaxAdds,
  Counts <- {Countdown(timeout) : timeout \in Timeouts},
  remaining <- [t \in {entries[i].timer : i \in LiveEntries} |-> Remaining(EntryOf(t))],
  cancelled <- dropped

ImplementsCountdown == Service!Spec

\* The wheel counts the ticks of its timers down as the service does, and by
\* the clock fires none earlier than its timeout less the time by which the
\* wheel lagged when the timer was added.
KeepsTime == ImplementsCountdown /\ NotEarly
=============================================================================
