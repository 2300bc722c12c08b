---------------------------- MODULE FdTableProofs ----------------------------
(***************************************************************************)
(* The numbers a reactor remembers are those of its own files: for any     *)
(* files and numbers, any timeouts and any limits of the deferred closes.  *)
(***************************************************************************)
EXTENDS FdTable, FiniteSetTheorems, WellFoundedInduction, TLAPS

USE DEF kernel, closes, loop, user, Goto

\* The reactor's files, as opposed to those of other threads.
Ours == Served \union Timed

LEMMA OursAreFiles ==
  ASSUME FdAssumption
  PROVE  /\ None \notin Ours /\ None \notin Elsewhere
         /\ Ours \intersect Elsewhere = {} /\ Served \intersect Timed = {}
         /\ Ours \subseteq Files /\ Elsewhere \subseteq Files
         /\ Listener \notin Numbers
BY DEF FdAssumption, Ours, Files

\* Min, for ids and for numbers of fds.
LEMMA LeastOf ==
  ASSUME NEW S \in SUBSET Nat, S # {}
  PROVE  Min(S) \in S
<1>. DEFINE R == OpToRel(<, Nat)
<1>1. \A x, y \in Nat : x < y => <<x, y>> \in R
  BY DEF OpToRel
<1>2. IsWellFoundedOn(R, Nat)
  BY NatLessThanWellFounded
<1>. HIDE DEF R
<1>3. PICK x \in S : \A y \in S : ~(<<y, x>> \in R)
  BY <1>2, WFMin
<1>4. ASSUME NEW y \in S PROVE x <= y
  <2>1. x \in Nat /\ y \in Nat /\ ~(y < x)
    BY <1>1, <1>3, <1>4
  <2>. QED  BY <2>1
<1>. QED  BY <1>4 DEF Min

LEMMA LowestOf ==
  ASSUME FdAssumption, NEW S \in SUBSET Numbers, S # {}
  PROVE  Min(S) \in S
BY LeastOf DEF FdAssumption

\* A new file gets a number that was free.
LEMMA LowestIsFree ==
  ASSUME FdAssumption, Free # {}
  PROVE  Min(Free) \in Numbers /\ file[Min(Free)] = None
<1>1. Free \in SUBSET Numbers
  BY DEF Free
<1>2. Min(Free) \in Free
  BY <1>1, LowestOf
<1>. QED  BY <1>2 DEF Free

\* What is behind the head of a sequence.
LEMMA TailOf ==
  ASSUME NEW S, NEW s \in Seq(S), s # <<>>
  PROVE  /\ Tail(s) \in Seq(S)
         /\ 1 \in DOMAIN s /\ Head(s) = s[1] /\ Head(s) \in S
         /\ \A i \in DOMAIN Tail(s) :
              i \in Nat \ {0} /\ i + 1 \in DOMAIN s /\ Tail(s)[i] = s[i + 1]
<1>1. Tail(s) \in Seq(S) /\ Len(s) \in Nat \ {0} /\ Len(Tail(s)) = Len(s) - 1
  OBVIOUS
<1>2. DOMAIN s = 1 .. Len(s) /\ DOMAIN Tail(s) = 1 .. Len(s) - 1
  BY <1>1
<1>3. \A i \in 1 .. Len(s) - 1 : Tail(s)[i] = s[i + 1]
  BY <1>1
<1>. QED  BY <1>1, <1>2, <1>3

LEMMA MemberOf ==
  ASSUME NEW S, NEW s \in Seq(S), NEW i \in DOMAIN s
  PROVE  s[i] \in S
OBVIOUS

-----------------------------------------------------------------------------
(* The inductive invariant. *)

IsState(s) == DOMAIN s = {"callback", "has_timeout", "timeout_id", "idle"}

IsTimer(t) == DOMAIN t = {"id", "fd", "for", "left"} /\ t.fd \in Numbers

Typed ==
  /\ file \in [Numbers -> Files \union {None}]
  /\ unopened \subseteq Files
  /\ polled \subseteq Numbers /\ tasks \subseteq Numbers
  /\ DOMAIN state = Numbers
  /\ \A n \in Numbers : IsState(state[n]) /\ state[n].callback \in Ours \union {None}
  /\ \A t \in timers : IsTimer(t)
  /\ deferred \in Seq([fd : Numbers, for : Files \union {None}])
  /\ batch \in Seq([fd : Numbers \union {Listener}, for : Files \union {None}])
  /\ loc = "forced" => count \in Numbers
  /\ loc = "release" => count \in Registered

IsDeferred(n) == \E i \in DOMAIN deferred : deferred[i].fd = n

\* Whatever is registered, about to be, deferred or polled is ours and open.
Owned ==
  /\ \A n \in polled : file[n] \in Ours
  /\ \A n \in tasks : file[n] \in Timed /\ n \notin Registered /\ ~IsDeferred(n)
  /\ \A n \in Registered : (loc = "release" => n # count) => file[n] = state[n].callback
  /\ \A i \in DOMAIN deferred : deferred[i].for \in Ours

\* The timers of the wheel, until a forced shutdown, and one for a number.
Started ==
  /\ \A t \in timers : ~Forced => Armed(t.fd) /\ state[t.fd].timeout_id = t.id
  /\ \A t, u \in timers : t.fd = u.fd => t = u

\* The events of a batch are of different files, which are still open unless
\* their own callbacks have closed them.
Reported ==
  loc = "events" =>
    \A i \in DOMAIN batch :
      /\ batch[i].fd # Listener =>
           batch[i].for \in Ours /\ file[batch[i].fd] = batch[i].for
      /\ \A j \in DOMAIN batch : batch[i].fd = batch[j].fd => i = j

Inv == Typed /\ Owned /\ DeferredIsHeld /\ Started /\ Reported
-----------------------------------------------------------------------------
(* What the parts of the invariant say of one number, and when they stay. *)

LEMMA DeferredNumbers ==
  ASSUME Inv, NEW n \in Numbers, IsDeferred(n)
  PROVE  file[n] \in Ours /\ n \notin Registered /\ \A t \in timers : t.fd # n
<1>1. PICK i \in DOMAIN deferred : deferred[i].fd = n
  BY DEF IsDeferred
<1>. QED  BY <1>1 DEF Inv, Owned, DeferredIsHeld

\* What is deferred stays held when its numbers are left alone.
LEMMA DeferredStays ==
  ASSUME Inv, deferred' = deferred,
         \A n \in Numbers : IsDeferred(n) =>
           file'[n] = file[n] /\ n \notin Registered' /\ \A t \in timers' : t.fd # n
  PROVE  DeferredIsHeld'
<1>1. ASSUME NEW i \in DOMAIN deferred
      PROVE  /\ file'[deferred[i].fd] = deferred[i].for
             /\ deferred[i].fd \notin Registered'
             /\ \A t \in timers' : t.fd # deferred[i].fd
             /\ \A j \in DOMAIN deferred : deferred[j].fd = deferred[i].fd => i = j
  <2>1. deferred[i].fd \in Numbers
    <3>1. deferred \in Seq([fd : Numbers, for : Files \union {None}])
      BY DEF Inv, Typed
    <3>2. deferred[i] \in [fd : Numbers, for : Files \union {None}]
      BY <3>1, MemberOf
    <3>. QED  BY <3>2
  <2>2. IsDeferred(deferred[i].fd)
    BY DEF IsDeferred
  <2>. QED  BY <2>1, <2>2 DEF Inv, DeferredIsHeld
<1>. QED  BY <1>1 DEF DeferredIsHeld

\* The events that are left stay good while files are left alone that have been
\* reported, but for that of an event that is done.
LEMMA ReportedStays ==
  ASSUME Inv, batch' = batch,
         loc = "events" <=> loc' = "events",
         \A n \in Numbers : file[n] \in Ours => file'[n] = file[n]
  PROVE  Reported'
<1>1. SUFFICES ASSUME loc' = "events", NEW i \in DOMAIN batch
      PROVE  /\ batch[i].fd # Listener =>
                  batch[i].for \in Ours /\ file'[batch[i].fd] = batch[i].for
             /\ \A j \in DOMAIN batch : batch[i].fd = batch[j].fd => i = j
  BY DEF Reported
<1>2. /\ batch[i].fd # Listener =>
           batch[i].for \in Ours /\ file[batch[i].fd] = batch[i].for
      /\ \A j \in DOMAIN batch : batch[i].fd = batch[j].fd => i = j
  BY <1>1 DEF Inv, Reported
<1>3. batch[i] \in [fd : Numbers \union {Listener}, for : Files \union {None}]
  BY MemberOf DEF Inv, Typed
<1>. QED  BY <1>2, <1>3

LEMMA ReportedNext ==
  ASSUME Inv, batch # <<>>, NextEvent,
         \A n \in Numbers : file[n] \in Ours /\ n # Head(batch).fd => file'[n] = file[n]
  PROVE  /\ Reported'
         /\ batch' \in Seq([fd : Numbers \union {Listener}, for : Files \union {None}])
<1>0. DEFINE E == [fd : Numbers \union {Listener}, for : Files \union {None}]
<1>1. batch \in Seq(E)
  BY DEF Inv, Typed
<1>. HIDE DEF E
<1>2. /\ batch' = Tail(batch) /\ batch' \in Seq(E)
      /\ 1 \in DOMAIN batch /\ Head(batch) = batch[1]
      /\ \A i \in DOMAIN batch' :
           i \in Nat \ {0} /\ i + 1 \in DOMAIN batch /\ batch'[i] = batch[i + 1]
  BY <1>1, TailOf DEF NextEvent
<1>3. SUFFICES ASSUME loc' = "events", NEW i \in DOMAIN batch'
      PROVE  /\ batch'[i].fd # Listener =>
                  batch'[i].for \in Ours /\ file'[batch'[i].fd] = batch'[i].for
             /\ \A j \in DOMAIN batch' : batch'[i].fd = batch'[j].fd => i = j
  BY <1>2 DEF Reported, E
<1>4. /\ i \in Nat \ {0} /\ i + 1 \in DOMAIN batch /\ batch'[i] = batch[i + 1]
      /\ loc = "events"
  BY <1>2, <1>3 DEF NextEvent
<1>5. /\ batch[i + 1].fd # Listener =>
           batch[i + 1].for \in Ours /\ file[batch[i + 1].fd] = batch[i + 1].for
      /\ \A j \in DOMAIN batch : batch[i + 1].fd = batch[j].fd => i + 1 = j
  BY <1>4 DEF Inv, Reported
<1>6. batch[i + 1].fd # Head(batch).fd
  BY <1>2, <1>4, <1>5
<1>7. batch[i + 1].fd \in Numbers \union {Listener}
  <2>1. batch[i + 1] \in E
    BY <1>1, <1>4, MemberOf
  <2>. QED  BY <2>1 DEF E
<1>8. \A j \in DOMAIN batch' : batch'[i].fd = batch'[j].fd => i = j
  BY <1>2, <1>4, <1>5
<1>. QED  BY <1>4, <1>5, <1>6, <1>7, <1>8

-----------------------------------------------------------------------------
(* Every step keeps the invariant: first those that leave the files alone. *)

LEMMA TimersDoneKeeps ==
  ASSUME FdAssumption, Inv, TimersDone
  PROVE  Inv'
<1>. USE OursAreFiles DEF Inv, TimersDone, Armed, Registered
<1>1. Typed'
  BY DEF Typed
<1>2. Owned'
  BY DEF Typed, Owned, IsDeferred
<1>3. DeferredIsHeld'
  BY DEF DeferredIsHeld
<1>4. Started'
  BY DEF Started, Armed, Forced
<1>5. Reported'
  BY DEF Reported
<1>. QED  BY <1>1, <1>2, <1>3, <1>4, <1>5

LEMMA TasksDoneKeeps ==
  ASSUME FdAssumption, Inv, TasksDone
  PROVE  Inv'
<1>. USE OursAreFiles DEF Inv, TasksDone, Registered
<1>1. Typed'
  BY DEF Typed
<1>2. Owned'
  BY DEF Typed, Owned, IsDeferred
<1>3. DeferredIsHeld'
  BY DEF DeferredIsHeld
<1>4. Started'
  BY DEF Started, Armed, Forced
<1>5. Reported'
  BY DEF Reported
<1>. QED  BY <1>1, <1>2, <1>3, <1>4, <1>5

LEMMA GoesOnKeeps ==
  ASSUME FdAssumption, Inv, GoesOn
  PROVE  Inv'
<1>. USE OursAreFiles DEF Inv, GoesOn, Registered
<1>1. Typed'
  BY DEF Typed
<1>2. Owned'
  BY DEF Typed, Owned, IsDeferred
<1>3. DeferredIsHeld'
  BY DEF DeferredIsHeld
<1>4. Started'
  BY DEF Started, Armed, Forced
<1>5. Reported'
  BY DEF Reported
<1>. QED  BY <1>1, <1>2, <1>3, <1>4, <1>5

LEMMA ShutdownIdleKeeps ==
  ASSUME FdAssumption, Inv, ShutdownIdle
  PROVE  Inv'
<1>. USE OursAreFiles DEF Inv, ShutdownIdle, Registered
<1>1. Typed'
  BY DEF Typed
<1>2. Owned'
  BY DEF Typed, Owned, IsDeferred
<1>3. DeferredIsHeld'
  BY DEF DeferredIsHeld
<1>4. Started'
  BY DEF Started, Armed, Forced
<1>5. Reported'
  BY DEF Reported
<1>. QED  BY <1>1, <1>2, <1>3, <1>4, <1>5

LEMMA EventsDoneKeeps ==
  ASSUME FdAssumption, Inv, EventsDone
  PROVE  Inv'
<1>. USE OursAreFiles DEF Inv, EventsDone, Registered
<1>1. Typed'
  BY DEF Typed
<1>2. Owned'
  BY DEF Typed, Owned, IsDeferred
<1>3. DeferredIsHeld'
  BY DEF DeferredIsHeld
<1>4. Started'
  BY DEF Started, Armed, Forced
<1>5. Reported'
  BY DEF Reported
<1>. QED  BY <1>1, <1>2, <1>3, <1>4, <1>5

LEMMA FlushDoneKeeps ==
  ASSUME FdAssumption, Inv, FlushDone
  PROVE  Inv'
<1>. USE OursAreFiles DEF Inv, FlushDone, Registered
<1>1. Typed'
  BY DEF Typed
<1>2. Owned'
  BY DEF Typed, Owned, IsDeferred
<1>3. DeferredIsHeld'
  BY DEF DeferredIsHeld
<1>4. Started'
  BY DEF Started, Armed, Forced
<1>5. Reported'
  BY DEF Reported
<1>. QED  BY <1>1, <1>2, <1>3, <1>4, <1>5

LEMMA AcceptFailsKeeps ==
  ASSUME FdAssumption, Inv, NEW f \in Served, AcceptFails(f)
  PROVE  Inv'
<1>. USE OursAreFiles DEF Inv, AcceptFails, Handles, Registered
<1>1. Typed'
  BY DEF Typed
<1>2. Owned'
  BY DEF Typed, Owned, IsDeferred
<1>3. DeferredIsHeld'
  BY DEF DeferredIsHeld
<1>4. Started'
  BY DEF Started, Armed, Forced
<1>5. Reported'
  BY DEF Reported
<1>. QED  BY <1>1, <1>2, <1>3, <1>4, <1>5

LEMMA DeadlineComesKeeps ==
  ASSUME FdAssumption, Inv, DeadlineComes
  PROVE  Inv'
<1>. USE OursAreFiles DEF Inv, DeadlineComes, Registered
<1>1. Typed'
  <2>1. Min(Numbers) \in Numbers
    BY LowestOf
  <2>. QED  BY <2>1 DEF Typed
<1>2. Owned'
  BY DEF Typed, Owned, IsDeferred
<1>3. DeferredIsHeld'
  BY DEF DeferredIsHeld
<1>4. Started'
  BY DEF Started, Armed, Forced
<1>5. Reported'
  BY DEF Reported
<1>. QED  BY <1>1, <1>2, <1>3, <1>4, <1>5

LEMMA ForceNextKeeps ==
  ASSUME FdAssumption, Inv, ForceNext
  PROVE  Inv'
<1>. USE OursAreFiles DEF Inv, ForceNext, Registered
<1>. DEFINE later == {n \in Numbers : n > count}
<1>1. Typed'
  <2>1. later # {} => Min(later) \in Numbers
    BY LowestOf
  <2>2. CASE later = {}
    BY <2>2 DEF Typed
  <2>3. CASE later # {}
    <3>. HIDE DEF later
    <3>. QED  BY <2>1, <2>3 DEF Typed, later
  <2>. QED  BY <2>2, <2>3
<1>2. Owned'
  BY DEF Typed, Owned, IsDeferred
<1>3. DeferredIsHeld'
  BY DEF DeferredIsHeld
<1>4. Started'
  BY DEF Started, Armed, Forced
<1>5. Reported'
  BY DEF Reported
<1>. QED  BY <1>1, <1>2, <1>3, <1>4, <1>5

LEMMA EpollWaitKeeps ==
  ASSUME FdAssumption, Inv, EpollWait
  PROVE  Inv'
<1>. USE OursAreFiles DEF Inv
<1>1. PICK ready \in SUBSET (polled \union {Listener}) :
        batch' \in {[i \in DOMAIN order |->
                      [fd |-> order[i],
                       for |-> IF order[i] = Listener THEN None ELSE file[order[i]]]] :
                    order \in SetToSeqs(ready)}
  BY DEF EpollWait
<1>2. PICK order \in SetToSeqs(ready) :
        batch' = [i \in DOMAIN order |->
                   [fd |-> order[i],
                    for |-> IF order[i] = Listener THEN None ELSE file[order[i]]]]
  BY <1>1
<1>. DEFINE n == Cardinality(ready)
            E == [fd : Numbers \union {Listener}, for : Files \union {None}]
<1>3. /\ order \in [1 .. n -> ready]
      /\ \A i, j \in 1 .. n : i # j => order[i] # order[j]
  BY DEF SetToSeqs
<1>4. ready \subseteq Numbers \union {Listener}
  BY DEF Typed
<1>5. \A m \in ready : m # Listener => file[m] \in Ours
  BY DEF Owned
<1>6. n \in Nat
  <2>1. IsFiniteSet(polled \union {Listener})
    BY FS_Subset, FS_AddElement DEF FdAssumption, Typed
  <2>. QED  BY <2>1, FS_Subset, FS_CardinalityType
<1>. HIDE DEF n
<1>7. DOMAIN batch' = 1 .. n
  BY <1>2, <1>3
<1>8. ASSUME NEW i \in 1 .. n
      PROVE  /\ batch'[i] \in E
             /\ batch'[i].fd = order[i]
             /\ order[i] # Listener =>
                  batch'[i].for \in Ours /\ file[order[i]] = batch'[i].for
  <2>1. batch'[i] = [fd |-> order[i],
                     for |-> IF order[i] = Listener THEN None ELSE file[order[i]]]
    BY <1>2, <1>3
  <2>2. order[i] \in ready
    BY <1>3
  <2>3. CASE order[i] = Listener
    BY <2>1, <2>3
  <2>4. CASE order[i] # Listener
    <3>1. order[i] \in Numbers /\ file[order[i]] \in Ours
      BY <2>2, <2>4, <1>4, <1>5
    <3>2. batch'[i] = [fd |-> order[i], for |-> file[order[i]]]
      BY <2>1, <2>4
    <3>. QED  BY <3>1, <3>2
  <2>. QED  BY <2>3, <2>4
<1>9. batch' \in Seq(E)
  <2>1. batch' = [i \in 1 .. n |-> batch'[i]]
    BY <1>2, <1>3
  <2>. HIDE DEF E
  <2>2. \A i \in 1 .. n : batch'[i] \in E
    BY <1>8
  <2>. QED  BY <2>1, <2>2, <1>6
<1>10. Typed'
  BY <1>9 DEF Typed, EpollWait, Registered
<1>11. Owned'
  BY DEF Owned, IsDeferred, EpollWait, Registered
<1>12. DeferredIsHeld'
  BY DEF DeferredIsHeld, EpollWait, Registered
<1>13. Started'
  BY DEF Started, Armed, Forced, EpollWait
<1>14. Reported'
  <2>1. file' = file
    BY DEF EpollWait
  <2>. QED  BY <2>1, <1>3, <1>7, <1>8 DEF Reported
<1>. QED  BY <1>10, <1>11, <1>12, <1>13, <1>14

LEMMA TimePassesKeeps ==
  ASSUME FdAssumption, Inv, TimePasses
  PROVE  Inv'
<1>. USE OursAreFiles DEF Inv
<1>1. DOMAIN state' = Numbers
  BY DEF TimePasses
<1>2. ASSUME NEW m \in Numbers
      PROVE  /\ IsState(state'[m])
             /\ state'[m].callback = state[m].callback
             /\ state'[m].has_timeout = state[m].has_timeout
             /\ state'[m].timeout_id = state[m].timeout_id
  <2>1. IsState(state[m])
    BY DEF Typed
  <2>. QED  BY <2>1 DEF TimePasses, IsState
<1>3. Registered' = Registered
  BY <1>2 DEF Registered
<1>4. ASSUME NEW u \in timers'
      PROVE  \E t \in timers : /\ u = [t EXCEPT !.left = Max({0, @ - 1})]
                               /\ u.fd = t.fd /\ u.id = t.id /\ IsTimer(u)
  <2>1. PICK t \in timers : u = [t EXCEPT !.left = Max({0, @ - 1})]
    BY <1>4 DEF TimePasses
  <2>2. IsTimer(t)
    BY DEF Typed
  <2>. QED  BY <2>1, <2>2 DEF IsTimer
<1>5. UNCHANGED <<file, unopened, polled, deferred, tasks, batch, loc, count>>
  BY DEF TimePasses
<1>6. Typed'
  <2>1. \A u \in timers' : IsTimer(u)
    BY <1>4
  <2>. QED  BY <2>1, <1>1, <1>2, <1>3, <1>5 DEF Typed, TimePasses
<1>7. Owned'
  BY <1>2, <1>3, <1>5 DEF Owned, IsDeferred, Registered
<1>8. DeferredIsHeld'
  <2>1. \A u \in timers' : \E t \in timers : u.fd = t.fd
    BY <1>4
  <2>. QED  BY <2>1, <1>3, <1>5, DeferredStays, DeferredNumbers
<1>9. Started'
  <2>1. ASSUME NEW u \in timers', ~Forced
        PROVE  Armed(u.fd)' /\ state'[u.fd].timeout_id = u.id
    <3>1. PICK t \in timers : u.fd = t.fd /\ u.id = t.id
      BY <1>4
    <3>2. t.fd \in Numbers /\ Armed(t.fd) /\ state[t.fd].timeout_id = t.id
      BY <2>1 DEF Typed, Started, IsTimer
    <3>. QED  BY <3>1, <3>2, <1>2 DEF Armed
  <2>2. ASSUME NEW u \in timers', NEW v \in timers', u.fd = v.fd
        PROVE  u = v
    <3>1. PICK t \in timers : u = [t EXCEPT !.left = Max({0, @ - 1})] /\ u.fd = t.fd
      BY <1>4
    <3>2. PICK s \in timers : v = [s EXCEPT !.left = Max({0, @ - 1})] /\ v.fd = s.fd
      BY <1>4
    <3>3. t = s
      BY <2>2, <3>1, <3>2 DEF Started
    <3>. QED  BY <3>1, <3>2, <3>3
  <2>. QED  BY <2>1, <2>2, <1>5 DEF Started, Forced
<1>10. Reported'
  BY <1>5 DEF Reported
<1>. QED  BY <1>6, <1>7, <1>8, <1>9, <1>10

LEMMA AcceptDoneKeeps ==
  ASSUME FdAssumption, Inv, AcceptDone
  PROVE  Inv'
<1>. USE OursAreFiles DEF Inv
<1>1. /\ UNCHANGED <<file, unopened, polled, state, timers, deferred, tasks, loc, count>>
      /\ batch # <<>> /\ NextEvent
  BY DEF AcceptDone, Handles, NextEvent
<1>2. Reported' /\ batch' \in Seq([fd : Numbers \union {Listener}, for : Files \union {None}])
  BY <1>1, ReportedNext
<1>3. Typed'
  BY <1>1, <1>2 DEF Typed, Registered
<1>4. Owned'
  BY <1>1 DEF Owned, IsDeferred, Registered
<1>5. DeferredIsHeld'
  BY <1>1 DEF DeferredIsHeld, Registered
<1>6. Started'
  BY <1>1 DEF Started, Armed, Forced
<1>. QED  BY <1>2, <1>3, <1>4, <1>5, <1>6

LEMMA DropEventKeeps ==
  ASSUME FdAssumption, Inv, NEW n \in Numbers, DropEvent(n)
  PROVE  Inv'
<1>. USE OursAreFiles DEF Inv
<1>1. /\ UNCHANGED <<file, unopened, polled, state, timers, deferred, tasks, loc, count>>
      /\ batch # <<>> /\ NextEvent
  BY DEF DropEvent, Handles, NextEvent
<1>2. Reported' /\ batch' \in Seq([fd : Numbers \union {Listener}, for : Files \union {None}])
  BY <1>1, ReportedNext
<1>3. Typed'
  BY <1>1, <1>2 DEF Typed, Registered
<1>4. Owned'
  BY <1>1 DEF Owned, IsDeferred, Registered
<1>5. DeferredIsHeld'
  BY <1>1 DEF DeferredIsHeld, Registered
<1>6. Started'
  BY <1>1 DEF Started, Armed, Forced
<1>. QED  BY <1>2, <1>3, <1>4, <1>5, <1>6

LEMMA CallbackKeeps ==
  ASSUME FdAssumption, Inv, NEW n \in Numbers, Callback(n)
  PROVE  Inv'
<1>. USE OursAreFiles DEF Inv
<1>1. /\ UNCHANGED <<file, unopened, polled, timers, deferred, tasks, loc, count>>
      /\ batch # <<>> /\ NextEvent /\ loc = "events"
  BY DEF Callback, Handles, NextEvent
<1>2. ASSUME NEW m \in Numbers
      PROVE  /\ IsState(state'[m])
             /\ state'[m].callback = state[m].callback
             /\ state'[m].has_timeout = state[m].has_timeout
             /\ state'[m].timeout_id = state[m].timeout_id
  <2>1. IsState(state[m]) /\ DOMAIN state = Numbers
    BY DEF Typed
  <2>. QED  BY <2>1 DEF Callback, IsState
<1>3. Registered' = Registered /\ DOMAIN state' = Numbers
  BY <1>2 DEF Registered, Callback, Typed
<1>4. Reported' /\ batch' \in Seq([fd : Numbers \union {Listener}, for : Files \union {None}])
  BY <1>1, ReportedNext
<1>5. Typed'
  BY <1>1, <1>2, <1>3, <1>4 DEF Typed
<1>6. Owned'
  BY <1>1, <1>2, <1>3 DEF Owned, IsDeferred, Registered
<1>7. DeferredIsHeld'
  BY <1>1, <1>3 DEF DeferredIsHeld
<1>8. Started'
  BY <1>1, <1>2 DEF Started, Armed, Forced, Typed, IsTimer
<1>. QED  BY <1>4, <1>5, <1>6, <1>7, <1>8

LEMMA CallbackModifiesKeeps ==
  ASSUME FdAssumption, Inv, NEW n \in Numbers, CallbackModifies(n)
  PROVE  Inv'
<1>. USE OursAreFiles DEF Inv
<1>1. /\ UNCHANGED <<file, unopened, polled, deferred, tasks, loc, count>>
      /\ batch # <<>> /\ NextEvent /\ loc = "events"
      /\ Armed(n)
  BY DEF CallbackModifies, Handles, NextEvent
<1>2. ASSUME NEW m \in Numbers
      PROVE  /\ IsState(state'[m])
             /\ state'[m].callback = state[m].callback
             /\ state'[m].has_timeout = state[m].has_timeout
             /\ m # n => state'[m].timeout_id = state[m].timeout_id
             /\ m = n => state'[m].timeout_id = FreshId
  <2>1. IsState(state[m]) /\ DOMAIN state = Numbers
    BY DEF Typed
  <2>. QED  BY <2>1 DEF CallbackModifies, IsState
<1>3. Registered' = Registered /\ DOMAIN state' = Numbers
  BY <1>2 DEF Registered, CallbackModifies, Typed
<1>. DEFINE new == Timer(n, Interval)
<1>4. new.fd = n /\ new.id = FreshId /\ IsTimer(new)
  BY DEF Timer, IsTimer
<1>5. ASSUME NEW t \in timers', t # new PROVE t \in timers /\ t.fd # n
  <2>1. t \in timers /\ t.id # state[n].timeout_id
    BY <1>5 DEF CallbackModifies, Without
  <2>. QED  BY <2>1, <1>1 DEF Started, Forced
<1>. HIDE DEF new
<1>6. Reported' /\ batch' \in Seq([fd : Numbers \union {Listener}, for : Files \union {None}])
  BY <1>1, ReportedNext
<1>7. Typed'
  <2>1. \A t \in timers' : IsTimer(t)
    BY <1>4, <1>5 DEF Typed
  <2>. QED  BY <2>1, <1>1, <1>2, <1>3, <1>6 DEF Typed
<1>8. Owned'
  BY <1>1, <1>2, <1>3 DEF Owned, IsDeferred, Registered
<1>9. DeferredIsHeld'
  <2>1. n \in Registered
    BY <1>1 DEF Armed, Registered
  <2>2. \A m \in Numbers : IsDeferred(m) => \A t \in timers' : t.fd # m
    BY <2>1, <1>4, <1>5, DeferredNumbers
  <2>. QED  BY <2>2, <1>1, <1>3, DeferredStays, DeferredNumbers
<1>10. Started'
  <2>1. ASSUME NEW t \in timers', ~Forced
        PROVE  Armed(t.fd)' /\ state'[t.fd].timeout_id = t.id
    <3>1. CASE t = new
      BY <3>1, <1>1, <1>2, <1>4 DEF Armed
    <3>2. CASE t # new
      <4>1. t.fd \in Numbers /\ t.fd # n /\ Armed(t.fd) /\ state[t.fd].timeout_id = t.id
        BY <2>1, <3>2, <1>5 DEF Typed, Started, IsTimer
      <4>. QED  BY <4>1, <1>2 DEF Armed
    <3>. QED  BY <3>1, <3>2
  <2>2. \A t, u \in timers' : t.fd = u.fd => t = u
    BY <1>4, <1>5 DEF Started
  <2>. QED  BY <2>1, <2>2, <1>1 DEF Started, Forced
<1>. QED  BY <1>6, <1>7, <1>8, <1>9, <1>10

LEMMA FdWasActiveKeeps ==
  ASSUME FdAssumption, Inv, NEW t \in Due, FdWasActive(t)
  PROVE  Inv'
<1>. USE OursAreFiles DEF Inv
<1>. DEFINE n   == t.fd
            new == Timer(n, Remaining(n))
<1>0. t \in timers /\ n \in Numbers /\ Armed(n)
  BY DEF FdWasActive, Due, Typed, IsTimer
<1>1. /\ UNCHANGED <<file, unopened, polled, deferred, tasks, batch, loc, count>>
      /\ loc = "timers"
  BY DEF FdWasActive
<1>2. ASSUME NEW m \in Numbers
      PROVE  /\ IsState(state'[m])
             /\ state'[m].callback = state[m].callback
             /\ state'[m].has_timeout = state[m].has_timeout
             /\ m # n => state'[m].timeout_id = state[m].timeout_id
             /\ m = n => state'[m].timeout_id = FreshId
  <2>1. IsState(state[m]) /\ DOMAIN state = Numbers
    BY DEF Typed
  <2>2. state' = [state EXCEPT ![n].timeout_id = FreshId]
    BY DEF FdWasActive
  <2>. QED  BY <2>1, <2>2 DEF IsState
<1>3. Registered' = Registered /\ DOMAIN state' = Numbers
  BY <1>2 DEF Registered, FdWasActive, Typed
<1>4. new.fd = n /\ new.id = FreshId /\ IsTimer(new)
  BY <1>0 DEF Timer, IsTimer
<1>5. ASSUME NEW u \in timers', u # new PROVE u \in timers /\ u.fd # n
  <2>1. u \in timers /\ u # t
    BY <1>5 DEF FdWasActive
  <2>. QED  BY <2>1, <1>0 DEF Started
<1>. HIDE DEF new
<1>6. Typed'
  <2>1. \A u \in timers' : IsTimer(u)
    BY <1>4, <1>5 DEF Typed
  <2>. QED  BY <2>1, <1>1, <1>2, <1>3 DEF Typed
<1>7. Owned'
  BY <1>1, <1>2, <1>3 DEF Owned, IsDeferred, Registered
<1>8. DeferredIsHeld'
  <2>1. n \in Registered
    BY <1>0 DEF Armed, Registered
  <2>2. \A m \in Numbers : IsDeferred(m) => \A u \in timers' : u.fd # m
    BY <2>1, <1>4, <1>5, DeferredNumbers
  <2>. QED  BY <2>2, <1>1, <1>3, DeferredStays, DeferredNumbers
<1>9. Started'
  <2>1. ASSUME NEW u \in timers', ~Forced
        PROVE  Armed(u.fd)' /\ state'[u.fd].timeout_id = u.id
    <3>1. CASE u = new
      BY <3>1, <1>0, <1>2, <1>4 DEF Armed
    <3>2. CASE u # new
      <4>1. u.fd \in Numbers /\ u.fd # n /\ Armed(u.fd) /\ state[u.fd].timeout_id = u.id
        BY <2>1, <3>2, <1>5 DEF Typed, Started, IsTimer
      <4>. QED  BY <4>1, <1>2 DEF Armed
    <3>. QED  BY <3>1, <3>2
  <2>2. \A u, v \in timers' : u.fd = v.fd => u = v
    BY <1>4, <1>5 DEF Started
  <2>. QED  BY <2>1, <2>2, <1>1 DEF Started, Forced
<1>10. Reported'
  BY <1>1 DEF Reported
<1>. QED  BY <1>6, <1>7, <1>8, <1>9, <1>10

-----------------------------------------------------------------------------
(* The steps that open and close files. *)

\* A number that is not deferred is forgotten, and its file may be closed.
LEMMA LetGo ==
  ASSUME FdAssumption, Inv, NEW n \in Numbers,
         file' \in [Numbers -> Files \union {None}],
         \A m \in Numbers \ {n} : file'[m] = file[m],
         polled' \subseteq polled,
         n \in polled' => file'[n] = file[n],
         unopened' = unopened,
         DOMAIN state' = Numbers,
         IsState(state'[n]), state'[n].callback = None,
         \A m \in Numbers \ {n} : state'[m] = state[m],
         timers' \subseteq timers,
         Forced \/ \A t \in timers' : t.fd # n,
         tasks' \subseteq tasks, n \notin tasks',
         deferred' = deferred, ~IsDeferred(n),
         batch' \in Seq([fd : Numbers \union {Listener}, for : Files \union {None}]),
         count' = count, loc' # "release",
         loc' = loc \/ (loc = "release" /\ loc' = "forced" /\ n = count)
  PROVE  Typed' /\ Owned' /\ DeferredIsHeld' /\ Started'
<1>. USE OursAreFiles DEF Inv
<1>1. /\ Forced' <=> Forced
      /\ Registered' = Registered \ {n}
      /\ \A m \in Numbers : IsDeferred(m)' <=> IsDeferred(m)
  BY DEF Forced, Registered, IsDeferred
<1>2. Typed'
  <2>1. \A m \in Numbers : IsState(state'[m]) /\ state'[m].callback \in Ours \union {None}
    BY DEF Typed
  <2>2. loc' = "forced" => count' \in Numbers
    BY DEF Typed
  <2>. QED  BY <2>1, <2>2 DEF Typed
<1>3. Owned'
  <2>1. \A m \in polled' : file'[m] \in Ours
    BY DEF Owned, Typed
  <2>2. \A m \in tasks' : file'[m] \in Timed /\ m \notin Registered' /\ ~IsDeferred(m)'
    BY <1>1 DEF Owned, Typed
  <2>3. \A m \in Registered' : file'[m] = state'[m].callback
    BY <1>1 DEF Owned, Registered
  <2>4. \A i \in DOMAIN deferred' : deferred'[i].for \in Ours
    BY DEF Owned
  <2>. QED  BY <2>1, <2>2, <2>3, <2>4 DEF Owned
<1>4. DeferredIsHeld'
  BY <1>1, DeferredStays, DeferredNumbers
<1>5. Started'
  <2>1. ASSUME NEW t \in timers', ~Forced
        PROVE  Armed(t.fd)' /\ state'[t.fd].timeout_id = t.id
    <3>1. t \in timers /\ t.fd # n /\ t.fd \in Numbers
      BY <2>1 DEF Typed, IsTimer
    <3>. QED  BY <2>1, <3>1 DEF Started, Armed
  <2>. QED  BY <2>1, <1>1 DEF Started
<1>. QED  BY <1>2, <1>3, <1>4, <1>5

LEMMA Closed ==
  ASSUME FdAssumption, Inv, NEW n \in Numbers, Close(n)
  PROVE  /\ file' \in [Numbers -> Files \union {None}] /\ file'[n] = None
         /\ \A m \in Numbers \ {n} : file'[m] = file[m]
         /\ polled' = polled \ {n} /\ unopened' = unopened
BY DEF Inv, Typed, Close

LEMMA Reset ==
  ASSUME Inv, NEW n \in Numbers, state' = [state EXCEPT ![n] = NoState]
  PROVE  /\ DOMAIN state' = Numbers
         /\ IsState(state'[n]) /\ state'[n].callback = None
         /\ \A m \in Numbers \ {n} : state'[m] = state[m]
BY DEF Inv, Typed, IsState, NoState

LEMMA RegisteredNumbers ==
  ASSUME Inv, NEW n \in Registered
  PROVE  n \in Numbers /\ ~IsDeferred(n) /\ n \notin tasks
BY DeferredNumbers DEF Inv, Owned, Registered

\* A free number is known to nobody.
LEMMA FreeNumbers ==
  ASSUME FdAssumption, Inv, NEW n \in Numbers, file[n] = None
  PROVE  /\ n \notin polled /\ n \notin tasks /\ ~IsDeferred(n)
         /\ n \in Registered => loc = "release" /\ n = count
         /\ ~Forced => \A t \in timers : t.fd # n
<1>. USE OursAreFiles DEF Inv
<1>1. n \notin polled /\ n \notin tasks
  BY DEF Owned, Ours
<1>2. ~IsDeferred(n)
  BY DeferredNumbers
<1>3. n \in Registered => loc = "release" /\ n = count
  BY DEF Owned, Registered, Typed
<1>4. ASSUME ~Forced, NEW t \in timers, t.fd = n PROVE FALSE
  <2>1. n \in Registered
    BY <1>4 DEF Started, Armed, Registered
  <2>. QED  BY <1>3, <1>4, <2>1 DEF Forced
<1>. QED  BY <1>1, <1>2, <1>3, <1>4

LEMMA Opened ==
  ASSUME FdAssumption, Inv, NEW f \in Files, Open(f)
  PROVE  LET n == Min(Free) IN
         /\ n \in Numbers /\ file[n] = None /\ file'[n] = f
         /\ file' \in [Numbers -> Files \union {None}]
         /\ \A m \in Numbers \ {n} : file'[m] = file[m]
         /\ unopened' \subseteq Files
<1>. DEFINE n == Min(Free)
<1>1. n \in Numbers /\ file[n] = None
  BY LowestIsFree DEF Open
<1>2. file' = [file EXCEPT ![n] = f] /\ unopened' = unopened \ {f}
  BY DEF Open
<1>. HIDE DEF n
<1>3. /\ file'[n] = f /\ file' \in [Numbers -> Files \union {None}]
      /\ \A m \in Numbers \ {n} : file'[m] = file[m]
      /\ unopened' \subseteq Files
  BY <1>1, <1>2 DEF Inv, Typed
<1>. QED  BY <1>1, <1>3 DEF n

LEMMA TaskFailsToRegisterKeeps ==
  ASSUME FdAssumption, Inv, NEW n \in tasks, TaskFailsToRegister(n)
  PROVE  Inv'
<1>. USE OursAreFiles DEF Inv
<1>1. /\ UNCHANGED <<state, timers, deferred, batch, loc, count>>
      /\ loc = "tasks" /\ tasks' = tasks \ {n} /\ Close(n)
  BY DEF TaskFailsToRegister
<1>2. n \in Numbers /\ n \notin Registered /\ ~IsDeferred(n)
  BY DEF Typed, Owned
<1>3. \A t \in timers : t.fd # n
  BY <1>1, <1>2 DEF Started, Forced, Armed, Registered
<1>4. Typed' /\ Owned' /\ DeferredIsHeld' /\ Started'
  BY <1>1, <1>2, <1>3, LetGo, Closed DEF Typed, Registered
<1>5. Reported'
  BY <1>1 DEF Reported
<1>. QED  BY <1>4, <1>5

LEMMA CallbackClosesKeeps ==
  ASSUME FdAssumption, Inv, NEW n \in Numbers, CallbackCloses(n)
  PROVE  Inv'
<1>. USE OursAreFiles DEF Inv
<1>1. /\ UNCHANGED <<deferred, tasks, loc, count>>
      /\ loc = "events" /\ batch # <<>> /\ Head(batch).fd = n /\ NextEvent
      /\ n \in Registered /\ Close(n)
      /\ timers' = Without(n) /\ state' = [state EXCEPT ![n] = NoState]
  <2>1. /\ loc = "events" /\ batch # <<>> /\ Head(batch).fd = n
        /\ n \in Registered /\ NextEvent
        /\ UnregisterAndClose(n) /\ UNCHANGED <<closes, user>>
    BY DEF CallbackCloses, Handles
  <2>2. UNCHANGED <<deferred, tasks, loc, count>>
    BY <2>1 DEF NextEvent
  <2>. QED  BY <2>1, <2>2 DEF UnregisterAndClose
<1>2. timers' \subseteq timers /\ \A t \in timers' : t.fd # n
  BY <1>1 DEF Without, Started, Forced
<1>3. Reported' /\ batch' \in Seq([fd : Numbers \union {Listener}, for : Files \union {None}])
  BY <1>1, Closed, ReportedNext
<1>4. Typed' /\ Owned' /\ DeferredIsHeld' /\ Started'
  BY <1>1, <1>2, <1>3, LetGo, Closed, Reset, RegisteredNumbers
<1>. QED  BY <1>3, <1>4

LEMMA ForceUnregisterKeeps ==
  ASSUME FdAssumption, Inv, ForceUnregister
  PROVE  Inv'
<1>. USE OursAreFiles DEF Inv
<1>1. /\ UNCHANGED <<deferred, tasks, batch, loc, count>>
      /\ loc = "forced" /\ count \in Registered /\ Close(count)
      /\ timers' \subseteq timers /\ state' = [state EXCEPT ![count] = NoState]
  BY DEF ForceUnregister, UnregisterAndClose, Without
<1>2. Forced /\ batch' \in Seq([fd : Numbers \union {Listener}, for : Files \union {None}])
  BY <1>1 DEF Forced, Typed
<1>3. Typed' /\ Owned' /\ DeferredIsHeld' /\ Started'
  BY <1>1, <1>2, LetGo, Closed, Reset, RegisteredNumbers
<1>4. Reported'
  BY <1>1 DEF Reported
<1>. QED  BY <1>3, <1>4

LEMMA ForceReleaseKeeps ==
  ASSUME FdAssumption, Inv, ForceRelease
  PROVE  Inv'
<1>. USE OursAreFiles DEF Inv
<1>1. /\ UNCHANGED <<timers, deferred, tasks, batch, count>>
      /\ loc = "release" /\ loc' = "forced"
      /\ state' = [state EXCEPT ![count] = NoState]
      /\ Close(count) \/ UNCHANGED kernel
  BY DEF ForceRelease
<1>2. /\ count \in Registered
      /\ Forced /\ batch' \in Seq([fd : Numbers \union {Listener}, for : Files \union {None}])
  BY <1>1 DEF Forced, Typed
<1>3. count \in Numbers /\ ~IsDeferred(count) /\ count \notin tasks
  BY <1>2, RegisteredNumbers
<1>4. /\ file' \in [Numbers -> Files \union {None}]
      /\ \A m \in Numbers \ {count} : file'[m] = file[m]
      /\ polled' \subseteq polled /\ unopened' = unopened
      /\ count \in polled' => file'[count] = file[count]
  <2>1. CASE Close(count)
    BY <2>1, <1>3, Closed
  <2>2. CASE UNCHANGED kernel
    BY <2>2 DEF Typed
  <2>. QED  BY <1>1, <2>1, <2>2
<1>5. Typed' /\ Owned' /\ DeferredIsHeld' /\ Started'
  BY <1>1, <1>2, <1>3, <1>4, LetGo, Reset
<1>6. Reported'
  BY <1>1 DEF Reported
<1>. QED  BY <1>5, <1>6

LEMMA ForceCloseKeeps ==
  ASSUME FdAssumption, Inv, ForceClose
  PROVE  Inv'
<1>. USE OursAreFiles DEF Inv
<1>1. /\ UNCHANGED <<state, timers, deferred, tasks, batch, count>>
      /\ loc = "forced" /\ loc' = "release" /\ count \in Registered /\ Close(count)
  BY DEF ForceClose
<1>2. count \in Numbers /\ ~IsDeferred(count) /\ count \notin tasks
  BY <1>1, RegisteredNumbers
<1>3. /\ file' \in [Numbers -> Files \union {None}]
      /\ \A m \in Numbers \ {count} : file'[m] = file[m]
      /\ polled' = polled \ {count} /\ unopened' = unopened
  BY <1>1, <1>2, Closed
<1>4. Registered' = Registered
  BY <1>1 DEF Registered
<1>5. Typed'
  BY <1>1, <1>2, <1>3, <1>4 DEF Typed
<1>6. Owned'
  BY <1>1, <1>2, <1>3, <1>4 DEF Owned, Typed, IsDeferred, Registered
<1>7. DeferredIsHeld'
  BY <1>1, <1>2, <1>3, <1>4, DeferredStays, DeferredNumbers
<1>8. Started'
  BY <1>1 DEF Started, Forced
<1>9. Reported'
  BY <1>1 DEF Reported
<1>. QED  BY <1>5, <1>6, <1>7, <1>8, <1>9

LEMMA CloseElsewhereKeeps ==
  ASSUME FdAssumption, Inv, NEW n \in Numbers, CloseElsewhere(n)
  PROVE  Inv'
<1>. USE OursAreFiles DEF Inv
<1>1. /\ UNCHANGED <<state, timers, deferred, tasks, batch, loc, count>>
      /\ file[n] \in Elsewhere /\ Close(n)
  BY DEF CloseElsewhere
<1>2. /\ file' \in [Numbers -> Files \union {None}]
      /\ \A m \in Numbers \ {n} : file'[m] = file[m]
      /\ polled' = polled \ {n} /\ unopened' = unopened
  BY <1>1, Closed
<1>3. ~IsDeferred(n) /\ n \notin tasks
  BY <1>1, DeferredNumbers DEF Owned, Ours
<1>4. n \in Registered => loc = "release" /\ n = count
  BY <1>1 DEF Owned, Registered, Typed
<1>5. Registered' = Registered
  BY <1>1 DEF Registered
<1>6. Typed'
  BY <1>1, <1>2, <1>5 DEF Typed
<1>7. Owned'
  BY <1>1, <1>2, <1>3, <1>4, <1>5 DEF Owned, Typed, IsDeferred, Registered
<1>8. DeferredIsHeld'
  BY <1>1, <1>2, <1>3, <1>5, DeferredStays, DeferredNumbers
<1>9. Started'
  BY <1>1 DEF Started, Forced, Armed
<1>10. Reported'
  BY <1>1, <1>2, ReportedStays
<1>. QED  BY <1>6, <1>7, <1>8, <1>9, <1>10

LEMMA OpenElsewhereKeeps ==
  ASSUME FdAssumption, Inv, NEW f \in Elsewhere, OpenElsewhere(f)
  PROVE  Inv'
<1>. USE OursAreFiles DEF Inv
<1>. DEFINE n == Min(Free)
<1>1. /\ UNCHANGED <<polled, state, timers, deferred, tasks, batch, loc, count>>
      /\ Open(f)
  BY DEF OpenElsewhere
<1>2. /\ n \in Numbers /\ file[n] = None /\ file'[n] = f
      /\ file' \in [Numbers -> Files \union {None}]
      /\ \A m \in Numbers \ {n} : file'[m] = file[m]
      /\ unopened' \subseteq Files
  BY <1>1, Opened
<1>. HIDE DEF n
<1>3. /\ n \notin polled /\ n \notin tasks /\ ~IsDeferred(n)
      /\ n \in Registered => loc = "release" /\ n = count
  BY <1>2, FreeNumbers
<1>4. Registered' = Registered
  BY <1>1 DEF Registered
<1>5. Typed'
  BY <1>1, <1>2, <1>4 DEF Typed
<1>6. Owned'
  BY <1>1, <1>2, <1>3, <1>4 DEF Owned, Typed, IsDeferred, Registered
<1>7. DeferredIsHeld'
  BY <1>1, <1>2, <1>3, <1>4, DeferredStays, DeferredNumbers
<1>8. Started'
  BY <1>1 DEF Started, Forced, Armed
<1>9. Reported'
  BY <1>1, <1>2, ReportedStays
<1>. QED  BY <1>5, <1>6, <1>7, <1>8, <1>9

LEMMA AcceptTimedKeeps ==
  ASSUME FdAssumption, Inv, NEW f \in Timed, AcceptTimed(f)
  PROVE  Inv'
<1>. USE OursAreFiles DEF Inv
<1>. DEFINE n == Min(Free)
<1>1. /\ UNCHANGED <<polled, state, timers, deferred, batch, loc, count>>
      /\ loc = "events" /\ Open(f) /\ f \in Files
  BY DEF AcceptTimed, Handles, Ours
<1>2. /\ n \in Numbers /\ file[n] = None /\ file'[n] = f
      /\ file' \in [Numbers -> Files \union {None}]
      /\ \A m \in Numbers \ {n} : file'[m] = file[m]
      /\ unopened' \subseteq Files
  BY <1>1, Opened
<1>3. tasks' = tasks \union {n}
  BY DEF AcceptTimed
<1>. HIDE DEF n
<1>4. n \notin polled /\ n \notin tasks /\ ~IsDeferred(n) /\ n \notin Registered
  BY <1>1, <1>2, FreeNumbers
<1>5. Registered' = Registered
  BY <1>1 DEF Registered
<1>6. Typed'
  BY <1>1, <1>2, <1>3, <1>5 DEF Typed
<1>7. Owned'
  BY <1>1, <1>2, <1>3, <1>4, <1>5 DEF Owned, Typed, IsDeferred, Registered
<1>8. DeferredIsHeld'
  BY <1>1, <1>2, <1>4, <1>5, DeferredStays, DeferredNumbers
<1>9. Started'
  BY <1>1 DEF Started, Forced, Armed
<1>10. Reported'
  BY <1>1, <1>2, ReportedStays
<1>. QED  BY <1>6, <1>7, <1>8, <1>9, <1>10

LEMMA AcceptServedKeeps ==
  ASSUME FdAssumption, Inv, NEW f \in Served, AcceptServed(f)
  PROVE  Inv'
<1>. USE OursAreFiles DEF Inv
<1>. DEFINE n == Min(Free)
<1>1. /\ UNCHANGED <<timers, deferred, tasks, batch, loc, count>>
      /\ loc = "events" /\ Open(f) /\ f \in Files /\ f \in Ours
  BY DEF AcceptServed, Handles, Register, Ours
<1>2. /\ n \in Numbers /\ file[n] = None /\ file'[n] = f
      /\ file' \in [Numbers -> Files \union {None}]
      /\ \A m \in Numbers \ {n} : file'[m] = file[m]
      /\ unopened' \subseteq Files
  BY <1>1, Opened
<1>3. /\ polled' = polled \union {n}
      /\ state' = [state EXCEPT ![n] = [NoState EXCEPT !.callback = f]]
  BY DEF AcceptServed, Register
<1>. HIDE DEF n
<1>4. /\ n \notin polled /\ n \notin tasks /\ ~IsDeferred(n) /\ n \notin Registered
      /\ \A t \in timers : t.fd # n
  BY <1>1, <1>2, FreeNumbers DEF Forced
<1>5. /\ DOMAIN state' = Numbers
      /\ IsState(state'[n]) /\ state'[n].callback = f
      /\ \A m \in Numbers \ {n} : state'[m] = state[m]
  BY <1>2, <1>3 DEF Typed, NoState, IsState
<1>6. Registered' = Registered \union {n}
  BY <1>1, <1>2, <1>5 DEF Registered
<1>7. Typed'
  BY <1>1, <1>2, <1>3, <1>5, <1>6 DEF Typed
<1>8. Owned'
  BY <1>1, <1>2, <1>3, <1>4, <1>5, <1>6 DEF Owned, Typed, IsDeferred, Registered
<1>9. DeferredIsHeld'
  BY <1>1, <1>2, <1>4, <1>6, DeferredStays, DeferredNumbers
<1>10. Started'
  BY <1>1, <1>4, <1>5 DEF Started, Forced, Armed, Typed, IsTimer
<1>11. Reported'
  BY <1>1, <1>2, ReportedStays
<1>. QED  BY <1>7, <1>8, <1>9, <1>10, <1>11

LEMMA TaskRegistersKeeps ==
  ASSUME FdAssumption, Inv, NEW n \in tasks, TaskRegisters(n)
  PROVE  Inv'
<1>. USE OursAreFiles DEF Inv
<1>. DEFINE new == Timer(n, Interval)
<1>1. /\ UNCHANGED <<file, unopened, deferred, batch, loc, count>>
      /\ loc = "tasks" /\ tasks' = tasks \ {n}
      /\ timers' = timers \union {new} /\ polled' = polled \union {n}
      /\ state' = [state EXCEPT ![n] = [callback |-> file[n], has_timeout |-> TRUE,
                                        timeout_id |-> FreshId, idle |-> 0]]
  BY DEF TaskRegisters, RegisterWithTimeout
<1>2. /\ n \in Numbers /\ n \notin Registered /\ ~IsDeferred(n)
      /\ file[n] \in Ours /\ file[n] # None
  BY DEF Typed, Owned, Ours
<1>3. \A t \in timers : t.fd # n
  BY <1>1, <1>2 DEF Started, Forced, Armed, Registered
<1>4. new.fd = n /\ new.id = FreshId /\ IsTimer(new)
  BY <1>2 DEF Timer, IsTimer
<1>. HIDE DEF new
<1>5. /\ DOMAIN state' = Numbers
      /\ IsState(state'[n]) /\ state'[n].callback = file[n]
      /\ state'[n].has_timeout /\ state'[n].timeout_id = FreshId
      /\ \A m \in Numbers \ {n} : state'[m] = state[m]
  BY <1>1, <1>2 DEF Typed, IsState
<1>6. Registered' = Registered \union {n}
  BY <1>2, <1>5 DEF Registered
<1>7. Typed'
  BY <1>1, <1>2, <1>4, <1>5, <1>6 DEF Typed
<1>8. Owned'
  BY <1>1, <1>2, <1>5, <1>6 DEF Owned, Typed, IsDeferred, Registered
<1>9. DeferredIsHeld'
  BY <1>1, <1>2, <1>4, <1>6, DeferredStays, DeferredNumbers
<1>10. Started'
  <2>1. ASSUME NEW t \in timers', ~Forced
        PROVE  Armed(t.fd)' /\ state'[t.fd].timeout_id = t.id
    <3>1. CASE t = new
      BY <3>1, <1>2, <1>4, <1>5 DEF Armed
    <3>2. CASE t # new
      <4>1. t.fd \in Numbers /\ t.fd # n /\ Armed(t.fd) /\ state[t.fd].timeout_id = t.id
        BY <2>1, <3>2, <1>1, <1>3 DEF Typed, Started, IsTimer
      <4>. QED  BY <4>1, <1>5 DEF Armed
    <3>. QED  BY <3>1, <3>2
  <2>2. \A t, u \in timers' : t.fd = u.fd => t = u
    BY <1>1, <1>3, <1>4 DEF Started
  <2>. QED  BY <2>1, <2>2, <1>1 DEF Started, Forced
<1>11. Reported'
  BY <1>1 DEF Reported
<1>. QED  BY <1>7, <1>8, <1>9, <1>10, <1>11

LEMMA FdTimesOutKeeps ==
  ASSUME FdAssumption, Inv, NEW t \in Due, FdTimesOut(t)
  PROVE  Inv'
<1>. USE OursAreFiles DEF Inv
<1>. DEFINE n == t.fd
<1>1. /\ UNCHANGED <<tasks, batch, loc, count>>
      /\ loc = "timers" /\ timers' = timers \ {t}
      /\ t \in timers /\ n \in Numbers /\ n \in Registered
      /\ QueueFdClose(n)
  BY DEF FdTimesOut, Due, Typed, IsTimer, Armed, Registered
<1>2. \A u \in timers' : u.fd # n
  BY <1>1 DEF Started
<1>3. ~IsDeferred(n) /\ n \notin tasks
  BY <1>1, RegisteredNumbers
<1>4. Reported'
  BY <1>1 DEF Reported
<1>. HIDE DEF n
<1>5. CASE Close(n) /\ deferred' = deferred /\ state' = [state EXCEPT ![n] = NoState]
  <2>1. Typed' /\ Owned' /\ DeferredIsHeld' /\ Started'
    BY <1>1, <1>2, <1>3, <1>5, LetGo, Closed, Reset DEF Typed
  <2>. QED  BY <2>1, <1>4
<1>6. CASE /\ UNCHANGED kernel
           /\ state' = [state EXCEPT ![n] = NoState]
           /\ deferred' = Append(deferred, [fd |-> n, for |-> file[n]])
  <2>. DEFINE E == [fd : Numbers, for : Files \union {None}]
              d == [fd |-> n, for |-> file[n]]
  <2>1. /\ DOMAIN state' = Numbers
        /\ IsState(state'[n]) /\ state'[n].callback = None
        /\ \A m \in Numbers \ {n} : state'[m] = state[m]
    BY <1>1, <1>6, Reset
  <2>2. Registered' = Registered \ {n}
    BY <2>1 DEF Registered
  <2>3. file[n] \in Ours
    BY <1>1 DEF Owned, Registered, Typed
  <2>4. deferred \in Seq(E) /\ d \in E /\ d.fd = n /\ d.for = file[n]
    BY <1>1, <2>3 DEF Typed
  <2>. HIDE DEF E, d
  <2>5. /\ deferred' \in Seq(E) /\ Len(deferred) \in Nat
        /\ DOMAIN deferred = 1 .. Len(deferred)
        /\ DOMAIN deferred' = 1 .. Len(deferred) + 1
        /\ deferred'[Len(deferred) + 1] = d
        /\ \A i \in 1 .. Len(deferred) : deferred'[i] = deferred[i]
    BY <1>6, <2>4 DEF d
  <2>6. Typed'
    BY <1>1, <1>6, <2>1, <2>2, <2>5 DEF Typed, E
  <2>7. \A m \in Numbers : IsDeferred(m)' => IsDeferred(m) \/ m = n
    BY <2>4, <2>5 DEF IsDeferred
  <2>8. Owned'
    <3>1. \A i \in DOMAIN deferred' : deferred'[i].for \in Ours
      BY <2>3, <2>4, <2>5 DEF Owned
    <3>2. \A m \in tasks' : file'[m] \in Timed /\ m \notin Registered' /\ ~IsDeferred(m)'
      BY <1>1, <1>3, <1>6, <2>2, <2>7 DEF Owned, Typed
    <3>. QED  BY <1>1, <1>6, <2>1, <2>2, <3>1, <3>2 DEF Owned, Registered
  <2>9. DeferredIsHeld'
    <3>1. ASSUME NEW i \in 1 .. Len(deferred)
          PROVE  /\ deferred'[i] = deferred[i] /\ deferred[i].fd # n
                 /\ file'[deferred[i].fd] = deferred[i].for
                 /\ deferred[i].fd \notin Registered'
                 /\ \A u \in timers' : u.fd # deferred[i].fd
                 /\ \A j \in 1 .. Len(deferred) :
                      deferred[j].fd = deferred[i].fd => i = j
      BY <1>1, <1>3, <1>6, <2>2, <2>5 DEF DeferredIsHeld, IsDeferred
    <3>. QED  BY <1>2, <1>6, <2>2, <2>4, <2>5, <3>1 DEF DeferredIsHeld
  <2>10. Started'
    BY <1>1, <1>2, <2>1 DEF Started, Forced, Armed, Typed, IsTimer
  <2>. QED  BY <1>4, <2>6, <2>8, <2>9, <2>10
<1>. QED  BY <1>1, <1>5, <1>6
          DEF QueueFdClose, CloseInline, DeferClose, CloseSaturated,
              CloseImmediately, Disarm

LEMMA FlushOneKeeps ==
  ASSUME FdAssumption, Inv, FlushOne
  PROVE  Inv'
<1>. USE OursAreFiles DEF Inv
<1>. DEFINE E == [fd : Numbers, for : Files \union {None}]
            n == Head(deferred).fd
<1>1. /\ UNCHANGED <<timers, tasks, loc, batch>>
      /\ loc \in {"flush", "final"}
      /\ deferred # <<>> /\ deferred' = Tail(deferred)
      /\ Close(n) /\ state' = [state EXCEPT ![n] = NoState]
  BY DEF FlushOne, CloseImmediately
<1>2. deferred \in Seq(E)
  BY DEF Typed
<1>. HIDE DEF E
<1>3. /\ deferred' \in Seq(E)
      /\ 1 \in DOMAIN deferred /\ Head(deferred) = deferred[1] /\ Head(deferred) \in E
      /\ \A i \in DOMAIN deferred' :
           i \in Nat \ {0} /\ i + 1 \in DOMAIN deferred /\ deferred'[i] = deferred[i + 1]
  BY <1>1, <1>2, TailOf
<1>4. n \in Numbers /\ IsDeferred(n)
  BY <1>3 DEF E, IsDeferred
<1>5. n \notin Registered /\ (\A t \in timers : t.fd # n) /\ n \notin tasks
  BY <1>4, DeferredNumbers DEF Owned
<1>6. /\ file' \in [Numbers -> Files \union {None}] /\ file'[n] = None
      /\ \A m \in Numbers \ {n} : file'[m] = file[m]
      /\ polled' = polled \ {n} /\ unopened' = unopened
      /\ DOMAIN state' = Numbers
      /\ IsState(state'[n]) /\ state'[n].callback = None
      /\ \A m \in Numbers \ {n} : state'[m] = state[m]
  BY <1>1, <1>4, Closed, Reset
<1>7. \A i \in DOMAIN deferred : i # 1 => deferred[i].fd # n
  BY <1>3 DEF DeferredIsHeld
<1>. HIDE DEF n
<1>8. Registered' = Registered
  BY <1>5, <1>6 DEF Registered
<1>9. Typed'
  BY <1>1, <1>3, <1>5, <1>6, <1>8 DEF Typed, E
<1>10. \A m \in Numbers : IsDeferred(m)' => IsDeferred(m)
  BY <1>3 DEF IsDeferred
<1>11. Owned'
  <2>1. \A i \in DOMAIN deferred' : deferred'[i].for \in Ours
    BY <1>3 DEF Owned
  <2>2. \A m \in tasks' : file'[m] \in Timed /\ m \notin Registered' /\ ~IsDeferred(m)'
    BY <1>1, <1>5, <1>6, <1>8, <1>10 DEF Owned, Typed
  <2>. QED  BY <1>1, <1>5, <1>6, <1>8, <2>1, <2>2 DEF Owned, Registered, Typed
<1>12. DeferredIsHeld'
  <2>1. ASSUME NEW i \in DOMAIN deferred'
        PROVE  /\ i + 1 \in DOMAIN deferred /\ i \in Nat \ {0}
               /\ deferred'[i] = deferred[i + 1]
               /\ deferred[i + 1].fd \in Numbers \ {n}
    <3>1. i + 1 \in DOMAIN deferred /\ i \in Nat \ {0} /\ deferred'[i] = deferred[i + 1]
      BY <1>3
    <3>2. deferred[i + 1] \in E
      BY <1>2, <3>1, MemberOf
    <3>3. deferred[i + 1].fd # n
      BY <3>1, <1>7
    <3>. QED  BY <3>1, <3>2, <3>3 DEF E
  <2>2. ASSUME NEW i \in DOMAIN deferred'
        PROVE  /\ file'[deferred'[i].fd] = deferred'[i].for
               /\ deferred'[i].fd \notin Registered'
               /\ \A t \in timers' : t.fd # deferred'[i].fd
               /\ \A j \in DOMAIN deferred' : deferred'[j].fd = deferred'[i].fd => i = j
    <3>1. i + 1 \in DOMAIN deferred /\ deferred'[i] = deferred[i + 1]
          /\ deferred[i + 1].fd \in Numbers \ {n}
      BY <2>1
    <3>2. /\ file[deferred[i + 1].fd] = deferred[i + 1].for
          /\ deferred[i + 1].fd \notin Registered
          /\ \A t \in timers : t.fd # deferred[i + 1].fd
      BY <3>1 DEF DeferredIsHeld
    <3>3. \A j \in DOMAIN deferred' : deferred'[j].fd = deferred'[i].fd => i + 1 = j + 1
      BY <2>1 DEF DeferredIsHeld
    <3>4. \A j \in DOMAIN deferred' : deferred'[j].fd = deferred'[i].fd => i = j
      BY <2>1, <3>3
    <3>5. \A t \in timers' : t.fd # deferred'[i].fd
      BY <1>1, <3>1, <3>2
    <3>6. file'[deferred'[i].fd] = deferred'[i].for /\ deferred'[i].fd \notin Registered'
      BY <1>6, <1>8, <3>1, <3>2
    <3>. QED  BY <3>4, <3>5, <3>6
  <2>. QED  BY <2>2 DEF DeferredIsHeld
<1>13. Started'
  <2>1. ASSUME NEW t \in timers', ~Forced
        PROVE  Armed(t.fd)' /\ state'[t.fd].timeout_id = t.id
    <3>1. t \in timers /\ t.fd # n /\ t.fd \in Numbers
      BY <1>1, <1>5 DEF Typed, IsTimer
    <3>. QED  BY <2>1, <3>1, <1>6 DEF Started, Armed
  <2>. QED  BY <2>1, <1>1 DEF Started, Forced
<1>14. Reported'
  BY <1>1 DEF Reported
<1>. QED  BY <1>9, <1>11, <1>12, <1>13, <1>14

-----------------------------------------------------------------------------
LEMMA InvInit == FdAssumption /\ Init => Inv
<1>. SUFFICES ASSUME FdAssumption, Init PROVE Inv
  OBVIOUS
<1>1. Typed
  BY DEF Init, Typed, Registered, NoState, IsState
<1>2. Owned /\ DeferredIsHeld /\ Started /\ Reported
  BY DEF Init, Owned, DeferredIsHeld, Started, Reported, Registered, NoState
<1>. QED  BY <1>1, <1>2 DEF Inv

LEMMA InvNext == FdAssumption /\ Inv /\ [Next]_vars => Inv'
<1>. SUFFICES ASSUME FdAssumption, Inv, [Next]_vars PROVE Inv'
  OBVIOUS
<1>1. CASE Turn
  <2>1. CASE ProcessWheelTimer
    BY <2>1, FdTimesOutKeeps, FdWasActiveKeeps, TimersDoneKeeps DEF ProcessWheelTimer
  <2>2. CASE ProcessTasks
    BY <2>2, TaskRegistersKeeps, TaskFailsToRegisterKeeps, TasksDoneKeeps DEF ProcessTasks
  <2>3. CASE Shutdown
    BY <2>3, GoesOnKeeps, ShutdownIdleKeeps, DeadlineComesKeeps, ForceCloseKeeps,
       ForceUnregisterKeeps, ForceReleaseKeeps, ForceNextKeeps DEF Shutdown
  <2>4. CASE ProcessEvents
    BY <2>4, EpollWaitKeeps, AcceptServedKeeps, AcceptFailsKeeps, AcceptTimedKeeps,
       AcceptDoneKeeps, DropEventKeeps, CallbackKeeps, CallbackModifiesKeeps,
       CallbackClosesKeeps, EventsDoneKeeps DEF ProcessEvents
  <2>5. CASE FlushDeferredCloses
    BY <2>5, FlushOneKeeps, FlushDoneKeeps DEF FlushDeferredCloses
  <2>. QED  BY <1>1, <2>1, <2>2, <2>3, <2>4, <2>5 DEF Turn
<1>2. CASE TimePasses
  BY <1>2, TimePassesKeeps
<1>3. ASSUME NEW f \in Elsewhere, OpenElsewhere(f) PROVE Inv'
  BY <1>3, OpenElsewhereKeeps
<1>4. ASSUME NEW n \in Numbers, CloseElsewhere(n) PROVE Inv'
  BY <1>4, CloseElsewhereKeeps
<1>5. CASE UNCHANGED vars
  BY <1>5 DEF vars, Inv, Typed, Owned, DeferredIsHeld, Started, Reported,
              Registered, IsDeferred, Armed, Forced
<1>. QED  BY <1>1, <1>2, <1>3, <1>4, <1>5 DEF Next

LEMMA InvOwnEvents == FdAssumption /\ Inv => OwnEvents
<1>. SUFFICES ASSUME FdAssumption, Inv, loc = "events", batch # <<>>,
                     Head(batch).fd \in Registered
     PROVE  state[Head(batch).fd].callback = Head(batch).for
  BY DEF OwnEvents
<1>. DEFINE E == [fd : Numbers \union {Listener}, for : Files \union {None}]
<1>1. batch \in Seq(E)
  BY DEF Inv, Typed
<1>. HIDE DEF E
<1>2. 1 \in DOMAIN batch /\ Head(batch) = batch[1]
  BY <1>1, TailOf
<1>3. batch[1].fd # Listener
  BY <1>2, OursAreFiles DEF Registered
<1>4. file[batch[1].fd] = batch[1].for
  BY <1>2, <1>3 DEF Inv, Reported
<1>5. file[batch[1].fd] = state[batch[1].fd].callback
  BY <1>2 DEF Inv, Owned
<1>. QED  BY <1>2, <1>4, <1>5

\* The number of a deferred close stays with the file it was deferred for until
\* flush_deferred_closes() closes it, and nobody is told of it any more: for any
\* files and numbers, any budget and any capacity of deferred_closes_, and
\* whatever other threads open and close meanwhile.
THEOREM DeferredCorrect == Spec => []DeferredIsHeld
<1>1. FdAssumption
  BY FdAssumption
<1>2. Init => Inv
  BY <1>1, InvInit
<1>3. Inv /\ [Next]_vars => Inv'
  BY <1>1, InvNext
<1>4. Inv => DeferredIsHeld
  BY DEF Inv
<1>. QED  BY <1>2, <1>3, <1>4, PTL DEF Spec

\* process_events() gives a callback no event but of its own file, although the
\* callbacks in front of it have closed, accepted and registered files since
\* epoll_wait reported the batch: for any batch of any length.
THEOREM OwnEventsCorrect == Spec => []OwnEvents
<1>1. FdAssumption
  BY FdAssumption
<1>2. Init => Inv
  BY <1>1, InvInit
<1>3. Inv /\ [Next]_vars => Inv'
  BY <1>1, InvNext
<1>4. Inv => OwnEvents
  BY <1>1, InvOwnEvents
<1>. QED  BY <1>2, <1>3, <1>4, PTL DEF Spec

-----------------------------------------------------------------------------
(* What the table, the wheel and the count of fds say of one another.  Here  *)
(* the invariant above is known before and after a step.                     *)

\* What is registered is polled.
Watched == \A n \in Registered : (loc = "release" => n # count) => n \in polled

\* The registrations with a timeout and the timers, until a forced shutdown.
Paired ==
  ~Forced =>
    /\ \A t \in timers : t.id # 0 /\ t.for = state[t.fd].callback
    /\ \A t, u \in timers : t.id = u.id => t = u
    /\ \A n \in Numbers : Armed(n) => \E t \in timers : t.fd = n
    /\ \A n \in Numbers : ~Armed(n) => state[n].timeout_id = 0

\* A forced shutdown forgets to count what it closes.
Counted ==
  /\ active \in Nat
  /\ Cardinality(Registered) + Len(deferred) <= active
  /\ ActiveIsCounted

Ranged ==
  /\ \A n \in Numbers :
       /\ state[n].has_timeout \in BOOLEAN
       /\ state[n].timeout_id \in Nat /\ state[n].idle \in 0 .. Interval
  /\ \A t \in timers : t.left \in 0 .. Interval
  /\ Len(deferred) <= DeferredCap
  /\ budget \in 0 .. InlineThreshold
  /\ loc \in Labels

Right == Watched /\ Paired /\ Counted /\ Ranged

LEMMA MaxOf ==
  ASSUME NEW a \in Int, NEW b \in Int
  PROVE  Max({a, b}) = IF a >= b THEN a ELSE b
<1>. DEFINE m == IF a >= b THEN a ELSE b
<1>1. m \in {a, b} /\ \A y \in {a, b} : m >= y
  OBVIOUS
<1>2. \A x \in {a, b} : (\A y \in {a, b} : x >= y) => x = m
  OBVIOUS
<1>. HIDE DEF m
<1>3. Max({a, b}) = m
  BY <1>1, <1>2 DEF Max
<1>. QED  BY <1>3 DEF m

LEMMA MinOf ==
  ASSUME NEW a \in Int, NEW b \in Int
  PROVE  Min({a, b}) = IF a <= b THEN a ELSE b
<1>. DEFINE m == IF a <= b THEN a ELSE b
<1>1. m \in {a, b} /\ \A y \in {a, b} : m <= y
  OBVIOUS
<1>2. \A x \in {a, b} : (\A y \in {a, b} : x <= y) => x = m
  OBVIOUS
<1>. HIDE DEF m
<1>3. Min({a, b}) = m
  BY <1>1, <1>2 DEF Min
<1>. QED  BY <1>3 DEF m

\* As many ids as there are numbers are in use, so one more is free.
LEMMA FreshIds ==
  ASSUME FdAssumption, Inv, Right, ~Forced
  PROVE  /\ FreshId \in Nat \ {0}
         /\ \A t \in timers : t.id # FreshId
         /\ \A n \in Numbers : state[n].timeout_id # FreshId
<1>. DEFINE ids    == [n \in Numbers |-> state[n].timeout_id]
            inUse  == {state[n].timeout_id : n \in Numbers}
            onWheel == {t.id : t \in timers}
            all    == 1 .. 2 * Cardinality(Numbers) + 1
            N      == Cardinality(Numbers)
<1>1. onWheel \subseteq inUse
  BY DEF Inv, Typed, Started, IsTimer
<1>2. ids \in Surjection(Numbers, inUse)
  BY DEF Surjection
<1>3. IsFiniteSet(Numbers) /\ N \in Nat
  BY FS_CardinalityType DEF FdAssumption
<1>. HIDE DEF ids, inUse, N
<1>4. IsFiniteSet(inUse) /\ Cardinality(inUse) <= N
  BY <1>2, <1>3, FS_Surjection DEF N
<1>5. IsFiniteSet(all) /\ Cardinality(all) = 2 * N + 1
  BY <1>3, FS_Interval DEF N
<1>. HIDE DEF all
<1>6. ~(all \subseteq inUse)
  <2>1. all \subseteq inUse => 2 * N + 1 <= Cardinality(inUse)
    BY <1>4, <1>5, FS_Subset
  <2>2. Cardinality(inUse) \in Nat
    BY <1>4, FS_CardinalityType
  <2>. QED  BY <1>3, <1>4, <2>1, <2>2
<1>7. all \ (onWheel \union inUse) # {}
  BY <1>1, <1>6
<1>8. all \ (onWheel \union inUse) \in SUBSET Nat /\ 0 \notin all
  BY DEF all
<1>9. Min(all \ (onWheel \union inUse)) \in all \ (onWheel \union inUse)
  BY <1>7, <1>8, LeastOf
<1>10. FreshId = Min(all \ (onWheel \union inUse))
  BY DEF FreshId, all, inUse
<1>11. FreshId \in Nat \ {0} /\ FreshId \notin onWheel /\ FreshId \notin inUse
  BY <1>8, <1>9, <1>10
<1>. QED  BY <1>11 DEF inUse

LEMMA RegisteredIs ==
  ASSUME FdAssumption, Inv
  PROVE  /\ IsFiniteSet(Registered) /\ Cardinality(Registered) \in Nat
         /\ Len(deferred) \in Nat
<1>1. IsFiniteSet(Registered)
  BY FS_Subset DEF FdAssumption, Registered
<1>. QED  BY <1>1, FS_CardinalityType DEF Inv, Typed

\* Steps that leave the registrations and the closes alone.
LEMMA RightStays ==
  ASSUME Inv, Right, UNCHANGED <<state, timers, deferred, budget, active>>,
         \A n \in Registered : n \in polled => n \in polled',
         Forced => Forced', loc' \in Labels,
         loc = "release" => loc' = "release" /\ count' = count
  PROVE  Right'
<1>. USE DEF Right
<1>1. Registered' = Registered /\ \A n \in Numbers : Armed(n)' <=> Armed(n)
  BY DEF Registered, Armed
<1>2. Watched'
  BY <1>1 DEF Watched
<1>3. Paired'
  BY <1>1 DEF Paired
<1>4. Counted'
  BY <1>1 DEF Counted, ActiveIsCounted
<1>5. Ranged'
  BY DEF Ranged
<1>. QED  BY <1>2, <1>3, <1>4, <1>5

\* A registration is forgotten with its timer.
LEMMA RightForgets ==
  ASSUME FdAssumption, Inv, Right, NEW n \in Registered,
         state' = [state EXCEPT ![n] = NoState],
         timers' \subseteq timers,
         ~Forced => \A t \in timers : t \in timers' <=> t.fd # n,
         polled \ {n} \subseteq polled',
         deferred' \in Seq([fd : Numbers, for : Files \union {None}]),
         \/ active' = active - 1 /\ Len(deferred') = Len(deferred)
         \/ active' = active /\ Len(deferred') = Len(deferred) + 1
         \/ active' = active /\ Len(deferred') = Len(deferred) /\ Forced,
         Len(deferred') <= DeferredCap, budget' \in 0 .. InlineThreshold,
         Forced <=> Forced', loc' \in Labels,
         loc' = "release" => loc = "release" /\ count' = count,
         loc = "release" => count = n
  PROVE  Right'
<1>. USE DEF Right
<1>1. n \in Numbers
  BY DEF Registered
<1>2. /\ \A m \in Numbers \ {n} : state'[m] = state[m]
      /\ state'[n] = NoState
      /\ DOMAIN state' = Numbers
  BY <1>1 DEF Inv, Typed
<1>3. Registered' = Registered \ {n} /\ ~Armed(n)'
  BY <1>1, <1>2 DEF Registered, Armed, NoState
<1>4. Cardinality(Registered') = Cardinality(Registered) - 1 /\ Cardinality(Registered') \in Nat
  BY <1>3, RegisteredIs, FS_RemoveElement, FS_CardinalityType
<1>5. Watched'
  BY <1>1, <1>3 DEF Watched
<1>6. Paired'
  <2>1. SUFFICES ASSUME ~Forced
        PROVE  /\ \A t \in timers' : t.id # 0 /\ t.for = state'[t.fd].callback
               /\ \A t, u \in timers' : t.id = u.id => t = u
               /\ \A m \in Numbers : Armed(m)' => \E t \in timers' : t.fd = m
               /\ \A m \in Numbers : ~Armed(m)' => state'[m].timeout_id = 0
    BY DEF Paired
  <2>2. \A t \in timers' : t \in timers /\ t.fd # n /\ t.fd \in Numbers
    BY <2>1 DEF Inv, Typed, IsTimer
  <2>3. \A t \in timers' : t.id # 0 /\ t.for = state'[t.fd].callback
    BY <1>2, <2>1, <2>2 DEF Paired
  <2>4. \A t, u \in timers' : t.id = u.id => t = u
    BY <2>1, <2>2 DEF Paired
  <2>5. \A m \in Numbers : Armed(m)' => \E t \in timers' : t.fd = m
    BY <1>2, <1>3, <2>1 DEF Paired, Armed
  <2>6. \A m \in Numbers : ~Armed(m)' => state'[m].timeout_id = 0
    BY <1>2, <2>1 DEF Paired, Armed, NoState
  <2>. QED  BY <2>3, <2>4, <2>5, <2>6
<1>7. Counted'
  <2>. DEFINE r == Cardinality(Registered)
              d == Len(deferred)
  <2>1. d \in Nat /\ r \in Nat /\ active \in Nat /\ r + d <= active
        /\ (~Forced => active = r + d)
    BY RegisteredIs DEF Counted, ActiveIsCounted
  <2>2. d' \in Nat /\ r' \in Nat /\ r' = r - 1
    BY <1>4
  <2>3. SUFFICES active' \in Nat /\ r' + d' <= active' /\ (~Forced' => active' = r' + d')
    BY DEF Counted, ActiveIsCounted
  <2>. HIDE DEF r
  <2>. QED  BY <2>1, <2>2
<1>8. Ranged'
  <2>1. ASSUME NEW m \in Numbers
        PROVE  /\ state'[m].has_timeout \in BOOLEAN
               /\ state'[m].timeout_id \in Nat
               /\ state'[m].idle \in 0 .. Interval
    <3>1. CASE m = n
      <4>1. state'[m] = NoState
        BY <1>2, <3>1
      <4>2. state'[m].has_timeout \in BOOLEAN
        <5>1. NoState \in [callback : {None}, has_timeout : BOOLEAN,
                           timeout_id : {0}, idle : {0}]
          BY DEF NoState
        <5>. QED  BY <4>1, <5>1
      <4>3. state'[m].timeout_id \in Nat /\ state'[m].idle \in 0 .. Interval
        BY <4>1 DEF NoState, FdAssumption
      <4>. QED  BY <4>2, <4>3
    <3>2. CASE m # n
      BY <1>2, <3>2 DEF Ranged
    <3>. QED  BY <3>1, <3>2
  <2>. QED  BY <2>1 DEF Ranged
<1>. QED  BY <1>5, <1>6, <1>7, <1>8

\* A registration is given another timer.
LEMMA RightRenews ==
  ASSUME FdAssumption, Inv, Right, NEW n \in Numbers, NEW k \in 0 .. Interval,
         Armed(n), ~Forced, ~Forced',
         UNCHANGED <<file, deferred, budget, active>>, polled' = polled, loc' = loc,
         \A t \in timers : t.fd # n => t \in timers',
         \A t \in timers' : t = Timer(n, k) \/ (t \in timers /\ t.fd # n),
         Timer(n, k) \in timers',
         \/ state' = [state EXCEPT ![n].timeout_id = FreshId]
         \/ state' = [state EXCEPT ![n].timeout_id = FreshId, ![n].idle = 0]
  PROVE  Right'
<1>. USE DEF Right
<1>. DEFINE new == Timer(n, k)
<1>1. /\ new.fd = n /\ new.id = FreshId /\ new.for = file[n] /\ new.left = k
      /\ FreshId \in Nat \ {0} /\ \A t \in timers : t.id # FreshId
  BY FreshIds DEF Timer
<1>. HIDE DEF new
<1>2. /\ \A m \in Numbers \ {n} : state'[m] = state[m]
      /\ state'[n].callback = state[n].callback
      /\ state'[n].has_timeout = state[n].has_timeout
      /\ state'[n].timeout_id = FreshId
      /\ state'[n].idle \in {0, state[n].idle}
      /\ DOMAIN state' = Numbers
  <2>1. IsState(state[n]) /\ DOMAIN state = Numbers
    BY DEF Inv, Typed
  <2>. QED  BY <2>1 DEF IsState
<1>3. Registered' = Registered /\ \A m \in Numbers : Armed(m)' <=> Armed(m)
  <2>1. Registered' = Registered
    BY <1>2 DEF Registered
  <2>2. ASSUME NEW m \in Numbers PROVE Armed(m)' <=> Armed(m)
    <3>1. CASE m = n
      BY <1>2, <3>1, Zenon DEF Armed
    <3>2. CASE m # n
      BY <1>2, <3>2 DEF Armed
    <3>. QED  BY <3>1, <3>2
  <2>. QED  BY <2>1, <2>2
<1>4. loc # "release" /\ loc' # "release"
  BY DEF Forced
<1>5. Watched'
  BY <1>3, <1>4 DEF Watched
<1>6. Paired'
  <2>1. new.for = state'[n].callback
    BY <1>1, <1>2, <1>4 DEF Inv, Owned, Armed, Registered
  <2>2. \A t \in timers' : t.id # 0 /\ t.for = state'[t.fd].callback
    <3>1. ASSUME NEW t \in timers', t # new
          PROVE  t.id # 0 /\ t.for = state'[t.fd].callback
      <4>1. t \in timers /\ t.fd # n /\ t.fd \in Numbers
        BY <3>1 DEF new, Inv, Typed, IsTimer
      <4>. QED  BY <4>1, <1>2 DEF Paired
    <3>. QED  BY <3>1, <2>1, <1>1
  <2>3. \A t, u \in timers' : t.id = u.id => t = u
    BY <1>1 DEF Paired, new
  <2>4. \A m \in Numbers : Armed(m)' => \E t \in timers' : t.fd = m
    BY <1>1, <1>3 DEF Paired, new
  <2>5. \A m \in Numbers : ~Armed(m)' => state'[m].timeout_id = 0
    BY <1>2, <1>3 DEF Paired
  <2>. QED  BY <2>2, <2>3, <2>4, <2>5 DEF Paired
<1>7. Counted'
  BY <1>3 DEF Counted, ActiveIsCounted
<1>8. Ranged'
  <2>1. ASSUME NEW m \in Numbers
        PROVE  /\ state'[m].has_timeout \in BOOLEAN
               /\ state'[m].timeout_id \in Nat
               /\ state'[m].idle \in 0 .. Interval
    <3>1. /\ state[m].has_timeout \in BOOLEAN /\ state[m].timeout_id \in Nat
          /\ state[m].idle \in 0 .. Interval /\ 0 \in 0 .. Interval
      BY DEF Ranged, FdAssumption
    <3>2. CASE m = n
      BY <1>1, <1>2, <3>1, <3>2
    <3>3. CASE m # n
      BY <1>2, <3>1, <3>3
    <3>. QED  BY <3>2, <3>3
  <2>2. \A t \in timers' : t.left \in 0 .. Interval
    BY <1>1 DEF Ranged, new
  <2>. QED  BY <2>1, <2>2 DEF Ranged
<1>. QED  BY <1>5, <1>6, <1>7, <1>8

\* Without(n) are the timers but that of n.
LEMMA OthersTimers ==
  ASSUME FdAssumption, Inv, Right, NEW n \in Registered, ~Forced
  PROVE  \A t \in timers : t \in Without(n) <=> t.fd # n
<1>. USE DEF Inv, Right
<1>1. ASSUME NEW t \in timers, t.fd = n PROVE t.id = state[n].timeout_id
  BY <1>1 DEF Started
<1>2. ASSUME NEW t \in timers, t.id = state[n].timeout_id PROVE t.fd = n
  <2>1. Armed(n)
    BY <1>2 DEF Paired, Registered
  <2>2. PICK u \in timers : u.fd = n
    BY <2>1 DEF Paired, Registered
  <2>3. u.id = t.id
    BY <1>1, <1>2, <2>2
  <2>. QED  BY <2>2, <2>3 DEF Paired
<1>. QED  BY <1>1, <1>2 DEF Without

LEMMA FdTimesOutRight ==
  ASSUME FdAssumption, Inv, Inv', Right, NEW t \in Due, FdTimesOut(t)
  PROVE  Right'
<1>. DEFINE n == t.fd
<1>1. /\ UNCHANGED <<loc, count>> /\ loc = "timers"
      /\ t \in timers /\ timers' = timers \ {t}
      /\ n \in Registered /\ QueueFdClose(n)
  BY DEF Inv, FdTimesOut, Due, Typed, IsTimer, Armed, Registered
<1>2. \A u \in timers : u \in timers' <=> u.fd # n
  BY <1>1 DEF Inv, Started
<1>3. /\ deferred' \in Seq([fd : Numbers, for : Files \union {None}])
      /\ ~Forced /\ ~Forced' /\ loc' \in Labels
  BY <1>1 DEF Inv, Typed, Forced, Labels
<1>. HIDE DEF n
<1>4. CASE CloseInline(n) \/ CloseSaturated(n)
  <2>1. /\ state' = [state EXCEPT ![n] = NoState] /\ polled' = polled \ {n}
        /\ active' = active - 1 /\ deferred' = deferred
        /\ budget' \in 0 .. InlineThreshold
    BY <1>4 DEF CloseInline, CloseSaturated, CloseImmediately, Close, Right, Ranged,
                FdAssumption
  <2>. QED  BY <1>1, <1>2, <1>3, <2>1, RightForgets DEF Right, Ranged
<1>5. CASE DeferClose(n)
  <2>1. /\ state' = [state EXCEPT ![n] = NoState] /\ polled' = polled
        /\ active' = active /\ budget' \in 0 .. InlineThreshold
        /\ deferred' = Append(deferred, [fd |-> n, for |-> file[n]])
        /\ Len(deferred) < DeferredCap /\ DeferredCap \in Nat
    BY <1>5 DEF DeferClose, Disarm, FdAssumption
  <2>2. Len(deferred') = Len(deferred) + 1 /\ Len(deferred) \in Nat
    BY <2>1 DEF Inv, Typed
  <2>3. Len(deferred') <= DeferredCap
    BY <2>1, <2>2
  <2>. QED  BY <1>1, <1>2, <1>3, <2>1, <2>2, <2>3, RightForgets
<1>. QED  BY <1>1, <1>4, <1>5 DEF QueueFdClose

LEMMA DivIs ==
  ASSUME NEW x \in Nat, NEW y \in Nat \ {0}
  PROVE  x \div y \in 0 .. x
<1>. DEFINE q == x \div y
<1>1. q \in Int /\ y * q <= x /\ x < y * q + y
  OBVIOUS
<1>. HIDE DEF q
<1>2. q >= 0
  BY <1>1
<1>3. q <= y * q
  BY <1>1, <1>2
<1>. QED  BY <1>1, <1>2, <1>3 DEF q

LEMMA FdWasActiveRight ==
  ASSUME FdAssumption, Inv, Right, NEW t \in Due, FdWasActive(t)
  PROVE  Right'
<1>. DEFINE n == t.fd
            k == Remaining(n)
<1>1. /\ t \in timers /\ n \in Numbers /\ Armed(n) /\ ~TimedOut(n) /\ loc = "timers"
      /\ UNCHANGED <<file, polled, deferred, budget, active, loc>>
      /\ timers' = (timers \ {t}) \union {Timer(n, k)}
      /\ state' = [state EXCEPT ![n].timeout_id = FreshId]
  BY DEF Inv, FdWasActive, Due, Typed, IsTimer
<1>2. k \in 0 .. Interval
  <2>. DEFINE i == state[n].idle
              x == Interval - i * NsPerMs
              r == x \div NsPerMs
  <2>1. i \in Nat /\ Interval \in Nat \ {0} /\ NsPerMs \in Nat \ {0}
    BY <1>1 DEF Right, Ranged, FdAssumption
  <2>2. i * NsPerMs \in Nat /\ i * NsPerMs < Interval
    BY <1>1, <2>1 DEF TimedOut
  <2>3. x \in 0 .. Interval
    BY <2>1, <2>2
  <2>. HIDE DEF i, x
  <2>4. r \in 0 .. x
    BY <2>1, <2>3, DivIs
  <2>5. k = Max({1, r})
    BY DEF Remaining, x, i
  <2>. HIDE DEF r, k
  <2>. QED  BY <2>1, <2>3, <2>4, <2>5, MaxOf
<1>3. \A u \in timers : u.fd # n => u \in timers'
  BY <1>1
<1>4. \A u \in timers' : u = Timer(n, k) \/ (u \in timers /\ u.fd # n)
  BY <1>1 DEF Inv, Started
<1>5. ~Forced /\ ~Forced' /\ Timer(n, k) \in timers'
  BY <1>1 DEF Forced
<1>. HIDE DEF n, k
<1>. QED  BY <1>1, <1>2, <1>3, <1>4, <1>5, RightRenews

LEMMA CallbackModifiesRight ==
  ASSUME FdAssumption, Inv, Right, NEW n \in Numbers, CallbackModifies(n)
  PROVE  Right'
<1>1. /\ Armed(n) /\ n \in Registered /\ loc = "events"
      /\ UNCHANGED <<file, polled, deferred, budget, active, loc>>
      /\ timers' = Without(n) \union {Timer(n, Interval)}
      /\ state' = [state EXCEPT ![n].timeout_id = FreshId, ![n].idle = 0]
  BY DEF CallbackModifies, Handles, NextEvent, Armed, Registered
<1>2. ~Forced /\ ~Forced'
  BY <1>1 DEF Forced
<1>3. /\ \A t \in timers : t.fd # n => t \in timers'
      /\ \A t \in timers' : t = Timer(n, Interval) \/ (t \in timers /\ t.fd # n)
      /\ Timer(n, Interval) \in timers'
  BY <1>1, <1>2, OthersTimers DEF Without
<1>4. Interval \in 0 .. Interval
  BY DEF FdAssumption
<1>. QED  BY <1>1, <1>2, <1>3, <1>4, RightRenews

LEMMA CallbackClosesRight ==
  ASSUME FdAssumption, Inv, Right, NEW n \in Numbers, CallbackCloses(n)
  PROVE  Right'
<1>1. /\ n \in Registered /\ loc = "events"
      /\ UNCHANGED <<deferred, budget, loc, count>>
      /\ timers' = Without(n) /\ polled' = polled \ {n}
      /\ state' = [state EXCEPT ![n] = NoState] /\ active' = active - 1
  BY DEF CallbackCloses, Handles, NextEvent, UnregisterAndClose, Close
<1>2. ~Forced /\ ~Forced' /\ loc' \in Labels
  BY <1>1 DEF Forced, Labels
<1>3. timers' \subseteq timers /\ \A t \in timers : t \in timers' <=> t.fd # n
  BY <1>1, <1>2, OthersTimers DEF Without
<1>4. deferred' \in Seq([fd : Numbers, for : Files \union {None}])
  BY <1>1 DEF Inv, Typed
<1>. QED  BY <1>1, <1>2, <1>3, <1>4, RightForgets DEF Right, Ranged

LEMMA ForceUnregisterRight ==
  ASSUME FdAssumption, Inv, Right, ForceUnregister
  PROVE  Right'
<1>1. /\ count \in Registered /\ loc = "forced"
      /\ UNCHANGED <<deferred, budget, loc, count>>
      /\ timers' \subseteq timers /\ polled' = polled \ {count}
      /\ state' = [state EXCEPT ![count] = NoState] /\ active' = active - 1
  BY DEF ForceUnregister, UnregisterAndClose, Without, Close
<1>2. Forced /\ Forced' /\ loc' \in Labels
  BY <1>1 DEF Forced, Labels
<1>3. deferred' \in Seq([fd : Numbers, for : Files \union {None}])
  BY <1>1 DEF Inv, Typed
<1>. QED  BY <1>1, <1>2, <1>3, RightForgets DEF Right, Ranged

LEMMA ForceReleaseRight ==
  ASSUME FdAssumption, Inv, Right, ForceRelease
  PROVE  Right'
<1>1. /\ count \in Registered /\ loc = "release" /\ loc' = "forced"
      /\ UNCHANGED <<timers, deferred, budget, active, count>>
      /\ polled \ {count} \subseteq polled'
      /\ state' = [state EXCEPT ![count] = NoState]
  BY DEF ForceRelease, Close, Inv, Typed
<1>2. Forced /\ Forced' /\ loc' \in Labels
  BY <1>1 DEF Forced, Labels
<1>3. deferred' \in Seq([fd : Numbers, for : Files \union {None}])
  BY <1>1 DEF Inv, Typed
<1>. QED  BY <1>1, <1>2, <1>3, RightForgets DEF Right, Ranged

LEMMA ForceCloseRight ==
  ASSUME FdAssumption, Inv, Right, ForceClose
  PROVE  Right'
<1>. USE DEF Right
<1>1. /\ UNCHANGED <<state, timers, deferred, budget, active, count>>
      /\ loc = "forced" /\ loc' = "release" /\ polled' = polled \ {count}
  BY DEF ForceClose, Close
<1>2. Forced /\ Forced' /\ loc' \in Labels /\ Registered' = Registered
  BY <1>1 DEF Forced, Labels, Registered
<1>3. Watched'
  BY <1>1, <1>2 DEF Watched
<1>4. Paired'
  BY <1>2 DEF Paired
<1>5. Counted'
  BY <1>1, <1>2 DEF Counted, ActiveIsCounted
<1>6. Ranged'
  BY <1>1, <1>2 DEF Ranged
<1>. QED  BY <1>3, <1>4, <1>5, <1>6

\* A number is registered, and counted.
LEMMA RightCounts ==
  ASSUME FdAssumption, Inv, Right, NEW n, n \notin Registered, ~Forced,
         Registered' = Registered \union {n}, deferred' = deferred, active' = active + 1
  PROVE  Counted'
<1>. DEFINE r == Cardinality(Registered)
            d == Len(deferred)
<1>1. d \in Nat /\ r \in Nat /\ active = r + d
  BY RegisteredIs DEF Right, Counted, ActiveIsCounted
<1>2. r' = r + 1 /\ d' = d
  BY RegisteredIs, FS_AddElement
<1>3. SUFFICES active' \in Nat /\ active' = r' + d'
  BY DEF Counted, ActiveIsCounted
<1>. HIDE DEF r, d
<1>. QED  BY <1>1, <1>2

LEMMA AcceptServedRight ==
  ASSUME FdAssumption, Inv, Right, NEW f \in Served, AcceptServed(f)
  PROVE  Right'
<1>. USE DEF Right
<1>0. Open(f) /\ f \in Files /\ f # None
  BY OursAreFiles DEF AcceptServed, Ours
<1>. PICK n \in Numbers : n = Min(Free) /\ file[n] = None
  BY <1>0, Opened
<1>1. /\ loc = "events" /\ UNCHANGED <<timers, deferred, budget, loc>>
      /\ active' = active + 1 /\ polled' = polled \union {n}
      /\ state' = [state EXCEPT ![n] = [NoState EXCEPT !.callback = f]]
  BY DEF AcceptServed, Handles, Register
<1>2. ~Forced /\ ~Forced' /\ loc' \in Labels
  BY <1>1 DEF Forced, Labels
<1>4. n \notin Registered /\ \A t \in timers : t.fd # n
  BY <1>1, <1>2, FreeNumbers
<1>. DEFINE new == [callback |-> f, has_timeout |-> FALSE, timeout_id |-> 0, idle |-> 0]
<1>5. /\ state'[n] = new /\ ~new.has_timeout
      /\ \A m \in Numbers \ {n} : state'[m] = state[m]
      /\ new \in [callback : {f}, has_timeout : BOOLEAN, timeout_id : {0}, idle : {0}]
  BY <1>1 DEF Inv, Typed, NoState
<1>. HIDE DEF new
<1>6. Registered' = Registered \union {n} /\ ~Armed(n)'
  <2>1. Registered' = Registered \union {n}
    BY <1>0, <1>1, <1>5 DEF Registered
  <2>2. state'[n].has_timeout = new.has_timeout /\ ~new.has_timeout
    BY <1>5
  <2>3. ~Armed(n)'
    BY <2>2, Zenon DEF Armed
  <2>. QED  BY <2>1, <2>3
<1>7. Watched'
  BY <1>1, <1>6 DEF Watched
<1>8. Paired'
  <2>1. \A t \in timers' : t \in timers /\ t.fd # n /\ t.fd \in Numbers
    BY <1>1, <1>4 DEF Inv, Typed, IsTimer
  <2>2. \A t \in timers' : t.id # 0 /\ t.for = state'[t.fd].callback
    BY <1>2, <1>5, <2>1 DEF Paired
  <2>3. \A m \in Numbers : Armed(m)' => \E t \in timers' : t.fd = m
    BY <1>1, <1>2, <1>5, <1>6 DEF Paired, Armed
  <2>4. \A m \in Numbers : ~Armed(m)' => state'[m].timeout_id = 0
    BY <1>2, <1>5 DEF Paired, Armed
  <2>5. \A t, u \in timers' : t.id = u.id => t = u
    BY <1>1, <1>2 DEF Paired
  <2>. QED  BY <2>2, <2>3, <2>4, <2>5 DEF Paired
<1>9. Counted'
  BY <1>1, <1>2, <1>4, <1>6, RightCounts
<1>10. Ranged'
  <2>1. ASSUME NEW m \in Numbers
        PROVE  /\ state'[m].has_timeout \in BOOLEAN
               /\ state'[m].timeout_id \in Nat
               /\ state'[m].idle \in 0 .. Interval
    <3>1. CASE m = n
      BY <1>5, <3>1 DEF FdAssumption
    <3>2. CASE m # n
      BY <1>5, <3>2 DEF Ranged
    <3>. QED  BY <3>1, <3>2
  <2>. QED  BY <2>1, <1>1, <1>2 DEF Ranged
<1>. QED  BY <1>7, <1>8, <1>9, <1>10

LEMMA TaskRegistersRight ==
  ASSUME FdAssumption, Inv, Right, NEW n \in tasks, TaskRegisters(n)
  PROVE  Right'
<1>. USE DEF Right
<1>. DEFINE reg == [callback |-> file[n], has_timeout |-> TRUE,
                    timeout_id |-> FreshId, idle |-> 0]
            new == Timer(n, Interval)
<1>1. /\ loc = "tasks" /\ UNCHANGED <<file, deferred, budget, loc>>
      /\ active' = active + 1 /\ polled' = polled \union {n}
      /\ timers' = timers \union {new}
      /\ state' = [state EXCEPT ![n] = reg]
  BY DEF TaskRegisters, RegisterWithTimeout
<1>2. ~Forced /\ ~Forced' /\ loc' \in Labels
  BY <1>1 DEF Forced, Labels
<1>3. n \in Numbers /\ n \notin Registered /\ file[n] # None
  BY OursAreFiles DEF Inv, Typed, Owned, Ours
<1>4. \A t \in timers : t.fd # n
  BY <1>2, <1>3 DEF Inv, Started, Armed, Registered
<1>5. /\ FreshId \in Nat \ {0} /\ \A t \in timers : t.id # FreshId
      /\ new.id = FreshId /\ new.fd = n /\ new.for = file[n] /\ new.left = Interval
  BY <1>2, FreshIds DEF Timer
<1>6. /\ state'[n] = reg /\ reg.has_timeout
      /\ \A m \in Numbers \ {n} : state'[m] = state[m]
      /\ reg \in [callback : {file[n]}, has_timeout : BOOLEAN,
                  timeout_id : {FreshId}, idle : {0}]
  BY <1>1, <1>3 DEF Inv, Typed
<1>. HIDE DEF reg, new
<1>7. Registered' = Registered \union {n} /\ Armed(n)'
  <2>1. state'[n].callback = file[n]
    BY <1>6
  <2>2. Registered' = Registered \union {n}
    BY <1>3, <1>6, <2>1 DEF Registered
  <2>3. Armed(n)'
    BY <1>3, <1>6, <2>1, Zenon DEF Armed
  <2>. QED  BY <2>2, <2>3
<1>8. Watched'
  BY <1>1, <1>7 DEF Watched
<1>9. Paired'
  <2>1. ASSUME NEW t \in timers' PROVE t.id # 0 /\ t.for = state'[t.fd].callback
    <3>1. CASE t = new
      BY <1>5, <1>6, <3>1
    <3>2. CASE t # new
      <4>1. t \in timers /\ t.fd # n /\ t.fd \in Numbers
        BY <1>1, <1>4, <3>2 DEF Inv, Typed, IsTimer
      <4>. QED  BY <4>1, <1>2, <1>6 DEF Paired
    <3>. QED  BY <3>1, <3>2
  <2>2. \A m \in Numbers : Armed(m)' => \E t \in timers' : t.fd = m
    BY <1>1, <1>2, <1>5, <1>6 DEF Paired, Armed
  <2>3. \A m \in Numbers : ~Armed(m)' => state'[m].timeout_id = 0
    BY <1>2, <1>6, <1>7 DEF Paired, Armed
  <2>4. \A t, u \in timers' : t.id = u.id => t = u
    BY <1>1, <1>2, <1>5 DEF Paired
  <2>. QED  BY <2>1, <2>2, <2>3, <2>4 DEF Paired
<1>10. Counted'
  BY <1>1, <1>2, <1>3, <1>7, RightCounts
<1>11. Ranged'
  <2>1. ASSUME NEW m \in Numbers
        PROVE  /\ state'[m].has_timeout \in BOOLEAN
               /\ state'[m].timeout_id \in Nat
               /\ state'[m].idle \in 0 .. Interval
    <3>1. CASE m = n
      BY <1>5, <1>6, <3>1 DEF FdAssumption
    <3>2. CASE m # n
      BY <1>6, <3>2 DEF Ranged
    <3>. QED  BY <3>1, <3>2
  <2>2. \A t \in timers' : t.left \in 0 .. Interval
    BY <1>1, <1>5 DEF Ranged, FdAssumption
  <2>. QED  BY <2>1, <2>2, <1>1, <1>2 DEF Ranged
<1>. QED  BY <1>8, <1>9, <1>10, <1>11

LEMMA CallbackRight ==
  ASSUME FdAssumption, Inv, Right, NEW n \in Numbers, Callback(n)
  PROVE  Right'
<1>. USE DEF Right
<1>1. /\ UNCHANGED <<polled, timers, deferred, budget, active, loc, count>>
      /\ state' = [state EXCEPT ![n].idle = 0]
  BY DEF Callback, NextEvent
<1>2. ASSUME NEW m \in Numbers
      PROVE  /\ state'[m].callback = state[m].callback
             /\ state'[m].has_timeout = state[m].has_timeout
             /\ state'[m].timeout_id = state[m].timeout_id
             /\ state'[m].idle \in {0, state[m].idle}
  <2>1. IsState(state[m]) /\ DOMAIN state = Numbers
    BY DEF Inv, Typed
  <2>. QED  BY <2>1, <1>1 DEF IsState
<1>3. Registered' = Registered
  BY <1>2 DEF Registered
<1>4. ASSUME NEW m \in Numbers PROVE Armed(m)' <=> Armed(m)
  BY <1>2, Zenon DEF Armed
<1>5. Watched'
  BY <1>1, <1>3 DEF Watched
<1>6. Paired'
  <2>1. \A t \in timers' : t.fd \in Numbers
    BY <1>1 DEF Inv, Typed, IsTimer
  <2>. QED  BY <2>1, <1>1, <1>2, <1>4 DEF Paired, Forced
<1>7. Counted'
  BY <1>1, <1>3 DEF Counted, ActiveIsCounted, Forced
<1>8. Ranged'
  <2>1. \A m \in Numbers : /\ state'[m].has_timeout \in BOOLEAN
                           /\ state'[m].timeout_id \in Nat
                           /\ state'[m].idle \in 0 .. Interval
    BY <1>2 DEF Ranged, FdAssumption
  <2>. QED  BY <2>1, <1>1 DEF Ranged
<1>. QED  BY <1>5, <1>6, <1>7, <1>8

LEMMA TimePassesRight ==
  ASSUME FdAssumption, Inv, Right, TimePasses
  PROVE  Right'
<1>. USE DEF Right
<1>. DEFINE Aged(t) == [t EXCEPT !.left = Max({0, @ - 1})]
<1>1. /\ UNCHANGED <<polled, deferred, budget, active, loc, count>>
      /\ loc = "wait"
      /\ timers' = {Aged(t) : t \in timers}
  BY DEF TimePasses
<1>2. ~Forced
  BY <1>1 DEF Forced
<1>3. ASSUME NEW t \in timers
      PROVE  /\ Aged(t).id = t.id /\ Aged(t).fd = t.fd /\ Aged(t).for = t.for
             /\ Aged(t).left \in 0 .. Interval /\ t.fd \in Numbers
  <2>1. IsTimer(t) /\ t.left \in 0 .. Interval /\ Interval \in Nat
    BY DEF Inv, Typed, Ranged, FdAssumption
  <2>2. Max({0, t.left - 1}) \in 0 .. Interval
    BY <2>1, MaxOf
  <2>. QED  BY <2>1, <2>2 DEF IsTimer
<1>. HIDE DEF Aged
<1>4. ASSUME NEW m \in Numbers
      PROVE  /\ state'[m].callback = state[m].callback
             /\ state'[m].has_timeout = state[m].has_timeout
             /\ state'[m].timeout_id = state[m].timeout_id
             /\ state'[m].idle \in 0 .. Interval
  <2>1. /\ IsState(state[m]) /\ state[m].idle \in 0 .. Interval /\ Interval \in Nat
        /\ state'[m] = IF Armed(m)
                         THEN [state[m] EXCEPT !.idle = Min({Interval, @ + 1})]
                         ELSE state[m]
    BY DEF Inv, Typed, Ranged, FdAssumption, TimePasses
  <2>2. Min({Interval, state[m].idle + 1}) \in 0 .. Interval
    <3>. DEFINE i == state[m].idle
    <3>1. i \in 0 .. Interval /\ Interval \in Nat
      BY <2>1
    <3>. HIDE DEF i
    <3>2. Min({Interval, i + 1}) \in 0 .. Interval
      BY <3>1, MinOf
    <3>. QED  BY <3>2 DEF i
  <2>. QED  BY <2>1, <2>2 DEF IsState
<1>5. Registered' = Registered
  BY <1>4 DEF Registered
<1>6. ASSUME NEW m \in Numbers PROVE Armed(m)' <=> Armed(m)
  BY <1>4, Zenon DEF Armed
<1>7. Watched'
  BY <1>1, <1>5 DEF Watched
<1>8. Paired'
  <2>1. \A u \in timers' : \E t \in timers : u = Aged(t)
    BY <1>1
  <2>2. ASSUME NEW u \in timers' PROVE u.id # 0 /\ u.for = state'[u.fd].callback
    <3>1. PICK t \in timers : u = Aged(t)
      BY <2>1
    <3>2. u.id = t.id /\ u.fd = t.fd /\ u.for = t.for /\ t.fd \in Numbers
      BY <1>3, <3>1
    <3>. QED  BY <1>2, <1>4, <3>2 DEF Paired
  <2>3. \A u, v \in timers' : u.id = v.id => u = v
    BY <2>1, <1>2, <1>3 DEF Paired
  <2>4. \A m \in Numbers : Armed(m)' => \E u \in timers' : u.fd = m
    BY <1>1, <1>2, <1>3, <1>6 DEF Paired
  <2>5. \A m \in Numbers : ~Armed(m)' => state'[m].timeout_id = 0
    BY <1>2, <1>4, <1>6 DEF Paired
  <2>. QED  BY <2>2, <2>3, <2>4, <2>5 DEF Paired
<1>9. Counted'
  BY <1>1, <1>5 DEF Counted, ActiveIsCounted, Forced
<1>10. Ranged'
  <2>1. \A m \in Numbers : state'[m].has_timeout \in BOOLEAN /\ state'[m].timeout_id \in Nat
    BY <1>4 DEF Ranged
  <2>2. \A u \in timers' : u.left \in 0 .. Interval
    BY <1>1, <1>3
  <2>. QED  BY <2>1, <2>2, <1>1, <1>4 DEF Ranged
<1>. QED  BY <1>7, <1>8, <1>9, <1>10

LEMMA FlushOneRight ==
  ASSUME FdAssumption, Inv, Right, FlushOne
  PROVE  Right'
<1>. USE DEF Right
<1>. DEFINE E == [fd : Numbers, for : Files \union {None}]
<1>1. /\ UNCHANGED <<timers, budget, loc>> /\ loc \in {"flush", "final"}
      /\ deferred # <<>> /\ deferred' = Tail(deferred)
      /\ polled' = polled \ {Head(deferred).fd} /\ active' = active - 1
      /\ state' = [state EXCEPT ![Head(deferred).fd] = NoState]
  BY DEF FlushOne, CloseImmediately, Close
<1>2. deferred \in Seq(E)
  BY DEF Inv, Typed
<1>. HIDE DEF E
<1>3. 1 \in DOMAIN deferred /\ Head(deferred) = deferred[1] /\ Head(deferred) \in E
  BY <1>1, <1>2, TailOf
<1>4. /\ Len(deferred') = Len(deferred) - 1
      /\ Len(deferred) \in Nat /\ Len(deferred') \in Nat
  BY <1>1, <1>2
<1>. PICK n \in Numbers : n = Head(deferred).fd
  BY <1>3 DEF E
<1>5. IsDeferred(n)
  BY <1>3 DEF IsDeferred
<1>6. n \notin Registered /\ \A t \in timers : t.fd # n
  BY <1>5, DeferredNumbers
<1>7. /\ state'[n] = NoState
      /\ \A m \in Numbers \ {n} : state'[m] = state[m]
  BY <1>1, <1>5 DEF Inv, Typed
<1>8. Registered' = Registered /\ ~Armed(n) /\ ~Armed(n)'
  <2>1. state[n].callback = None /\ state'[n].callback = None
    BY <1>5, <1>6, <1>7 DEF Registered, NoState
  <2>2. Registered' = Registered
    BY <1>5, <1>7, <2>1 DEF Registered
  <2>. QED  BY <2>1, <2>2 DEF Armed
<1>9. Watched'
  BY <1>1, <1>6, <1>8 DEF Watched
<1>10. Paired'
  <2>1. SUFFICES ASSUME ~Forced
        PROVE  /\ \A t \in timers' : t.id # 0 /\ t.for = state'[t.fd].callback
               /\ \A t, u \in timers' : t.id = u.id => t = u
               /\ \A m \in Numbers : Armed(m)' => \E t \in timers' : t.fd = m
               /\ \A m \in Numbers : ~Armed(m)' => state'[m].timeout_id = 0
    BY <1>1 DEF Paired, Forced
  <2>2. \A t \in timers' : t \in timers /\ t.fd # n /\ t.fd \in Numbers
    BY <1>1, <1>6 DEF Inv, Typed, IsTimer
  <2>3. \A t \in timers' : t.id # 0 /\ t.for = state'[t.fd].callback
    BY <1>7, <2>1, <2>2 DEF Paired
  <2>4. \A t, u \in timers' : t.id = u.id => t = u
    BY <2>1, <2>2 DEF Paired
  <2>5. ASSUME NEW m \in Numbers, Armed(m)' PROVE \E t \in timers' : t.fd = m
    <3>1. m # n
      BY <1>8, <2>5, Zenon DEF Armed
    <3>2. Armed(m)
      BY <1>7, <2>5, <3>1, Zenon DEF Armed
    <3>. QED  BY <1>1, <2>1, <3>2 DEF Paired
  <2>6. \A m \in Numbers : ~Armed(m)' => state'[m].timeout_id = 0
    BY <1>7, <2>1 DEF Paired, Armed, NoState
  <2>. QED  BY <2>3, <2>4, <2>5, <2>6
<1>11. Counted'
  <2>. DEFINE r == Cardinality(Registered)
  <2>1. /\ r \in Nat /\ active \in Nat /\ r + Len(deferred) <= active
        /\ ~Forced => active = r + Len(deferred)
    BY RegisteredIs DEF Counted, ActiveIsCounted
  <2>2. r' = r /\ Forced' = Forced
    BY <1>1, <1>8 DEF Forced
  <2>3. SUFFICES /\ active' \in Nat /\ r' + Len(deferred') <= active'
                 /\ ~Forced' => active' = r' + Len(deferred')
    BY DEF Counted, ActiveIsCounted
  <2>. HIDE DEF r
  <2>. QED  BY <1>1, <1>4, <2>1, <2>2
<1>12. Ranged'
  <2>1. ASSUME NEW m \in Numbers
        PROVE  /\ state'[m].has_timeout \in BOOLEAN
               /\ state'[m].timeout_id \in Nat
               /\ state'[m].idle \in 0 .. Interval
    <3>1. CASE m = n
      <4>1. NoState \in [callback : {None}, has_timeout : BOOLEAN,
                         timeout_id : {0}, idle : {0}]
        BY DEF NoState
      <4>. QED  BY <1>7, <3>1, <4>1 DEF FdAssumption
    <3>2. CASE m # n
      BY <1>7, <3>2 DEF Ranged
    <3>. QED  BY <3>1, <3>2
  <2>2. Len(deferred') <= DeferredCap
    BY <1>4 DEF Ranged, FdAssumption
  <2>. QED  BY <2>1, <2>2, <1>1 DEF Ranged
<1>. QED  BY <1>9, <1>10, <1>11, <1>12

\* The steps that leave the registrations and the closes alone.
LEMMA OthersRight ==
  ASSUME FdAssumption, Inv, Right,
         \/ TimersDone \/ \E n \in tasks : TaskFailsToRegister(n)
         \/ TasksDone \/ GoesOn \/ ShutdownIdle \/ DeadlineComes \/ ForceNext
         \/ EpollWait \/ AcceptDone \/ EventsDone \/ FlushDone
         \/ \E f \in Served : AcceptFails(f)
         \/ \E f \in Timed : AcceptTimed(f)
         \/ \E n \in Numbers : DropEvent(n) \/ CloseElsewhere(n)
         \/ \E f \in Elsewhere : OpenElsewhere(f)
         \/ UNCHANGED vars
  PROVE  Right'
<1>1. UNCHANGED <<state, deferred, budget, active>>
  BY DEF TimersDone, TaskFailsToRegister, TasksDone, GoesOn, ShutdownIdle, DeadlineComes,
         ForceNext, EpollWait, AcceptDone, EventsDone, FlushDone, AcceptFails,
         AcceptTimed, DropEvent, CloseElsewhere, OpenElsewhere, vars, NextEvent
<1>2. timers' = timers
  <2>1. CASE TimersDone
    BY <2>1 DEF TimersDone, Due, Inv, Started, Forced
  <2>. QED
    BY <2>1 DEF TaskFailsToRegister, TasksDone, GoesOn, ShutdownIdle, DeadlineComes,
         ForceNext, EpollWait, AcceptDone, EventsDone, FlushDone, AcceptFails,
         AcceptTimed, DropEvent, CloseElsewhere, OpenElsewhere, vars
<1>3. \A n \in Registered : n \in polled => n \in polled'
  <2>1. ASSUME NEW n \in tasks, TaskFailsToRegister(n)
        PROVE  n \notin Registered /\ polled' = polled \ {n}
    BY <2>1 DEF TaskFailsToRegister, Close, Inv, Owned
  <2>2. ASSUME NEW n \in Numbers, CloseElsewhere(n)
        PROVE  n \notin polled /\ polled' = polled \ {n}
    BY <2>2, OursAreFiles DEF CloseElsewhere, Close, Inv, Owned
  <2>. QED
    BY <2>1, <2>2
       DEF TimersDone, TasksDone, GoesOn, ShutdownIdle, DeadlineComes, ForceNext,
           EpollWait, AcceptDone, EventsDone, FlushDone, AcceptFails, AcceptTimed,
           DropEvent, OpenElsewhere, vars
<1>4. /\ Forced => Forced'
      /\ loc' \in Labels
      /\ loc = "release" => loc' = "release" /\ count' = count
  <2>1. loc \in Labels
    BY DEF Right, Ranged
  <2>. QED
    BY <2>1
       DEF TimersDone, TaskFailsToRegister, TasksDone, GoesOn, ShutdownIdle, DeadlineComes,
           ForceNext, EpollWait, AcceptDone, EventsDone, FlushDone, AcceptFails,
           AcceptTimed, DropEvent, CloseElsewhere, OpenElsewhere, vars, NextEvent,
           Handles, Forced, Labels
<1>. QED  BY <1>1, <1>2, <1>3, <1>4, RightStays

LEMMA RightInit == FdAssumption /\ Init => Right
<1>. SUFFICES ASSUME FdAssumption, Init PROVE Right
  OBVIOUS
<1>1. \A n \in Numbers : state[n] = NoState
  BY DEF Init
<1>2. Registered = {} /\ timers = {} /\ deferred = <<>> /\ active = 0 /\ loc = "timers"
  BY <1>1 DEF Init, Registered, NoState
<1>3. Watched
  BY <1>2 DEF Watched
<1>4. Paired
  <2>1. \A n \in Numbers : ~Armed(n)
    BY <1>2 DEF Registered, Armed
  <2>2. NoState.timeout_id = 0
    BY DEF NoState
  <2>3. \A n \in Numbers : state[n].timeout_id = 0
    BY <1>1, <2>2
  <2>. QED  BY <1>2, <2>1, <2>3 DEF Paired
<1>5. Counted
  BY <1>2, FS_EmptySet DEF Counted, ActiveIsCounted
<1>6. Ranged
  <2>1. NoState \in [callback : {None}, has_timeout : BOOLEAN, timeout_id : {0}, idle : {0}]
    BY DEF NoState
  <2>2. Len(deferred) <= DeferredCap /\ budget \in 0 .. InlineThreshold
    BY <1>2 DEF Init, FdAssumption
  <2>. QED  BY <1>1, <1>2, <2>1, <2>2 DEF Ranged, FdAssumption, Labels
<1>. QED  BY <1>3, <1>4, <1>5, <1>6 DEF Right

LEMMA RightNext == FdAssumption /\ Inv /\ Inv' /\ Right /\ [Next]_vars => Right'
<1>. SUFFICES ASSUME FdAssumption, Inv, Inv', Right, [Next]_vars PROVE Right'
  OBVIOUS
<1>1. CASE Turn
  <2>1. CASE ProcessWheelTimer
    BY <2>1, FdTimesOutRight, FdWasActiveRight, OthersRight DEF ProcessWheelTimer
  <2>2. CASE ProcessTasks
    BY <2>2, TaskRegistersRight, OthersRight DEF ProcessTasks
  <2>3. CASE Shutdown
    BY <2>3, ForceCloseRight, ForceUnregisterRight, ForceReleaseRight, OthersRight
       DEF Shutdown
  <2>4. CASE ProcessEvents
    BY <2>4, AcceptServedRight, CallbackRight, CallbackModifiesRight, CallbackClosesRight,
       OthersRight DEF ProcessEvents
  <2>5. CASE FlushDeferredCloses
    BY <2>5, FlushOneRight, OthersRight DEF FlushDeferredCloses
  <2>. QED  BY <1>1, <2>1, <2>2, <2>3, <2>4, <2>5 DEF Turn
<1>2. CASE TimePasses
  BY <1>2, TimePassesRight
<1>3. CASE \/ \E f \in Elsewhere : OpenElsewhere(f)
           \/ \E n \in Numbers : CloseElsewhere(n)
           \/ UNCHANGED vars
  BY <1>3, OthersRight
<1>. QED  BY <1>1, <1>2, <1>3 DEF Next

LEMMA RightIsTableRight == FdAssumption /\ Inv /\ Right => TableRight
<1>. SUFFICES ASSUME FdAssumption, Inv, Right PROVE TableRight
  OBVIOUS
<1>. USE DEF Inv, Right
<1>1. Max({1, Interval}) = Interval
  BY MaxOf DEF FdAssumption
<1>2. TypeOK
  <2>1. \A t \in timers : t.fd \in Numbers /\ t.left \in 0 .. Max({1, Interval})
    BY <1>1 DEF Typed, IsTimer, Ranged
  <2>2. \A i \in DOMAIN deferred : deferred[i].fd \in Numbers
    <3>. DEFINE E == [fd : Numbers, for : Files \union {None}]
    <3>1. deferred \in Seq(E)
      BY DEF Typed
    <3>2. \A e \in E : e.fd \in Numbers
      OBVIOUS
    <3>. HIDE DEF E
    <3>. QED  BY <3>1, <3>2, MemberOf
  <2>3. \A n \in Numbers :
          /\ state[n].callback \in Served \union Timed \union {None}
          /\ state[n].has_timeout \in BOOLEAN
          /\ state[n].timeout_id \in Nat /\ state[n].idle \in 0 .. Interval
    BY DEF Typed, Ranged, Ours
  <2>. QED  BY <2>1, <2>2, <2>3 DEF TypeOK, Typed, Ranged, Counted
<1>3. RegisteredIsOpen
  BY DEF RegisteredIsOpen, Owned, Watched
<1>4. TimersAreOwned
  <2>1. ASSUME ~Forced, NEW t \in timers
        PROVE  state[t.fd].callback = t.for /\ state[t.fd].timeout_id = t.id
    BY <2>1 DEF Paired, Started
  <2>2. ASSUME ~Forced, NEW n \in Numbers, Armed(n)
        PROVE  \E t \in timers : t.id = state[n].timeout_id
    <3>1. PICK t \in timers : t.fd = n
      BY <2>2 DEF Paired
    <3>. QED  BY <2>1, <2>2, <3>1
  <2>. QED  BY <2>1, <2>2 DEF TimersAreOwned
<1>. QED  BY <1>2, <1>3, <1>4 DEF TableRight, Counted

\* The table of fds agrees with the files of the process, with the timers of the
\* wheel and with the count that the load is told from: a registration is for
\* the open file of its number and polled, every timer is the current one of its
\* registration and every registration with a timeout has one, active_fds_ is
\* what is watched and what is still to be closed. For any files and numbers,
\* any timeout and any limits of the deferred closes.
THEOREM TableCorrect == Spec => []TableRight
<1>1. FdAssumption
  BY FdAssumption
<1>2. Init => Inv /\ Right
  BY <1>1, InvInit, RightInit
<1>3. Inv /\ Right /\ [Next]_vars => (Inv /\ Right)'
  BY <1>1, InvNext, RightNext
<1>4. Inv /\ Right => TableRight
  BY <1>1, RightIsTableRight
<1>. QED  BY <1>2, <1>3, <1>4, PTL DEF Spec
=============================================================================
