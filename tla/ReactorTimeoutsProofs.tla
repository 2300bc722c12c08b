------------------------ MODULE ReactorTimeoutsProofs ------------------------
(***************************************************************************)
(* calculate_timeout() and its cache forget nothing: for any timers, stops *)
(* and connections, epoll_wait sleeps without a timeout only when nothing  *)
(* is to come or the loop is about to be woken.                            *)
(***************************************************************************)
EXTENDS ReactorTimeouts, WellFoundedInduction, TLAPS

USE DEF clock, timers, stop, cache, Goto, CallTo

\* Min, for numbers.
LEMMA MinOfNats ==
  ASSUME NEW S \in SUBSET Nat, S # {}
  PROVE  Min(S) \in S
<1>. DEFINE R == OpToRel(<, Nat)
<1>1. \A x, y \in Nat : x < y => <<x, y>> \in R
  BY DEF OpToRel
<1>2. IsWellFoundedOn(R, Nat)
  BY NatLessThanWellFounded
<1>. HIDE DEF R
<1>3. PICK x \in S : \A y \in S : ~(<<y, x>> \in R)
  BY <1>2, WFMin
<1>4. ASSUME NEW y \in S PROVE x <= y
  <2>1. x \in Nat /\ y \in Nat /\ <<y, x>> \notin R
    BY <1>3
  <2>2. ~(y < x)
    BY <1>1, <2>1
  <2>. QED  BY <2>1, <2>2
<1>. QED  BY <1>4 DEF Min

LEMMA MaxOfTwo ==
  ASSUME NEW n \in Int
  PROVE  Max({0, n}) \in Nat
<1>. DEFINE S == {0, n}
<1>1. PICK x \in S : \A y \in S : x >= y
  OBVIOUS
<1>2. Max(S) \in S /\ \A y \in S : Max(S) >= y
  BY <1>1 DEF Max
<1>. QED  BY <1>2

-----------------------------------------------------------------------------
\* What has been handed to the loop behind its back, so that it does not know
\* of it when it goes to sleep, comes with a wakeup.
Announced ==
  /\ \A t \in pending : pc \notin {"top", "timers"} => WakeupComes
  /\ pc \in {"keep", "wait"} /\ timeout = Never =>
       /\ heap = {} /\ Open = {}
       /\ graceful => WakeupComes

Inv == TypeOK /\ Announced

LEMMA InvInit == TimeoutAssumption /\ Init => Inv
<1>. SUFFICES ASSUME TimeoutAssumption, Init PROVE Inv
  OBVIOUS
<1>1. now \in Moments /\ loop_now \in Moments /\ loop_now <= now
  BY DEF TimeoutAssumption, Init, Moments, Epoch
<1>2. /\ due \in [Timers -> Moments] /\ fd_due \in [Fds -> Moments \union {Never}]
      /\ deadline \in Nat /\ cached \in Nat \union {Never} /\ cached_at \in Moments
  BY DEF TimeoutAssumption, Init, Moments, Epoch
<1>3. call \in [Calls -> {"idle", "dirty", "deadline", "write", "done"}]
  BY DEF Init
<1>. QED  BY <1>1, <1>2, <1>3 DEF Init, Inv, TypeOK, Announced, Labels

LEMMA PushTimerKeeps ==
  ASSUME TimeoutAssumption, Inv, NEW t \in Timers, PushTimer(t)
  PROVE  Inv'
<1>. USE DEF TimeoutAssumption, Inv, PushTimer, Calls, Labels, Moments, Never
<1>1. TypeOK'
  BY DEF TypeOK
<1>2. Announced'
  BY DEF TypeOK, Announced, WakeupComes, Open
<1>. QED  BY <1>1, <1>2

LEMMA MarkDirtyKeeps ==
  ASSUME TimeoutAssumption, Inv, NEW t \in Timers, MarkDirty(t)
  PROVE  Inv'
<1>. USE DEF TimeoutAssumption, Inv, MarkDirty, Calls, Labels, Moments, Never
<1>1. TypeOK'
  BY DEF TypeOK
<1>2. Announced'
  BY DEF TypeOK, Announced, WakeupComes, Open
<1>. QED  BY <1>1, <1>2

LEMMA WriteEventfdKeeps ==
  ASSUME TimeoutAssumption, Inv, NEW c \in Calls, WriteEventfd(c)
  PROVE  Inv'
<1>. USE DEF TimeoutAssumption, Inv, WriteEventfd, Calls, Labels, Moments, Never
<1>1. TypeOK'
  BY DEF TypeOK
<1>2. Announced'
  BY DEF TypeOK, Announced, WakeupComes, Open
<1>. QED  BY <1>1, <1>2

LEMMA SetGracefulKeeps ==
  ASSUME TimeoutAssumption, Inv, NEW c \in Stops, SetGraceful(c)
  PROVE  Inv'
<1>. USE DEF TimeoutAssumption, Inv, SetGraceful, Calls, Labels, Moments, Never
<1>1. TypeOK'
  BY DEF TypeOK
<1>2. Announced'
  BY DEF TypeOK, Announced, WakeupComes, Open
<1>. QED  BY <1>1, <1>2

LEMMA SetDeadlineKeeps ==
  ASSUME TimeoutAssumption, Inv, NEW c \in Stops, SetDeadline(c)
  PROVE  Inv'
<1>. USE DEF TimeoutAssumption, Inv, SetDeadline, Calls, Labels, Moments, Never
<1>1. TypeOK'
  BY DEF TypeOK
<1>2. Announced'
  BY DEF TypeOK, Announced, WakeupComes, Open
<1>. QED  BY <1>1, <1>2

LEMMA TopKeeps ==
  ASSUME TimeoutAssumption, Inv, Top
  PROVE  Inv'
<1>. USE DEF TimeoutAssumption, Inv, Top, Calls, Labels, Moments, Never
<1>1. TypeOK'
  BY DEF TypeOK
<1>2. Announced'
  BY DEF TypeOK, Announced, WakeupComes, Open
<1>. QED  BY <1>1, <1>2

LEMMA ProcessTimersKeeps ==
  ASSUME TimeoutAssumption, Inv, ProcessTimers
  PROVE  Inv'
<1>. USE DEF TimeoutAssumption, Inv, ProcessTimers, Calls, Labels, Moments, Never
<1>1. TypeOK'
  BY DEF TypeOK
<1>2. Announced'
  BY DEF TypeOK, Announced, WakeupComes, Open
<1>. QED  BY <1>1, <1>2

LEMMA ProcessTasksKeeps ==
  ASSUME TimeoutAssumption, Inv, ProcessTasks
  PROVE  Inv'
<1>. USE DEF TimeoutAssumption, Inv, ProcessTasks, Calls, Labels, Moments, Never
<1>1. TypeOK'
  BY DEF TypeOK
<1>2. Announced'
  BY DEF TypeOK, Announced, WakeupComes, Open
<1>. QED  BY <1>1, <1>2

LEMMA NoShutdownKeeps ==
  ASSUME TimeoutAssumption, Inv, NoShutdown
  PROVE  Inv'
<1>. USE DEF TimeoutAssumption, Inv, NoShutdown, Calls, Labels, Moments, Never
<1>1. TypeOK'
  BY DEF TypeOK
<1>2. Announced'
  BY DEF TypeOK, Announced, WakeupComes, Open
<1>. QED  BY <1>1, <1>2

LEMMA ShutdownIdleKeeps ==
  ASSUME TimeoutAssumption, Inv, ShutdownIdle
  PROVE  Inv'
<1>. USE DEF TimeoutAssumption, Inv, ShutdownIdle, Calls, Labels, Moments, Never
<1>1. TypeOK'
  BY DEF TypeOK
<1>2. Announced'
  BY DEF TypeOK, Announced, WakeupComes, Open
<1>. QED  BY <1>1, <1>2

LEMMA ShutdownForcedKeeps ==
  ASSUME TimeoutAssumption, Inv, ShutdownForced
  PROVE  Inv'
<1>. USE DEF TimeoutAssumption, Inv, ShutdownForced, Calls, Labels, Moments, Never
<1>1. TypeOK'
  BY DEF TypeOK
<1>2. Announced'
  BY DEF TypeOK, Announced, WakeupComes, Open
<1>. QED  BY <1>1, <1>2

LEMMA TimeoutCachedKeeps ==
  ASSUME TimeoutAssumption, Inv, TimeoutCached
  PROVE  Inv'
<1>. USE DEF TimeoutAssumption, Inv, TimeoutCached, Calls, Labels, Moments, Never
<1>0. cached \in Int /\ loop_now \in Int /\ cached_at \in Int
  BY DEF TypeOK
<1>3. timeout' \in Nat
  <2>1. cached - (loop_now - cached_at) \in Int
    BY <1>0
  <2>. QED  BY <2>1, MaxOfTwo
<1>1. TypeOK'
  BY <1>3 DEF TypeOK
<1>2. Announced'
  BY <1>3 DEF TypeOK, Announced, WakeupComes, Open
<1>. QED  BY <1>1, <1>2

LEMMA TimeoutDueKeeps ==
  ASSUME TimeoutAssumption, Inv, TimeoutDue
  PROVE  Inv'
<1>. USE DEF TimeoutAssumption, Inv, TimeoutDue, Calls, Labels, Moments, Never
<1>1. TypeOK'
  BY DEF TypeOK
<1>2. Announced'
  BY DEF TypeOK, Announced, WakeupComes, Open
<1>. QED  BY <1>1, <1>2

LEMMA TimeoutFoundKeeps ==
  ASSUME TimeoutAssumption, Inv, TimeoutFound
  PROVE  Inv'
<1>. USE DEF TimeoutAssumption, Inv, TimeoutFound, Calls, Labels, Moments, Never
<1>3. CASE Expiries # {}
  <2>1. \A e \in Expiries : e \in Int
    <3>1. \A t \in heap : due[t] - loop_now \in Int
      BY DEF TypeOK
    <3>2. \A f \in Open : fd_due[f] - loop_now \in Int
      BY DEF TypeOK, Open
    <3>3. deadline - loop_now \in Int
      BY DEF TypeOK
    <3>. QED  BY <3>1, <3>2, <3>3 DEF Expiries
  <2>2. Expiries \subseteq Nat /\ timeout' = Min(Expiries)
    BY <1>3, <2>1
  <2>3. timeout' \in Nat
    BY <1>3, <2>2, MinOfNats
  <2>. QED  BY <2>3 DEF TypeOK, Announced, WakeupComes, Open
<1>4. CASE Expiries = {}
  <2>1. timeout' = Never
    BY <1>4
  <2>2. /\ {due[t] - loop_now : t \in heap} = {}
        /\ {fd_due[f] - loop_now : f \in Open} = {}
        /\ ~graceful
    BY <1>4 DEF Expiries
  <2>3. heap = {}
    <3>1. ASSUME NEW t \in heap PROVE FALSE
      <4>1. due[t] - loop_now \in {due[s] - loop_now : s \in heap}
        BY <3>1
      <4>. QED  BY <4>1, <2>2
    <3>. QED  BY <3>1
  <2>4. Open = {}
    <3>1. ASSUME NEW f \in Open PROVE FALSE
      <4>1. fd_due[f] - loop_now \in {fd_due[g] - loop_now : g \in Open}
        BY <3>1
      <4>. QED  BY <4>1, <2>2
    <3>. QED  BY <3>1
  <2>. QED  BY <2>1, <2>2, <2>3, <2>4 DEF TypeOK, Announced, WakeupComes, Open
<1>. QED  BY <1>3, <1>4

LEMMA KeepTimeoutKeeps ==
  ASSUME TimeoutAssumption, Inv, KeepTimeout
  PROVE  Inv'
<1>. USE DEF TimeoutAssumption, Inv, KeepTimeout, Calls, Labels, Moments, Never
<1>1. TypeOK'
  BY DEF TypeOK
<1>2. Announced'
  BY DEF TypeOK, Announced, WakeupComes, Open
<1>. QED  BY <1>1, <1>2

LEMMA WaitWokenKeeps ==
  ASSUME TimeoutAssumption, Inv, WaitWoken
  PROVE  Inv'
<1>. USE DEF TimeoutAssumption, Inv, WaitWoken, Return, Calls, Labels, Moments, Never
<1>1. TypeOK'
  BY DEF TypeOK
<1>2. Announced'
  BY DEF TypeOK, Announced, WakeupComes, Open
<1>. QED  BY <1>1, <1>2

LEMMA WaitTimesOutKeeps ==
  ASSUME TimeoutAssumption, Inv, WaitTimesOut
  PROVE  Inv'
<1>. USE DEF TimeoutAssumption, Inv, WaitTimesOut, Return, Calls, Labels, Moments, Never
<1>1. TypeOK'
  BY DEF TypeOK
<1>2. Announced'
  BY DEF TypeOK, Announced, WakeupComes, Open
<1>. QED  BY <1>1, <1>2

LEMMA WaitEventKeeps ==
  ASSUME TimeoutAssumption, Inv, NEW f \in Fds, WaitEvent(f)
  PROVE  Inv'
<1>. USE DEF TimeoutAssumption, Inv, WaitEvent, Return, Calls, Labels, Moments, Never
<1>1. TypeOK'
  BY DEF TypeOK
<1>2. Announced'
  BY DEF TypeOK, Announced, WakeupComes, Open
<1>. QED  BY <1>1, <1>2

LEMMA TickKeeps ==
  ASSUME TimeoutAssumption, Inv, Tick
  PROVE  Inv'
<1>. USE DEF TimeoutAssumption, Inv, Tick, Calls, Labels, Moments, Never
<1>1. TypeOK'
  BY DEF TypeOK
<1>2. Announced'
  BY DEF TypeOK, Announced, WakeupComes, Open
<1>. QED  BY <1>1, <1>2

LEMMA InvNext == TimeoutAssumption /\ Inv /\ [Next]_vars => Inv'
<1>. SUFFICES ASSUME TimeoutAssumption, Inv, [Next]_vars PROVE Inv'
  OBVIOUS
<1>1. ASSUME NEW t \in Timers, ScheduleAfter(t) PROVE Inv'
  BY <1>1, PushTimerKeeps, MarkDirtyKeeps, WriteEventfdKeeps
  DEF ScheduleAfter, Calls
<1>2. ASSUME NEW c \in Stops, GracefulStop(c) PROVE Inv'
  BY <1>2, SetGracefulKeeps, SetDeadlineKeeps, WriteEventfdKeeps
  DEF GracefulStop, Calls
<1>3. ASSUME NEW f \in Fds, WaitEvent(f) PROVE Inv'
  BY <1>3, WaitEventKeeps
<1>4. CASE Loop
  <2>1. CASE Top \/ ProcessTimers \/ ProcessTasks
    BY <2>1, TopKeeps, ProcessTimersKeeps, ProcessTasksKeeps
  <2>2. CASE Shutdown
    BY <2>2, NoShutdownKeeps, ShutdownIdleKeeps, ShutdownForcedKeeps DEF Shutdown
  <2>3. CASE CalculateTimeout
    BY <2>3, TimeoutCachedKeeps, TimeoutDueKeeps, TimeoutFoundKeeps,
       KeepTimeoutKeeps DEF CalculateTimeout
  <2>4. CASE WaitWoken \/ WaitTimesOut
    BY <2>4, WaitWokenKeeps, WaitTimesOutKeeps
  <2>. QED  BY <1>4, <2>1, <2>2, <2>3, <2>4 DEF Loop
<1>5. CASE Tick
  BY <1>5, TickKeeps
<1>6. CASE UNCHANGED vars
  BY <1>6 DEF Inv, TypeOK, Announced, WakeupComes, Open, vars, Calls
<1>. QED  BY <1>1, <1>2, <1>3, <1>4, <1>5, <1>6 DEF Next

LEMMA InvRight == Inv => TimeoutsRight
<1>. SUFFICES ASSUME Inv PROVE NothingForgotten
  BY DEF Inv, TimeoutsRight
<1>1. ASSUME pc = "wait", timeout = Never, ~WakeupComes
      PROVE  heap = {} /\ pending = {} /\ Open = {} /\ ~graceful
  BY <1>1 DEF Inv, Announced
<1>. QED  BY <1>1 DEF NothingForgotten

\* epoll_wait never sleeps without a timeout while a timer, a connection or a
\* graceful stop is waiting for the loop, whatever calculate_timeout() took
\* from its cache and whoever set timeout_dirty_ in between: for any number of
\* timers, stops and connections, any delays and any life of the cache.
THEOREM TimeoutsCorrect == Spec => []TimeoutsRight
<1>1. TimeoutAssumption
  BY TimeoutAssumption
<1>2. Init => Inv
  BY <1>1, InvInit
<1>3. Inv /\ [Next]_vars => Inv'
  BY <1>1, InvNext
<1>4. Inv => TimeoutsRight
  BY InvRight
<1>. QED  BY <1>2, <1>3, <1>4, PTL DEF Spec
=============================================================================
