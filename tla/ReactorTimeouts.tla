---------------------------- MODULE ReactorTimeouts ----------------------------
(***************************************************************************)
(* katana::epoll_reactor: how long the loop sleeps.                        *)
(*                                                                         *)
(* schedule_after() hands a timer over in pending_timers_ and wakes the    *)
(* loop, which moves it to the heap timers_.  Connections have timeouts on *)
(* wheel_timer_.  calculate_timeout() finds the next expiry, and keeps it  *)
(* for a few milliseconds while timeout_dirty_ is not set.                 *)
(* graceful_stop() makes the loop end when no fd is registered, or at a    *)
(* deadline, when it closes what is left.                                  *)
(*                                                                         *)
(* Time is discrete, and passes while tasks run and while epoll_wait       *)
(* sleeps.  A write to the eventfd and its report by epoll_wait are as in  *)
(* ReactorTasks, here in one variable.  The wheel is exact here: what its  *)
(* slots do to a timeout is the subject of WheelTimer.                     *)
(***************************************************************************)
EXTENDS Integers, FiniteSets, FiniteSetsExt

CONSTANTS
  Timers,      \* calls of schedule_after(), each made once
  Delays,      \* the delays they are made with
  Stops,       \* calls of graceful_stop()
  StopTimeout, \* the timeout they are made with
  Own,         \* the calls that tasks of the reactor make; threads make others
  Fds,         \* connections, registered with a timeout
  IdleTimeout, \* the timeout of a connection
  CacheMs,     \* how long a timeout is kept: 5 ms in the code
  MaxTime      \* bound: the clock

Never == -1

ASSUME TimeoutAssumption ==
  /\ Own \subseteq Timers \union Stops
  /\ Delays \subseteq Nat
  /\ StopTimeout \in Nat
  /\ IdleTimeout \in Nat \ {0}
  /\ CacheMs \in Nat
  /\ MaxTime \in Nat \ {0}

VARIABLES
  now,       \* the clock
  pc,        \* what run() does next
  loop_now,  \* the clock at the start of the iteration
  pending,   \* the timers in pending_timers_
  heap,      \* the timers in timers_
  fired,     \* the timers whose tasks have been run
  due,       \* the deadline of a timer
  fd_due,    \* when the timeout of a registered fd expires, else Never
  graceful,  \* graceful_shutdown_
  deadline,  \* graceful_shutdown_deadline_
  cached,    \* cached_timeout_
  cached_at, \* timeout_cached_at_
  dirty,     \* timeout_dirty_
  timeout,   \* what calculate_timeout returned, Never for no timeout
  signalled, \* epoll_wait has a write to wakeup_fd_ to report
  call       \* how far a call of schedule_after() or graceful_stop() is

clock  == <<now, loop_now>>
timers == <<pending, heap, fired, due>>
stop   == <<graceful, deadline>>
cache  == <<cached, cached_at, dirty, timeout>>
vars   == <<clock, pc, timers, fd_due, stop, cache, signalled, call>>

Calls == Timers \union Stops

\* A steady_clock time_point that was never set lies in the past.
Epoch == 0

Init ==
  /\ now = 1 /\ loop_now = Epoch
  /\ pc = "top"
  /\ pending = {} /\ heap = {} /\ fired = {}
  /\ due = [t \in Timers |-> Epoch]
  /\ fd_due = [f \in Fds |-> Never]
  /\ graceful = FALSE /\ deadline = Epoch
  /\ cached = Never /\ cached_at = Epoch /\ dirty = TRUE
  /\ timeout = 0
  /\ signalled = FALSE
  /\ call = [c \in Calls |-> "idle"]

Goto(label)      == pc' = label
CallTo(c, label) == call' = [call EXCEPT ![c] = label]

\* Calls by tasks are made where the loop runs tasks.
MayStep(c) == c \in Own => pc = "tasks"

Open == {f \in Fds : fd_due[f] # Never}

-----------------------------------------------------------------------------
(* schedule_after(). *)

PushTimer(t) ==
  /\ call[t] = "idle" /\ MayStep(t)
  /\ \E d \in Delays :
       /\ now + d <= MaxTime
       /\ due' = [due EXCEPT ![t] = now + d]
  /\ pending' = pending \union {t}
  /\ CallTo(t, "dirty")
  /\ UNCHANGED <<clock, pc, heap, fired, fd_due, stop, cache, signalled>>

MarkDirty(t) ==
  /\ call[t] = "dirty"
  /\ dirty' = TRUE
  /\ CallTo(t, "write")
  /\ UNCHANGED <<clock, pc, timers, fd_due, stop, cached, cached_at, timeout, signalled>>

\* Mutant: the loop is not woken.
WriteNothing(c) ==
  /\ call[c] = "write"
  /\ CallTo(c, "done")
  /\ UNCHANGED <<clock, pc, timers, fd_due, stop, cache, signalled>>

WriteEventfd(c) ==
  /\ call[c] = "write"
  /\ signalled' = TRUE
  /\ CallTo(c, "done")
  /\ UNCHANGED <<clock, pc, timers, fd_due, stop, cache>>

-----------------------------------------------------------------------------
(* graceful_stop(): sets the flag, then the deadline, then writes. *)

SetGraceful(c) ==
  /\ call[c] = "idle" /\ MayStep(c)
  /\ graceful' = TRUE
  /\ CallTo(c, "deadline")
  /\ UNCHANGED <<clock, pc, timers, fd_due, deadline, cache, signalled>>

SetDeadline(c) ==
  /\ call[c] = "deadline"
  /\ deadline' = now + StopTimeout
  /\ CallTo(c, "write")
  /\ UNCHANGED <<clock, pc, timers, fd_due, graceful, cache, signalled>>

-----------------------------------------------------------------------------
(* run(). *)

\* An iteration starts, and process_wheel_timer closes the connections whose
\* timeout has expired.
Top ==
  /\ pc = "top"
  /\ loop_now' = now
  /\ fd_due' = [f \in Fds |-> IF fd_due[f] <= now THEN Never ELSE fd_due[f]]
  /\ Goto("timers")
  /\ UNCHANGED <<now, timers, stop, cache, signalled, call>>

\* process_timers: pending_timers_ goes to the heap, then what is due is run.
ProcessTimers ==
  /\ pc = "timers"
  /\ LET known   == heap \union pending
         expired == {t \in known : due[t] <= loop_now}
     IN  heap' = known \ expired /\ fired' = fired \union expired
  /\ pending' = {}
  /\ Goto("tasks")
  /\ UNCHANGED <<clock, due, fd_due, stop, cache, signalled, call>>

\* process_tasks, when the calls that its tasks make have returned.
ProcessTasks ==
  /\ pc = "tasks"
  /\ \A c \in Own : call[c] \in {"idle", "done"}
  /\ Goto("graceful")
  /\ UNCHANGED <<clock, timers, fd_due, stop, cache, signalled, call>>

NoShutdown ==
  /\ pc = "graceful"
  /\ ~graceful \/ (Open # {} /\ loop_now < deadline)
  /\ Goto("timeout")
  /\ UNCHANGED <<clock, timers, fd_due, stop, cache, signalled, call>>

\* No fd has a callback any more.
ShutdownIdle ==
  /\ pc = "graceful"
  /\ graceful /\ Open = {}
  /\ Goto("returned")
  /\ UNCHANGED <<clock, timers, fd_due, stop, cache, signalled, call>>

\* The deadline has come: every fd gets an error event and is closed.
ShutdownForced ==
  /\ pc = "graceful"
  /\ graceful /\ Open # {} /\ loop_now >= deadline
  /\ fd_due' = [f \in Fds |-> Never]
  /\ Goto("returned")
  /\ UNCHANGED <<clock, timers, stop, cache, signalled, call>>

-----------------------------------------------------------------------------
(* calculate_timeout() and epoll_wait. *)

\* A timeout that was found in an earlier iteration still counts.
UsesCache ==
  /\ ~dirty
  /\ loop_now - cached_at < CacheMs
  /\ cached > 0

\* Mutant: only the timers are looked at.
TimerExpiries == {due[t] - loop_now : t \in heap}

\* The expiries calculate_timeout looks at, in time from loop_now.
Expiries ==
  {due[t] - loop_now : t \in heap} \union
  {fd_due[f] - loop_now : f \in Open} \union
  (IF graceful THEN {deadline - loop_now} ELSE {})

TimeoutCached ==
  /\ pc = "timeout"
  /\ UsesCache
  /\ timeout' = Max({0, cached - (loop_now - cached_at)})
  /\ Goto("wait")
  /\ UNCHANGED <<clock, timers, fd_due, stop, cached, cached_at, dirty,
                 signalled, call>>

\* Something is due: do not sleep.
TimeoutDue ==
  /\ pc = "timeout"
  /\ ~UsesCache
  /\ \E e \in Expiries : e <= 0
  /\ timeout' = 0
  /\ dirty' = TRUE
  /\ Goto("wait")
  /\ UNCHANGED <<clock, timers, fd_due, stop, cached, cached_at, signalled, call>>

TimeoutFound ==
  /\ pc = "timeout"
  /\ ~UsesCache
  /\ \A e \in Expiries : e > 0
  /\ timeout' = (IF Expiries = {} THEN Never ELSE Min(Expiries))
  /\ Goto("keep")
  /\ UNCHANGED <<clock, timers, fd_due, stop, cached, cached_at, dirty,
                 signalled, call>>

\* The timeout found is kept, and timeout_dirty_ is cleared.
KeepTimeout ==
  /\ pc = "keep"
  /\ cached' = timeout
  /\ cached_at' = loop_now
  /\ dirty' = FALSE
  /\ Goto("wait")
  /\ UNCHANGED <<clock, timers, fd_due, stop, timeout, signalled, call>>

\* epoll_wait returns: timeout_ms goes out of scope.
Return ==
  /\ pc = "wait"
  /\ Goto("top")
  /\ timeout' = 0
  /\ UNCHANGED <<clock, timers, stop, cached, cached_at, dirty, call>>

WaitWoken ==
  /\ Return
  /\ signalled
  /\ signalled' = FALSE
  /\ UNCHANGED fd_due

\* The timeout has passed; at the bound of the clock every timeout has.
WaitTimesOut ==
  /\ Return
  /\ ~signalled
  /\ timeout # Never
  /\ loop_now + timeout <= now \/ now = MaxTime
  /\ UNCHANGED <<fd_due, signalled>>

\* An fd event: a connection is accepted and registered with a timeout, or is
\* closed by its peer and unregistered.
WaitEvent(f) ==
  /\ Return
  /\ \/ /\ f \notin Open
        /\ now + IdleTimeout <= MaxTime
        /\ fd_due' = [fd_due EXCEPT ![f] = now + IdleTimeout]
     \/ /\ f \in Open
        /\ fd_due' = [fd_due EXCEPT ![f] = Never]
  /\ UNCHANGED signalled

Tick ==
  /\ pc \in {"tasks", "wait", "returned"}
  /\ now < MaxTime
  /\ now' = now + 1
  /\ UNCHANGED <<loop_now, pc, timers, fd_due, stop, cache, signalled, call>>

-----------------------------------------------------------------------------
ScheduleAfter(t) == PushTimer(t) \/ MarkDirty(t) \/ WriteEventfd(t)
GracefulStop(c)  == SetGraceful(c) \/ SetDeadline(c) \/ WriteEventfd(c)

Shutdown == NoShutdown \/ ShutdownIdle \/ ShutdownForced
CalculateTimeout == TimeoutCached \/ TimeoutDue \/ TimeoutFound \/ KeepTimeout
Loop == \/ Top \/ ProcessTimers \/ ProcessTasks
        \/ Shutdown \/ CalculateTimeout \/ WaitWoken \/ WaitTimesOut

Next ==
  \/ \E t \in Timers : ScheduleAfter(t)
  \/ \E c \in Stops : GracefulStop(c)
  \/ \E f \in Fds : WaitEvent(f)
  \/ Loop
  \/ Tick

Spec == Init /\ [][Next]_vars

\* Time passes, the loop runs, and calls that are begun are finished.
Fairness ==
  /\ SF_vars(Tick)
  /\ WF_vars(Loop)
  /\ \A t \in Timers : WF_vars(MarkDirty(t) \/ WriteEventfd(t))
  /\ \A c \in Stops : WF_vars(SetDeadline(c) \/ WriteEventfd(c))

FairSpec == Spec /\ Fairness

-----------------------------------------------------------------------------
(* Properties. *)

Labels == {"top", "timers", "tasks", "graceful", "timeout",
           "keep", "wait", "returned"}
Moments == 0 .. MaxTime

TypeOK ==
  /\ now \in Moments /\ loop_now \in Moments /\ loop_now <= now
  /\ pc \in Labels
  /\ graceful \in BOOLEAN
  /\ pending \subseteq Timers /\ heap \subseteq Timers /\ fired \subseteq Timers
  /\ due \in [Timers -> Moments]
  /\ fd_due \in [Fds -> Moments \union {Never}]
  /\ deadline \in Nat
  /\ cached \in Nat \union {Never} /\ cached_at \in Moments /\ dirty \in BOOLEAN
  /\ timeout \in Nat \union {Never}
  /\ signalled \in BOOLEAN
  /\ call \in [Calls -> {"idle", "dirty", "deadline", "write", "done"}]

\* A wakeup is on its way to epoll_wait.
WakeupComes == signalled \/ \E c \in Calls : call[c] \in {"dirty", "deadline", "write"}

\* The reactor never sleeps without a timeout while a timer, a connection or a
\* shutdown is waiting for it, unless a wakeup is on its way.
NothingForgotten ==
  pc = "wait" /\ timeout = Never =>
    \/ WakeupComes
    \/ heap = {} /\ pending = {} /\ Open = {} /\ ~graceful

\* The variables of the loop and of the calls have their types, and nothing
\* that is to expire is forgotten by calculate_timeout and its cache.
TimeoutsRight == TypeOK /\ NothingForgotten

\* A timer that is scheduled is run, unless the reactor is stopped.
EveryTimerFires ==
  \A t \in Timers : (call[t] = "done") ~> (t \in fired \/ pc = "returned")

\* A graceful stop ends the loop.
ShutdownEnds == \A c \in Stops : (call[c] = "done") ~> (pc = "returned")
=============================================================================
