-------------------------------- MODULE FdTable --------------------------------
(***************************************************************************)
(* katana::epoll_reactor: the fds it watches, by number.                   *)
(*                                                                         *)
(* The reactor knows an fd by its number alone, and the process gives the  *)
(* lowest free number to the next file that any of its threads opens.  So  *)
(* everything that remembers a number - the registration in fd_states_,    *)
(* the timers of wheel_timer_, deferred_closes_, the events of a batch -   *)
(* must have forgotten it before the file behind it is closed.             *)
(*                                                                         *)
(* There are three kinds of files.  A Served connection is that of         *)
(* http::server: no timeout, and its callback owns the fd_watch and the    *)
(* socket.  A Timed one is registered with a timeout by a task, and closed *)
(* by its callback or, after a timeout, by the reactor.  The files Elsewhere *)
(* are those of the other threads.                                         *)
(*                                                                         *)
(* When epoll_wait returns is the subject of ReactorTimeouts, and how the  *)
(* wheel turns that of WheelTimer: here it may return at any time, and a   *)
(* timer is a count of milliseconds.                                       *)
(***************************************************************************)
EXTENDS Integers, Sequences, FiniteSets, FiniteSetsExt, SequencesExt

CONSTANTS
  Numbers,         \* what the process may number its fds with
  Served,          \* the connections of a server, each accepted once
  Timed,           \* the connections with a timeout, each accepted once
  Elsewhere,       \* the files other threads open, each opened once
  Interval,        \* the timeout, in milliseconds
  NsPerMs,         \* 1'000'000
  InlineThreshold, \* 2 in the code
  MaxBatch,        \* 2 in the code
  DeferredCap,     \* capacity of deferred_closes_, 2048 in the code
  MaxEvents,       \* max_events_
  None,            \* no file
  Listener         \* the fd of the listener, which is not one of Numbers

Files == Served \union Timed \union Elsewhere

ASSUME FdAssumption ==
  /\ Numbers \subseteq Nat /\ IsFiniteSet(Numbers)
  /\ IsFiniteSet(Files) /\ None \notin Files
  /\ Served \intersect Timed = {} /\ (Served \union Timed) \intersect Elsewhere = {}
  /\ Listener \notin Numbers \union Files
  /\ Interval \in Nat \ {0} /\ NsPerMs \in Nat \ {0}
  /\ InlineThreshold \in Nat /\ MaxBatch \in Nat \ {0}
  /\ DeferredCap \in Nat /\ MaxEvents \in Nat \ {0}

VARIABLES
  file,     \* the open file of a number, None if it is free
  unopened, \* the files that have not been opened yet
  polled,   \* the numbers in the interest list of epoll
  state,    \* fd_states_
  timers,   \* the timers on wheel_timer_ that are not cancelled
  tasks,    \* the numbers of accepted files that a task is to register
  deferred, \* deferred_closes_
  budget,   \* inline_budget
  active,   \* active_fds_
  modified, \* bound: a Timed connection is modified once
  loc,      \* what run() does next
  batch,    \* the events that epoll_wait reported and are still to be handled
  count     \* closes made by this flush_deferred_closes(), or the fd a
            \* forced shutdown has reached

kernel == <<file, unopened, polled>>
closes == <<deferred, budget>>
loop   == <<loc, batch, count>>
user   == <<tasks, modified>>
vars   == <<kernel, state, timers, closes, active, user, loop>>

\* A registration: the file that the callback was made for, has_timeout,
\* timeout_id and the time since last_activity.
NoState == [callback |-> None, has_timeout |-> FALSE, timeout_id |-> 0, idle |-> 0]

\* inline_budget is a static of the thread: an earlier reactor may have used it.
Init ==
  /\ file = [n \in Numbers |-> None]
  /\ unopened = Files
  /\ polled = {}
  /\ state = [n \in Numbers |-> NoState]
  /\ timers = {}
  /\ tasks = {}
  /\ deferred = <<>>
  /\ budget \in 0 .. InlineThreshold
  /\ active = 0
  /\ modified = {}
  /\ loc = "timers" /\ batch = <<>> /\ count = 0

Goto(label) == loc' = label

-----------------------------------------------------------------------------
(* The kernel. *)

Free == {n \in Numbers : file[n] = None}

\* A new file gets the lowest free number.
Open(f) ==
  /\ f \in unopened
  /\ Free # {}
  /\ file' = [file EXCEPT ![Min(Free)] = f]
  /\ unopened' = unopened \ {f}

\* close() takes the file out of the interest list; it fails when n is free.
Close(n) ==
  /\ file' = [file EXCEPT ![n] = None]
  /\ polled' = polled \ {n}
  /\ UNCHANGED unopened

OpenElsewhere(f) ==
  /\ f \in Elsewhere
  /\ Open(f)
  /\ UNCHANGED <<polled, state, timers, closes, active, user, loop>>

CloseElsewhere(n) ==
  /\ file[n] \in Elsewhere
  /\ Close(n)
  /\ UNCHANGED <<state, timers, closes, active, user, loop>>

-----------------------------------------------------------------------------
(* Registrations. *)

Registered == {n \in Numbers : state[n].callback # None}

\* An id that is neither in use nor remembered, as generations make it.
FreshId ==
  Min((1 .. 2 * Cardinality(Numbers) + 1)
        \ ({t.id : t \in timers} \union {state[n].timeout_id : n \in Numbers}))

Timer(n, left) == [id |-> FreshId, fd |-> n, for |-> file[n], left |-> left]

Without(n) == {t \in timers : t.id # state[n].timeout_id}

\* register_fd.
Register(n, f) ==
  /\ polled' = polled \union {n}
  /\ state' = [state EXCEPT ![n] = [NoState EXCEPT !.callback = f]]
  /\ active' = active + 1
  /\ UNCHANGED timers

\* register_fd_with_timeout.
RegisterWithTimeout(n, f) ==
  /\ timers' = timers \union {Timer(n, Interval)}
  /\ polled' = polled \union {n}
  /\ state' = [state EXCEPT ![n] = [callback |-> f, has_timeout |-> TRUE,
                                    timeout_id |-> FreshId, idle |-> 0]]
  /\ active' = active + 1

\* unregister_fd of a number that is registered, and close() by its user.
UnregisterAndClose(n) ==
  /\ timers' = Without(n)
  /\ state' = [state EXCEPT ![n] = NoState]
  /\ active' = active - 1
  /\ Close(n)

-----------------------------------------------------------------------------
(* process_wheel_timer, and what the timer of an fd does. *)

Armed(n) == state[n].callback # None /\ state[n].has_timeout

Due == {t \in timers : t.left = 0}

\* The time since the last activity is in nanoseconds, the interval is not.
TimedOut(n) == state[n].idle * NsPerMs >= Interval

\* What is left of the interval, back in milliseconds; at least a tick.
Remaining(n) == Max({1, (Interval - state[n].idle * NsPerMs) \div NsPerMs})

\* Mutant: the state is not reset.
CloseKeepsState(n) ==
  /\ Close(n)
  /\ active' = active - 1
  /\ UNCHANGED state

\* close_fd_immediate.
CloseImmediately(n) ==
  /\ Close(n)
  /\ state' = [state EXCEPT ![n] = NoState]
  /\ active' = active - 1

\* Mutant: the callback is copied.
DisarmTimerOnly(n) ==
  state' = [state EXCEPT ![n].has_timeout = FALSE, ![n].timeout_id = 0]

\* The callback is moved out of its registration before it is called.
Disarm(n) == state' = [state EXCEPT ![n] = NoState]

CloseInline(n) ==
  /\ budget > 0 /\ deferred = <<>>
  /\ budget' = budget - 1
  /\ CloseImmediately(n)
  /\ UNCHANGED deferred

DeferClose(n) ==
  /\ ~(budget > 0 /\ deferred = <<>>)
  /\ budget' = InlineThreshold
  /\ Len(deferred) < DeferredCap
  /\ deferred' = Append(deferred, [fd |-> n, for |-> file[n]])
  /\ Disarm(n)
  /\ UNCHANGED <<kernel, active>>

CloseSaturated(n) ==
  /\ ~(budget > 0 /\ deferred = <<>>)
  /\ budget' = InlineThreshold
  /\ Len(deferred) >= DeferredCap
  /\ CloseImmediately(n)
  /\ UNCHANGED deferred

QueueFdClose(n) == CloseInline(n) \/ DeferClose(n) \/ CloseSaturated(n)

\* handle_fd_timeout: the callback is told of the timeout, which it leaves to
\* the reactor to act upon.
FdTimesOut(t) ==
  /\ loc = "timers"
  /\ t \in Due
  /\ Armed(t.fd) /\ TimedOut(t.fd)
  /\ timers' = timers \ {t}
  /\ QueueFdClose(t.fd)
  /\ UNCHANGED <<user, loop>>

\* Mutant: the timer is not started again.
FdWasActiveOnce(t) ==
  /\ loc = "timers"
  /\ t \in Due
  /\ Armed(t.fd) /\ ~TimedOut(t.fd)
  /\ timers' = timers \ {t}
  /\ UNCHANGED <<kernel, state, closes, active, user, loop>>

\* handle_fd_timeout: there has been some activity.
FdWasActive(t) ==
  /\ loc = "timers"
  /\ t \in Due
  /\ Armed(t.fd) /\ ~TimedOut(t.fd)
  /\ timers' = (timers \ {t}) \union {Timer(t.fd, Remaining(t.fd))}
  /\ state' = [state EXCEPT ![t.fd].timeout_id = FreshId]
  /\ UNCHANGED <<kernel, closes, active, user, loop>>

\* A timer that finds no timeout registered for its number does nothing.
TimersDone ==
  /\ loc = "timers"
  /\ \A t \in Due : ~Armed(t.fd)
  /\ timers' = timers \ Due
  /\ Goto("tasks")
  /\ UNCHANGED <<kernel, state, closes, active, user, batch, count>>

-----------------------------------------------------------------------------
(* process_tasks: connections with a timeout are registered by tasks. *)

TaskRegisters(n) ==
  /\ loc = "tasks"
  /\ n \in tasks
  /\ tasks' = tasks \ {n}
  /\ RegisterWithTimeout(n, file[n])
  /\ UNCHANGED <<file, unopened, closes, modified, loop>>

\* epoll_ctl fails: the timeout just scheduled is cancelled, the user closes.
TaskFailsToRegister(n) ==
  /\ loc = "tasks"
  /\ n \in tasks
  /\ tasks' = tasks \ {n}
  /\ Close(n)
  /\ UNCHANGED <<state, timers, closes, active, modified, loop>>

\* Tasks that come later wait for the next turn.
TasksDone ==
  /\ loc = "tasks"
  /\ Goto("shutdown")
  /\ UNCHANGED <<kernel, state, timers, closes, active, user, batch, count>>

-----------------------------------------------------------------------------
(* The graceful shutdown in run(); when its deadline comes is left open. *)

GoesOn ==
  /\ loc = "shutdown"
  /\ Goto("wait")
  /\ UNCHANGED <<kernel, state, timers, closes, active, user, batch, count>>

ShutdownIdle ==
  /\ loc = "shutdown"
  /\ Registered = {}
  /\ Goto("final")
  /\ UNCHANGED <<kernel, state, timers, closes, active, user, batch, count>>

DeadlineComes ==
  /\ loc = "shutdown"
  /\ Registered # {}
  /\ Goto("forced")
  /\ count' = Min(Numbers)
  /\ UNCHANGED <<kernel, state, timers, closes, active, user, batch>>

\* The callback of the fd reached is told of an error, and leaves it as it is.
ForceClose ==
  /\ loc = "forced"
  /\ count \in Registered
  /\ Close(count)
  /\ Goto("release")
  /\ UNCHANGED <<state, timers, closes, active, user, batch, count>>

\* A callback that closes its connection itself when it is told.
ForceUnregister ==
  /\ loc = "forced"
  /\ count \in Registered
  /\ UnregisterAndClose(count)
  /\ UNCHANGED <<closes, user, loop>>

\* The state is reset and the callback destroyed.  What that of a Served
\* connection owns goes with it: the fd_watch, which fails to unregister, and
\* the socket, which closes the number for a second time.
ForceRelease ==
  /\ loc = "release"
  /\ state' = [state EXCEPT ![count] = NoState]
  /\ IF state[count].callback \in Served THEN Close(count) ELSE UNCHANGED kernel
  /\ Goto("forced")
  /\ UNCHANGED <<timers, closes, active, user, batch, count>>

ForceNext ==
  /\ loc = "forced"
  /\ count \notin Registered
  /\ LET later == {n \in Numbers : n > count}
     IN  IF later = {} THEN Goto("final") /\ count' = 0
                       ELSE Goto("forced") /\ count' = Min(later)
  /\ UNCHANGED <<kernel, state, timers, closes, active, user, batch>>

-----------------------------------------------------------------------------
(* process_events, and what the callbacks do. *)

\* Any of the fds that are polled may be ready, in any order.
EpollWait ==
  /\ loc = "wait"
  /\ \E ready \in SUBSET (polled \union {Listener}) :
       /\ Cardinality(ready) <= MaxEvents
       /\ batch' \in {[i \in DOMAIN order |->
                         [fd |-> order[i],
                          for |-> IF order[i] = Listener THEN None ELSE file[order[i]]]] :
                      order \in SetToSeqs(ready)}
  /\ Goto("events")
  /\ UNCHANGED <<kernel, state, timers, closes, active, user, count>>

\* Time passes where the loop sleeps.
TimePasses ==
  /\ loc = "wait"
  /\ timers # {}
  /\ timers' = {[t EXCEPT !.left = Max({0, @ - 1})] : t \in timers}
  /\ state' = [n \in Numbers |->
                 IF Armed(n) THEN [state[n] EXCEPT !.idle = Min({Interval, @ + 1})]
                             ELSE state[n]]
  /\ UNCHANGED <<kernel, closes, active, user, loop>>

\* The event that is handled next, which is for a registered number.
Handles(n) == loc = "events" /\ batch # <<>> /\ Head(batch).fd = n

NextEvent == batch' = Tail(batch) /\ UNCHANGED <<loc, count>>

AcceptServed(f) ==
  /\ Handles(Listener)
  /\ f \in Served
  /\ Open(f)
  /\ Register(Min(Free), f)
  /\ UNCHANGED <<closes, user, loop>>

\* fd_watch does not get its registration, and the socket goes out of scope.
AcceptFails(f) ==
  /\ Handles(Listener)
  /\ f \in Served \intersect unopened
  /\ Free # {}
  /\ unopened' = unopened \ {f}
  /\ UNCHANGED <<file, polled, state, timers, closes, active, user, loop>>

AcceptTimed(f) ==
  /\ Handles(Listener)
  /\ f \in Timed
  /\ Open(f)
  /\ tasks' = tasks \union {Min(Free)}
  /\ UNCHANGED <<polled, state, timers, closes, active, modified, loop>>

AcceptDone ==
  /\ Handles(Listener)
  /\ NextEvent
  /\ UNCHANGED <<kernel, state, timers, closes, active, user>>

\* An event for a number without a callback is dropped.
DropEvent(n) ==
  /\ Handles(n)
  /\ n \notin Registered
  /\ NextEvent
  /\ UNCHANGED <<kernel, state, timers, closes, active, user>>

\* The callback uses the connection; refresh_fd_timeout.
Callback(n) ==
  /\ Handles(n)
  /\ n \in Registered
  /\ state' = [state EXCEPT ![n].idle = 0]
  /\ NextEvent
  /\ UNCHANGED <<kernel, timers, closes, active, user>>

\* modify_fd starts the timeout again.
CallbackModifies(n) ==
  /\ Handles(n)
  /\ Armed(n)
  /\ state[n].callback \notin modified
  /\ modified' = modified \union {state[n].callback}
  /\ timers' = Without(n) \union {Timer(n, Interval)}
  /\ state' = [state EXCEPT ![n].timeout_id = FreshId, ![n].idle = 0]
  /\ NextEvent
  /\ UNCHANGED <<kernel, tasks, closes, active>>

CallbackCloses(n) ==
  /\ Handles(n)
  /\ n \in Registered
  /\ UnregisterAndClose(n)
  /\ NextEvent
  /\ UNCHANGED <<closes, user>>

EventsDone ==
  /\ loc = "events"
  /\ batch = <<>>
  /\ Goto("flush")
  /\ count' = 0
  /\ UNCHANGED <<kernel, state, timers, closes, active, user, batch>>

-----------------------------------------------------------------------------
(* flush_deferred_closes, in every turn and once more when the loop is left. *)

\* Mutant: closes are made among the callbacks of a batch.
FlushAmongEvents ==
  /\ loc \in {"events", "flush", "final"}
  /\ count < MaxBatch /\ deferred # <<>>
  /\ deferred' = Tail(deferred)
  /\ count' = count + 1
  /\ CloseImmediately(Head(deferred).fd)
  /\ UNCHANGED <<timers, budget, user, loc, batch>>

FlushOne ==
  /\ loc \in {"flush", "final"}
  /\ count < MaxBatch /\ deferred # <<>>
  /\ deferred' = Tail(deferred)
  /\ count' = count + 1
  /\ CloseImmediately(Head(deferred).fd)
  /\ UNCHANGED <<timers, budget, user, loc, batch>>

\* The loop goes on, or leaves when stop() has been called meanwhile.
FlushDone ==
  /\ loc \in {"flush", "final"}
  /\ count = MaxBatch \/ deferred = <<>>
  /\ count' = 0
  /\ loc' \in IF loc = "flush" THEN {"timers", "final"} ELSE {"returned"}
  /\ UNCHANGED <<kernel, state, timers, closes, active, user, batch>>

-----------------------------------------------------------------------------
ProcessWheelTimer == (\E t \in Due : FdTimesOut(t) \/ FdWasActive(t)) \/ TimersDone

ProcessTasks ==
  \/ \E n \in tasks : TaskRegisters(n) \/ TaskFailsToRegister(n)
  \/ TasksDone

Shutdown ==
  \/ GoesOn \/ ShutdownIdle \/ DeadlineComes
  \/ ForceClose \/ ForceUnregister \/ ForceRelease \/ ForceNext

ProcessEvents ==
  \/ EpollWait
  \/ \E f \in Served : AcceptServed(f) \/ AcceptFails(f)
  \/ \E f \in Timed : AcceptTimed(f)
  \/ AcceptDone
  \/ \E n \in Numbers : DropEvent(n) \/ Callback(n) \/ CallbackModifies(n) \/ CallbackCloses(n)
  \/ EventsDone

FlushDeferredCloses == FlushOne \/ FlushDone

Turn == ProcessWheelTimer \/ ProcessTasks \/ Shutdown \/ ProcessEvents \/ FlushDeferredCloses

Next ==
  \/ Turn
  \/ TimePasses
  \/ \E f \in Elsewhere : OpenElsewhere(f)
  \/ \E n \in Numbers : CloseElsewhere(n)

Spec == Init /\ [][Next]_vars

\* The loop runs, and time passes while it sleeps, however often it is woken.
FairSpec == Spec /\ WF_vars(Turn) /\ SF_vars(TimePasses)

-----------------------------------------------------------------------------
(* Properties. *)

Labels == {"timers", "tasks", "shutdown", "forced", "release", "wait", "events",
           "flush", "final", "returned"}

\* The values the variables take.
TypeOK ==
  /\ file \in [Numbers -> Files \union {None}]
  /\ unopened \subseteq Files
  /\ polled \subseteq Numbers /\ tasks \subseteq Numbers
  /\ \A n \in Numbers :
       /\ state[n].callback \in Served \union Timed \union {None}
       /\ state[n].has_timeout \in BOOLEAN
       /\ state[n].timeout_id \in Nat /\ state[n].idle \in 0 .. Interval
  /\ \A t \in timers : t.fd \in Numbers /\ t.left \in 0 .. Max({1, Interval})
  /\ \A i \in DOMAIN deferred : deferred[i].fd \in Numbers
  /\ Len(deferred) <= DeferredCap
  /\ budget \in 0 .. InlineThreshold
  /\ active \in Nat
  /\ loc \in Labels

\* The shutdown by force resets registrations without more ado; it is the last
\* thing a reactor does.
Forced == loc \in {"forced", "release", "final", "returned"}

\* A registration is for the file that has its number, and is polled: what the
\* reactor closes after a timeout, and what a callback reads from and closes,
\* is its own connection, whatever other threads open and close meanwhile.
RegisteredIsOpen ==
  \A n \in Registered \ (IF loc = "release" THEN {count} ELSE {}) :
    file[n] = state[n].callback /\ n \in polled

\* A number whose close is deferred still has the file it was deferred for, no
\* callback and no timer, and is there once: so that the flush closes that
\* file and no other, and nobody is told of it any more.
DeferredIsHeld ==
  \A i \in DOMAIN deferred :
    LET n == deferred[i].fd IN
    /\ file[n] = deferred[i].for
    /\ n \notin Registered
    /\ \A t \in timers : t.fd # n
    /\ \A j \in DOMAIN deferred : deferred[j].fd = n => i = j

\* A callback is only ever given an event of its own file, although the batch
\* was reported before the callbacks in front of it closed, accepted and
\* registered files.
OwnEvents ==
  loc = "events" /\ batch # <<>> /\ Head(batch).fd \in Registered =>
    state[Head(batch).fd].callback = Head(batch).for

\* Every timer on the wheel is the current one of the registration it was
\* started for: the timeout of a file never closes the next one of its number.
TimersAreOwned ==
  ~Forced =>
    /\ \A t \in timers :
         state[t.fd].callback = t.for /\ state[t.fd].timeout_id = t.id
    /\ \A n \in Numbers : Armed(n) => \E t \in timers : t.id = state[n].timeout_id

\* active_fds_, from which the load of a reactor is told, counts the files it
\* watches and those it still has to close.
ActiveIsCounted ==
  ~Forced => active = Cardinality(Registered) + Len(deferred)

\* The table of fds is well typed and agrees with the files of the process, the
\* timers of the wheel and the number of fds that the load is told from.
TableRight ==
  TypeOK /\ RegisteredIsOpen /\ TimersAreOwned /\ ActiveIsCounted

\* A connection with a timeout that has no more activity does not stay with a
\* loop that runs: its timer is running, or is started again, until it closes.
NoneStaysIdle ==
  \A n \in Numbers : []<>(~Armed(n) \/ state[n].idle = 0 \/ Forced)
=============================================================================
