----------------------------- MODULE ReactorTasks -----------------------------
(***************************************************************************)
(* katana::epoll_reactor: how tasks reach the thread that runs the loop.   *)
(*                                                                         *)
(* schedule() pushes a task on pending_tasks_, counts it, and writes to    *)
(* an eventfd if the count was 0 and needs_wakeup_ was not set.  The loop  *)
(* takes the count, runs that many tasks, and sleeps in epoll_wait when    *)
(* pending_tasks_ is empty.  stop() clears running_ and writes to the      *)
(* eventfd.                                                                *)
(*                                                                         *)
(* The reactor here has no timers and no fd timeouts (ReactorTimeouts has  *)
(* them), so that the timeout of epoll_wait is 0 or none.                  *)
(*                                                                         *)
(* pending_tasks_ is a ring_buffer_queue on its MPMC path: a push claims   *)
(* its place and publishes the task later, and a pop fails while the       *)
(* oldest task is not published.  The reactor makes the queue with its     *)
(* fast path on (epoll_reactor.cpp:60), which may lose a task besides,     *)
(* when a second thread comes to schedule; that is in RingBufferQueue and  *)
(* its run RingFastPathSwitch.  What is shown here for several schedulers  *)
(* is about a queue that does not.                                         *)
(***************************************************************************)
EXTENDS Integers, Sequences, FiniteSets

CONSTANTS
  Schedulers,  \* threads that call schedule()
  Reactor,     \* the thread that calls run(); in Schedulers if tasks schedule
  Stoppers,    \* threads that call stop()
  StopsEarly,  \* whether stop() may be called before run()
  Capacity,    \* capacity of pending_tasks_
  MaxCalls     \* bound: calls of schedule() by a thread

ASSUME SchedulerAssumption ==
  /\ IsFiniteSet(Schedulers)
  /\ Reactor \notin Stoppers
  /\ StopsEarly \in BOOLEAN
  /\ Capacity \in Nat \ {0}
  /\ MaxCalls \in Nat

Tasks == Schedulers \X (1 .. MaxCalls)

VARIABLES
  queue,          \* pending_tasks_: its tasks, and whether each is published
  pending_count,  \* pending_count_
  needs_wakeup,   \* needs_wakeup_
  eventfd,        \* the counter of wakeup_fd_ is not 0
  edge,           \* epoll has an edge of wakeup_fd_ to report
  running,        \* running_
  pc,             \* what run() does next
  left,           \* how many tasks process_tasks has yet to pop
  blocks,         \* epoll_wait has no timeout
  executed,       \* the tasks that have been run
  client,         \* what a thread in schedule() or stop() does next
  calls,          \* how often a thread has called schedule()
  accepted        \* the tasks for which schedule() returns true

flags   == <<needs_wakeup, eventfd, edge, running>>
loop    == <<pc, left, blocks, executed>>
callers == <<client, calls, accepted>>
vars    == <<queue, pending_count, flags, loop, callers>>

Init ==
  /\ queue = <<>>
  /\ pending_count = 0
  /\ needs_wakeup = FALSE
  /\ eventfd = FALSE
  /\ edge = FALSE
  /\ running = FALSE
  /\ pc = "start"
  /\ left = 0
  /\ blocks = FALSE
  /\ executed = {}
  /\ client = [t \in Schedulers \union Stoppers |-> "idle"]
  /\ calls = [t \in Schedulers |-> 0]
  /\ accepted = {}

Goto(label)        == pc' = label
ClientTo(t, label) == client' = [client EXCEPT ![t] = label]

\* A write to the eventfd, and the edge it makes.
WriteEventfd == eventfd' = TRUE /\ edge' = TRUE

-----------------------------------------------------------------------------
(* schedule(). *)

\* The reactor's own thread calls it from a task.
MaySchedule(t) ==
  /\ client[t] = "idle"
  /\ calls[t] < MaxCalls
  /\ t = Reactor => pc = "task"

\* try_push claims a place.
Push(t) ==
  /\ MaySchedule(t)
  /\ Len(queue) < Capacity
  /\ calls' = [calls EXCEPT ![t] = @ + 1]
  /\ queue' = Append(queue, [task |-> <<t, calls[t] + 1>>, published |-> FALSE])
  /\ accepted' = accepted \union {<<t, calls[t] + 1>>}
  /\ ClientTo(t, "publish")
  /\ UNCHANGED <<pending_count, flags, loop>>

\* The queue is full: schedule() returns false.
Reject(t) ==
  /\ MaySchedule(t)
  /\ Len(queue) = Capacity
  /\ calls' = [calls EXCEPT ![t] = @ + 1]
  /\ UNCHANGED <<queue, pending_count, flags, loop, client, accepted>>

Publish(t) ==
  /\ client[t] = "publish"
  /\ queue' = [i \in DOMAIN queue |->
                 [queue[i] EXCEPT !.published = @ \/ queue[i].task = <<t, calls[t]>>]]
  /\ ClientTo(t, "count")
  /\ UNCHANGED <<pending_count, flags, loop, calls, accepted>>

\* Mutant: the count after the addition is compared.
CountAfter(t) ==
  /\ client[t] = "count"
  /\ pending_count' = pending_count + 1
  /\ ClientTo(t, IF pending_count' = 0 THEN "cas" ELSE "idle")
  /\ UNCHANGED <<queue, flags, loop, calls, accepted>>

\* pending_count_.fetch_add(1): only the one that counts from 0 goes on.
Count(t) ==
  /\ client[t] = "count"
  /\ pending_count' = pending_count + 1
  /\ ClientTo(t, IF pending_count = 0 THEN "cas" ELSE "idle")
  /\ UNCHANGED <<queue, flags, loop, calls, accepted>>

\* Mutant: a thread that finds needs_wakeup_ clear leaves the write to others.
CasBackwards(t) ==
  /\ client[t] = "cas"
  /\ needs_wakeup' = TRUE
  /\ ClientTo(t, IF needs_wakeup THEN "write" ELSE "idle")
  /\ UNCHANGED <<queue, pending_count, eventfd, edge, running, loop, calls, accepted>>

Cas(t) ==
  /\ client[t] = "cas"
  /\ needs_wakeup' = TRUE
  /\ ClientTo(t, IF needs_wakeup THEN "idle" ELSE "write")
  /\ UNCHANGED <<queue, pending_count, eventfd, edge, running, loop, calls, accepted>>

Write(t) ==
  /\ client[t] = "write"
  /\ WriteEventfd
  /\ ClientTo(t, IF t \in Stoppers THEN "done" ELSE "idle")
  /\ UNCHANGED <<queue, pending_count, needs_wakeup, running, loop, calls, accepted>>

-----------------------------------------------------------------------------
(* stop(): clears running_, then writes. *)

\* Mutant: the reactor is not woken.
StopSilently(t) ==
  /\ client[t] = "idle"
  /\ StopsEarly \/ pc # "start"
  /\ running' = FALSE
  /\ ClientTo(t, "done")
  /\ UNCHANGED <<queue, pending_count, needs_wakeup, eventfd, edge, loop,
                 calls, accepted>>

Stop(t) ==
  /\ client[t] = "idle"
  /\ StopsEarly \/ pc # "start"
  /\ running' = FALSE
  /\ ClientTo(t, "write")
  /\ UNCHANGED <<queue, pending_count, needs_wakeup, eventfd, edge, loop,
                 calls, accepted>>

-----------------------------------------------------------------------------
(* run(). *)

\* running_.exchange(true): a reactor that runs already is left alone.
Run ==
  /\ pc = "start"
  /\ running' = TRUE
  /\ Goto(IF running THEN "returned" ELSE "test")
  /\ UNCHANGED <<queue, pending_count, needs_wakeup, eventfd, edge,
                 left, blocks, executed, callers>>

Test ==
  /\ pc = "test"
  /\ Goto(IF running THEN "take" ELSE "returned")
  /\ UNCHANGED <<queue, pending_count, flags, left, blocks, executed, callers>>

\* process_tasks takes the count ...
Take ==
  /\ pc = "take"
  /\ left' = pending_count
  /\ pending_count' = 0
  /\ Goto("clear")
  /\ UNCHANGED <<queue, flags, blocks, executed, callers>>

Clear ==
  /\ pc = "clear"
  /\ needs_wakeup' = FALSE
  /\ Goto("pop")
  /\ UNCHANGED <<queue, pending_count, eventfd, edge, running,
                 left, blocks, executed, callers>>

Poppable == queue # <<>> /\ Head(queue).published

\* Mutant: tasks are popped while there are any.
PopAll ==
  /\ pc = "pop"
  /\ Poppable
  /\ queue' = Tail(queue)
  /\ executed' = executed \union {Head(queue).task}
  /\ left' = left - 1
  /\ Goto("task")
  /\ UNCHANGED <<pending_count, flags, blocks, callers>>

\* ... and pops and runs that many tasks,
Pop ==
  /\ pc = "pop"
  /\ left > 0
  /\ Poppable
  /\ queue' = Tail(queue)
  /\ executed' = executed \union {Head(queue).task}
  /\ left' = left - 1
  /\ Goto("task")
  /\ UNCHANGED <<pending_count, flags, blocks, callers>>

\* unless a pop fails.  What is left of the count is forgotten.
PopEnds ==
  /\ pc = "pop"
  /\ left = 0 \/ ~Poppable
  /\ left' = 0
  /\ Goto("timeout")
  /\ UNCHANGED <<queue, pending_count, flags, blocks, executed, callers>>

\* The task returns, once a schedule() of its own has.
TaskReturns ==
  /\ pc = "task"
  /\ Reactor \in Schedulers => client[Reactor] = "idle"
  /\ Goto("pop")
  /\ UNCHANGED <<queue, pending_count, flags, left, blocks, executed, callers>>

\* calculate_timeout: 0 while there are tasks in the queue, else none.
CalculateTimeout ==
  /\ pc = "timeout"
  /\ blocks' = (queue = <<>>)
  /\ Goto("wait")
  /\ UNCHANGED <<queue, pending_count, flags, left, executed, callers>>

Signalled == edge /\ eventfd

\* epoll_wait reports the wakeup fd, ...
WaitWoken ==
  /\ pc = "wait"
  /\ Signalled
  /\ edge' = FALSE
  /\ Goto("read")
  /\ UNCHANGED <<queue, pending_count, needs_wakeup, eventfd, running,
                 left, blocks, executed, callers>>

\* or returns at once for its timeout of 0.
WaitEnds ==
  /\ pc = "wait"
  /\ ~blocks /\ ~Signalled
  /\ Goto("test")
  /\ UNCHANGED <<queue, pending_count, flags, left, blocks, executed, callers>>

\* process_events drains the eventfd and sets needs_wakeup_.
Read ==
  /\ pc = "read"
  /\ eventfd' = FALSE
  /\ Goto("rearm")
  /\ UNCHANGED <<queue, pending_count, needs_wakeup, edge, running,
                 left, blocks, executed, callers>>

Rearm ==
  /\ pc = "rearm"
  /\ needs_wakeup' = TRUE
  /\ Goto("test")
  /\ UNCHANGED <<queue, pending_count, eventfd, edge, running,
                 left, blocks, executed, callers>>

-----------------------------------------------------------------------------
Schedule(t) == Push(t) \/ Reject(t) \/ Publish(t) \/ Count(t) \/ Cas(t)
ProcessTasks == Take \/ Clear \/ Pop \/ PopEnds \/ TaskReturns
ProcessEvents == WaitWoken \/ WaitEnds \/ Read \/ Rearm
Loop == Run \/ Test \/ ProcessTasks \/ CalculateTimeout \/ ProcessEvents

Next ==
  \/ \E t \in Schedulers : Schedule(t)
  \/ \E t \in Stoppers : Stop(t)
  \/ \E t \in Schedulers \union Stoppers : Write(t)
  \/ Loop

Spec == Init /\ [][Next]_vars

\* Every thread is scheduled, and finishes the calls it has begun; nobody has
\* to call schedule() or stop().
Fairness ==
  /\ WF_vars(Loop)
  /\ \A t \in Schedulers : WF_vars(Publish(t) \/ Count(t) \/ Cas(t))
  /\ \A t \in Schedulers \union Stoppers : WF_vars(Write(t))

FairSpec == Spec /\ Fairness

-----------------------------------------------------------------------------
(* Properties. *)

PcLabels == {"start", "test", "take", "clear", "pop", "task", "timeout",
             "wait", "read", "rearm", "returned"}
ClientLabels == {"idle", "publish", "count", "cas", "write", "done"}

TypeOK ==
  /\ queue \in Seq([task : Tasks, published : BOOLEAN])
  /\ pending_count \in Nat
  /\ needs_wakeup \in BOOLEAN
  /\ eventfd \in BOOLEAN
  /\ edge \in BOOLEAN
  /\ running \in BOOLEAN
  /\ pc \in PcLabels
  /\ left \in Nat
  /\ blocks \in BOOLEAN
  /\ executed \subseteq Tasks
  /\ client \in [Schedulers \union Stoppers -> ClientLabels]
  /\ calls \in [Schedulers -> 0 .. MaxCalls]
  /\ accepted \subseteq Tasks

\* The threads that are about to write to the eventfd, because they have won
\* the compare-and-swap or are about to win it.
WillWrite == \E t \in DOMAIN client :
  \/ client[t] = "write"
  \/ client[t] = "cas" /\ ~needs_wakeup
  \/ client[t] \in {"publish", "count"} /\ pending_count = 0

\* The reactor never sleeps on work without a wakeup on the way: when it is in
\* epoll_wait without a timeout and there is a task, or a stop, then the
\* eventfd is signalled or some thread is about to signal it.
NoLostWakeup ==
  pc = "wait" /\ blocks /\ (queue # <<>> \/ ~running) => Signalled \/ WillWrite

-----------------------------------------------------------------------------
(* The inductive invariant from which NoLostWakeup follows. *)

Uncounted == {t \in Schedulers : client[t] \in {"publish", "count"}}
Writing   == \E t \in DOMAIN client : client[t] = "write"

\* The counts never run ahead of the queue.  They fall behind it when a pop
\* fails, and then the queue is not empty.
CountsBehind == pending_count + left + Cardinality(Uncounted) <= Len(queue)

\* Inside the loop needs_wakeup_ says that the eventfd is written to.
FlagTells ==
  pc \in {"pop", "task", "timeout", "wait"} /\ needs_wakeup => Signalled \/ Writing

\* While the reactor sleeps every task is counted or about to be, and a count
\* brings a wakeup.
SleepTells ==
  pc = "wait" /\ blocks =>
    /\ pending_count + Cardinality(Uncounted) = Len(queue)
    /\ pending_count > 0 =>
         Signalled \/ Writing \/ \E t \in Schedulers : client[t] = "cas"

\* A stop during the loop is followed by a wakeup.
StopTells ==
  pc \in {"take", "clear", "pop", "task", "timeout", "wait"} /\ ~running =>
    Signalled \/ Writing

WakeupProtocol ==
  /\ TypeOK
  /\ pc \in {"timeout", "wait"} => left = 0
  /\ CountsBehind /\ FlagTells /\ SleepTells /\ StopTells

-----------------------------------------------------------------------------
\* A task for which schedule() returns true is run, unless the loop has ended.
\* test_reactor.cpp:471 expects it of threads that schedule at once; the code
\* does not give it, since a pop that fails behind an unpublished push drops
\* the counts of other tasks (epoll_reactor.cpp:436).
EveryTaskRuns ==
  \A k \in Tasks : (k \in accepted) ~> (k \in executed \/ pc = "returned")

\* A dropped count is missing for good: the last tasks of the queue, as many as
\* counts are missing, are out of the reach of process_tasks.
Missing     == Len(queue) - (pending_count + left + Cardinality(Uncounted))
Stranded(k) == \E i \in DOMAIN queue : queue[i].task = k /\ i > Len(queue) - Missing

\* Whatever threads schedule at once, a task for which schedule() returns true
\* is run, unless the loop has ended or the task is stranded from some time on:
\* no task is left behind but the last ones, as many as counts were dropped.
TasksRunOrStrand ==
  \A k \in Tasks : (k \in accepted) ~> (\/ k \in executed
                                        \/ pc = "returned"
                                        \/ []Stranded(k))

\* run() returns when a stop is requested.
RunReturns == \A t \in Stoppers : (client[t] # "idle") ~> (pc = "returned")
=============================================================================
