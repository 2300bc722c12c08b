--------------------------- MODULE ServerLifecycle ---------------------------
(***************************************************************************)
(* server::run (http_server.cpp) on a reactor_pool: listeners are opened   *)
(* on every reactor, the shutdown callback is installed, a thread is begun *)
(* per reactor, and run() waits for them all.  trigger_shutdown() calls    *)
(* graceful_stop() on one reactor after the other from the thread that     *)
(* calls it: a reactor's, in a handler, or the main thread's, in the       *)
(* on_start callback.  A signal only sets a flag.                          *)
(*                                                                         *)
(* A reactor is what ReactorTasks and ReactorTimeouts show of it: a loop   *)
(* that ends after stop(), or after graceful_stop() when no fd is left or  *)
(* at the deadline, when it closes what is left.                           *)
(***************************************************************************)
EXTENDS Integers, FiniteSets

CONSTANTS
  Reactors,        \* 1 .. n, the reactors of the pool in their order
  MaxConnections,  \* bound: connections open on a reactor
  MaxTriggers,     \* bound: calls of trigger_shutdown
  MaxFaults        \* bound: calls of the system that fail

Main == 0          \* the thread that calls run()
Last == Cardinality(Reactors)

ASSUME LifecycleAssumption ==
  /\ IsFiniteSet(Reactors) /\ Reactors = 1 .. Last /\ Last > 0
  /\ MaxConnections \in Nat /\ MaxTriggers \in Nat /\ MaxFaults \in Nat

VARIABLES
  reuseport,  \* reuseport_: a listener on each reactor, or one on the first
  main, at,   \* where run() is, and at which reactor
  code,       \* what run() returns
  listener,   \* "open": registered; "orphan": open, its loop has failed;
              \* "closed": registered, but its socket object is gone
  conns,      \* connections registered with a reactor
  loop,       \* a reactor's thread: none, begun, running, ended by itself, failed
  running, graceful,  \* running_ and graceful_shutdown_
  deadline,   \* graceful_shutdown_deadline_: unset (long past), set, passed
  callback,   \* the shutdown callback is installed
  requested,  \* shutdown_requested_
  trigger,    \* the call of trigger_shutdown: the thread, reactor and step
  calls, faults

poolVars == <<listener, conns, loop, running>>
stopVars == <<graceful, deadline, requested, trigger, calls>>
mainVars == <<reuseport, main, at, code, callback>>
vars == <<mainVars, poolVars, stopVars, faults>>

NoCall == [by |-> -1, at |-> 0, step |-> "none"]

Init ==
  /\ reuseport \in BOOLEAN
  /\ main = "listen" /\ at = 1 /\ code = 0 /\ callback = FALSE
  /\ listener = [r \in Reactors |-> "none"]
  /\ conns = [r \in Reactors |-> 0]
  /\ loop = [r \in Reactors |-> "none"]
  /\ running = [r \in Reactors |-> FALSE]
  /\ graceful = [r \in Reactors |-> FALSE]
  /\ deadline = [r \in Reactors |-> "unset"]
  /\ requested = FALSE /\ trigger = NoCall /\ calls = 0 /\ faults = 0

Busy(t) == trigger.by = t
Fault == faults < MaxFaults /\ faults' = faults + 1

\* The next reactor of a loop over them, or the next step of run().
NextReactor(step) ==
  IF at < Last THEN at' = at + 1 /\ UNCHANGED main ELSE at' = 1 /\ main' = step

-----------------------------------------------------------------------------
(* run() *)

\* start_listening: one listener for each reactor.
Listen ==
  /\ main = "listen" /\ reuseport
  /\ listener' = [listener EXCEPT ![at] = "open"]
  /\ NextReactor("setup")
  /\ UNCHANGED <<reuseport, code, callback, conns, loop, running, stopVars, faults>>

\* Without reuseport the listener lives until the end of its block, before
\* the threads begin; its watch stays registered.
ListenSingle ==
  /\ main = "listen" /\ ~reuseport
  /\ listener' = [listener EXCEPT ![1] = "closed"]
  /\ main' = "setup"
  /\ UNCHANGED <<reuseport, at, code, callback, conns, loop, running, stopVars, faults>>

\* Mutant: a listener that cannot be opened is passed over.
ListenGoesOn ==
  /\ main = "listen" /\ Fault
  /\ NextReactor("setup")
  /\ UNCHANGED <<reuseport, code, callback, poolVars, stopVars>>

\* A listener that cannot be opened or registered ends run() with 1; those
\* opened before it stay open.
ListenFails ==
  /\ main = "listen" /\ Fault
  /\ main' = "returned" /\ code' = 1
  /\ UNCHANGED <<reuseport, at, callback, poolVars, stopVars>>

\* setup_signal_handlers and set_shutdown_callback; then on_start runs.
Setup ==
  /\ main = "setup"
  /\ callback' = TRUE /\ main' = "on_start"
  /\ UNCHANGED <<reuseport, at, code, poolVars, stopVars, faults>>

OnStartEnds ==
  /\ main = "on_start" /\ ~Busy(Main)
  /\ main' = "start"
  /\ UNCHANGED <<reuseport, at, code, callback, poolVars, stopVars, faults>>

\* reactor_pool::start
StartThread ==
  /\ main = "start"
  /\ loop' = [loop EXCEPT ![at] = "begun"]
  /\ NextReactor("wait")
  /\ UNCHANGED <<reuseport, code, callback, listener, conns, running, stopVars, faults>>

\* A thread cannot be had: the exception leaves run(), and ~reactor_pool stops
\* and joins those that have begun.
StartFails ==
  /\ main = "start" /\ Fault
  /\ main' = "stop" /\ at' = 1 /\ code' = -1
  /\ UNCHANGED <<reuseport, callback, poolVars, stopVars>>

\* Mutant: only the first reactor is stopped.
StopFirst ==
  /\ main = "stop"
  /\ running' = [running EXCEPT ![1] = FALSE]
  /\ main' = "wait" /\ at' = 1
  /\ UNCHANGED <<reuseport, code, callback, listener, conns, loop, stopVars, faults>>

\* reactor_pool::stop, in the destructor
Stop ==
  /\ main = "stop"
  /\ running' = [running EXCEPT ![at] = FALSE]
  /\ NextReactor("wait")
  /\ UNCHANGED <<reuseport, code, callback, listener, conns, loop, stopVars, faults>>

\* Mutant: run() goes by the flag of the reactor instead of joining its thread.
WaitForFlag ==
  /\ main = "wait" /\ loop[at] # "begun" /\ (graceful[at] \/ ~running[at])
  /\ NextReactor("returned")
  /\ UNCHANGED <<reuseport, code, callback, poolVars, stopVars, faults>>

\* reactor_pool::wait joins the threads in order; then the pool is destroyed.
Wait ==
  /\ main = "wait" /\ loop[at] \in {"none", "ended", "failed"}
  /\ NextReactor("returned")
  /\ UNCHANGED <<reuseport, code, callback, poolVars, stopVars, faults>>

-----------------------------------------------------------------------------
(* The thread of a reactor (worker_thread and the reactor's run()). *)

\* run() sets running_, also after a stop().
Enter(r) ==
  /\ loop[r] = "begun"
  /\ loop' = [loop EXCEPT ![r] = "running"]
  /\ running' = [running EXCEPT ![r] = TRUE]
  /\ UNCHANGED <<mainVars, listener, conns, stopVars, faults>>

HasFds(r) == listener[r] # "none" \/ conns[r] > 0

\* The loop is to end: stopped, nothing left to wait for, or out of time.
MustLeave(r) ==
  \/ ~running[r]
  \/ graceful[r] /\ (~HasFds(r) \/ deadline[r] \in {"unset", "passed"})

\* The end of the loop; a graceful one has closed what was left.
Leave(r) ==
  /\ loop[r] = "running" /\ ~Busy(r) /\ MustLeave(r)
  /\ loop' = [loop EXCEPT ![r] = "ended"]
  /\ running' = [running EXCEPT ![r] = FALSE]
  /\ listener' = [listener EXCEPT ![r] = IF running[r] THEN "none" ELSE @]
  /\ conns' = [conns EXCEPT ![r] = IF running[r] THEN 0 ELSE @]
  /\ UNCHANGED <<mainVars, stopVars, faults>>

\* epoll_wait fails: the thread ends and says so on stderr; the listener stays
\* open, with nobody behind it.
LoopFails(r) ==
  /\ loop[r] = "running" /\ ~Busy(r) /\ Fault
  /\ loop' = [loop EXCEPT ![r] = "failed"]
  /\ running' = [running EXCEPT ![r] = FALSE]
  /\ listener' = [listener EXCEPT ![r] = IF @ = "open" THEN "orphan" ELSE @]
  /\ UNCHANGED <<mainVars, conns, stopVars>>

Accept(r) ==
  /\ loop[r] = "running" /\ ~Busy(r) /\ listener[r] = "open"
  /\ conns[r] < MaxConnections
  /\ conns' = [conns EXCEPT ![r] = @ + 1]
  /\ UNCHANGED <<mainVars, listener, loop, running, stopVars, faults>>

Finish(r) ==
  /\ loop[r] = "running" /\ ~Busy(r) /\ conns[r] > 0
  /\ conns' = [conns EXCEPT ![r] = @ - 1]
  /\ UNCHANGED <<mainVars, listener, loop, running, stopVars, faults>>

-----------------------------------------------------------------------------
(* Shutdown *)

\* A handler on a reactor with a connection, or on_start.
MayCall(t) ==
  IF t = Main THEN main = "on_start" ELSE loop[t] = "running" /\ conns[t] > 0

\* trigger_shutdown: the callback goes through the pool.
Trigger(t) ==
  /\ MayCall(t) /\ trigger = NoCall /\ callback /\ calls < MaxTriggers
  /\ requested' = TRUE
  /\ trigger' = [by |-> t, at |-> 1, step |-> "flag"]
  /\ calls' = calls + 1
  /\ UNCHANGED <<mainVars, poolVars, graceful, deadline, faults>>

\* reactor.graceful_stop: the flag
TriggerFlag ==
  /\ trigger.step = "flag"
  /\ graceful' = [graceful EXCEPT ![trigger.at] = TRUE]
  /\ trigger' = [trigger EXCEPT !.step = "deadline"]
  /\ UNCHANGED <<mainVars, poolVars, deadline, requested, calls, faults>>

\* Mutant: the call ends with the first reactor.
TriggerFirst ==
  /\ trigger.step = "deadline"
  /\ deadline' = [deadline EXCEPT ![trigger.at] = "set"]
  /\ trigger' = NoCall
  /\ UNCHANGED <<mainVars, poolVars, graceful, requested, calls, faults>>

\* and then the deadline, and the next reactor
TriggerDeadline ==
  /\ trigger.step = "deadline"
  /\ deadline' = [deadline EXCEPT ![trigger.at] = "set"]
  /\ trigger' = IF trigger.at < Last
                THEN [trigger EXCEPT !.at = @ + 1, !.step = "flag"] ELSE NoCall
  /\ UNCHANGED <<mainVars, poolVars, graceful, requested, calls, faults>>

DeadlinePasses(r) ==
  /\ deadline[r] = "set"
  /\ deadline' = [deadline EXCEPT ![r] = "passed"]
  /\ UNCHANGED <<mainVars, poolVars, graceful, requested, trigger, calls, faults>>

\* signal_handler, once it is installed
Signal ==
  /\ callback /\ main # "returned" /\ ~requested
  /\ requested' = TRUE
  /\ UNCHANGED <<mainVars, poolVars, graceful, deadline, trigger, calls, faults>>

-----------------------------------------------------------------------------
Run == Listen \/ ListenSingle \/ Setup \/ OnStartEnds \/ StartThread \/ Stop \/ Wait
Work(r) == Enter(r) \/ Leave(r)
CallSteps == TriggerFlag \/ TriggerDeadline

Next ==
  \/ Run \/ ListenFails \/ StartFails \/ CallSteps \/ Signal
  \/ \E r \in Reactors : Work(r) \/ LoopFails(r) \/ Accept(r) \/ Finish(r) \/ DeadlinePasses(r)
  \/ \E t \in Reactors \union {Main} : Trigger(t)

Spec == Init /\ [][Next]_vars

\* The threads run and time passes; connections need not come or finish.
FairSpec ==
  /\ Spec /\ WF_vars(Run) /\ WF_vars(CallSteps)
  /\ \A r \in Reactors : WF_vars(Work(r)) /\ WF_vars(DeadlinePasses(r))

-----------------------------------------------------------------------------
TypeOK ==
  /\ main \in {"listen", "setup", "on_start", "start", "stop", "wait", "returned"}
  /\ at \in Reactors /\ code \in {-1, 0, 1}
  /\ listener \in [Reactors -> {"none", "open", "orphan", "closed"}]
  /\ conns \in [Reactors -> 0 .. MaxConnections]
  /\ loop \in [Reactors -> {"none", "begun", "running", "ended", "failed"}]
  /\ running \in [Reactors -> BOOLEAN] /\ graceful \in [Reactors -> BOOLEAN]
  /\ deadline \in [Reactors -> {"unset", "set", "passed"}]
  /\ trigger.by \in Reactors \union {Main, -1}
  /\ calls \in 0 .. MaxTriggers /\ faults \in 0 .. MaxFaults

\* run() does not return, and its pool is not destroyed, while the shutdown
\* callback, called by on_start or by a handler, is going through the pool: the
\* thread of the call is one that run() is or waits for.  A call that others
\* make of the callback, which stays installed after run(), is not in the model.
PoolOutlivesCallback == trigger # NoCall => main # "returned"

\* A server with reuseport serves on all its reactors or on none: no loop
\* runs without its listener, whichever of the listeners could not be opened.
AllOrNothing ==
  reuseport => \A r \in Reactors : loop[r] = "running" => listener[r] = "open"

\* When run() returns 0, which it does after a shutdown, every loop has failed
\* or has ended with nothing left open on its reactor, whatever has failed
\* elsewhere.
ClosedAtEnd ==
  main = "returned" /\ code = 0 =>
    \A r \in Reactors : loop[r] = "failed" \/ (loop[r] = "ended" /\ ~HasFds(r))

\* The lifecycle is well typed, the pool outlives the calls that on_start and
\* handlers make through it, and at the end nothing is open on the reactors
\* whose own loops have not failed.
LifecycleSafe == TypeOK /\ PoolOutlivesCallback /\ ClosedAtEnd

\* A shutdown that is triggered ends run(), whenever it comes: before the
\* threads have begun, while some run, or after one has failed.
TriggerEndsRun == trigger # NoCall ~> main = "returned"

\* If a thread cannot be begun, run() ends all the same, provided that the
\* threads before it have entered their loops (a stop() before that is lost).
FailedStartEnds ==
  main = "stop" /\ at = 1 /\ (\A r \in Reactors : loop[r] # "begun") ~> main = "returned"

\* docs/HTTP_SERVER.md:406: SIGINT and SIGTERM trigger graceful shutdown.
SignalEndsRun == requested ~> main = "returned"
=============================================================================
