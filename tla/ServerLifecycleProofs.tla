------------------------ MODULE ServerLifecycleProofs ------------------------
(***************************************************************************)
(* However many reactors there are and whatever fails: they serve all or   *)
(* none, the pool outlives the calls that go through it, and a server that *)
(* has been shut down has nothing open on a reactor that has not failed.   *)
(***************************************************************************)
EXTENDS ServerLifecycle, FiniteSetTheorems, TLAPS

\* How far run() has come, and what the threads can be doing by then.
Ordered ==
  /\ main \in {"listen", "setup"} => ~callback
  /\ main \in {"setup", "on_start"} => at = 1
  /\ main = "listen" /\ ~reuseport => at = 1
  /\ main \in {"listen", "setup", "on_start"} => \A r \in Reactors : loop[r] = "none"
  /\ main = "start" => \A r \in Reactors : r < at <=> loop[r] # "none"
  /\ main = "wait" => \A r \in Reactors : r < at => loop[r] \in {"none", "ended", "failed"}
  /\ main = "returned" => \A r \in Reactors : loop[r] \in {"none", "ended", "failed"}
  /\ main \in {"wait", "returned"} /\ code = 0 => \A r \in Reactors : loop[r] # "none"
  /\ main \in {"listen", "setup", "on_start", "start"} => code = 0
  /\ main = "stop" => code = -1

\* A call of trigger_shutdown is made by on_start, or by a loop that goes on.
CallUnderWay ==
  trigger # NoCall =>
    /\ trigger \in [by : Reactors \union {Main}, at : Reactors, step : {"flag", "deadline"}]
    /\ callback
    /\ trigger.by = Main => main = "on_start"
    /\ trigger.by # Main => loop[trigger.by] = "running"

\* With reuseport, the listeners that have been opened by now.
Opened ==
  reuseport =>
    /\ main = "listen" => \A r \in Reactors : r < at => listener[r] = "open"
    /\ main \notin {"listen", "returned"} =>
         \A r \in Reactors : loop[r] \notin {"ended", "failed"} => listener[r] = "open"

\* Unless a thread could not be begun, nobody stops a reactor, and a loop that
\* does not fail ends by a graceful stop.
EndsGracefully ==
  code = 0 =>
    \A r \in Reactors : /\ loop[r] = "running" => running[r]
                        /\ loop[r] = "ended" => ~HasFds(r)

Inv == TypeOK /\ Ordered /\ CallUnderWay /\ Opened /\ EndsGracefully

LEMMA LastIs == LifecycleAssumption => Last \in Nat \ {0} /\ Reactors = 1 .. Last
BY FS_CardinalityType DEF LifecycleAssumption, Last

LEMMA InvInit == LifecycleAssumption /\ Init => Inv
BY LastIs DEF Init, Inv, TypeOK, Ordered, CallUnderWay, Opened, EndsGracefully,
   LifecycleAssumption, NoCall

USE DEF mainVars, poolVars, stopVars, Fault, NextReactor, NoCall, Busy, Main

LEMMA ListenKeeps ==
  ASSUME LifecycleAssumption, Inv, Listen
  PROVE  Inv'
<1>. USE LastIs DEF LifecycleAssumption, Inv, Listen
<1>1. TypeOK'
  BY DEF TypeOK
<1>2. Ordered'
  BY DEF TypeOK, Ordered
<1>3. CallUnderWay'
  BY DEF TypeOK, Ordered, CallUnderWay
<1>4. Opened'
  BY DEF TypeOK, Ordered, Opened
<1>5. EndsGracefully'
  BY DEF TypeOK, Ordered, EndsGracefully, HasFds
<1>. QED  BY <1>1, <1>2, <1>3, <1>4, <1>5

LEMMA ListenSingleKeeps ==
  ASSUME LifecycleAssumption, Inv, ListenSingle
  PROVE  Inv'
<1>. USE LastIs DEF LifecycleAssumption, Inv, ListenSingle
<1>1. TypeOK'
  BY DEF TypeOK
<1>2. Ordered'
  BY DEF TypeOK, Ordered
<1>3. CallUnderWay'
  BY DEF TypeOK, Ordered, CallUnderWay
<1>4. Opened'
  BY DEF TypeOK, Ordered, Opened
<1>5. EndsGracefully'
  BY DEF TypeOK, Ordered, EndsGracefully, HasFds
<1>. QED  BY <1>1, <1>2, <1>3, <1>4, <1>5

LEMMA ListenFailsKeeps ==
  ASSUME LifecycleAssumption, Inv, ListenFails
  PROVE  Inv'
<1>. USE LastIs DEF LifecycleAssumption, Inv, ListenFails
<1>1. TypeOK'
  BY DEF TypeOK
<1>2. Ordered'
  BY DEF TypeOK, Ordered
<1>3. CallUnderWay'
  BY DEF TypeOK, Ordered, CallUnderWay
<1>4. Opened'
  BY DEF TypeOK, Ordered, Opened
<1>5. EndsGracefully'
  BY DEF TypeOK, Ordered, EndsGracefully, HasFds
<1>. QED  BY <1>1, <1>2, <1>3, <1>4, <1>5

LEMMA SetupKeeps ==
  ASSUME LifecycleAssumption, Inv, Setup
  PROVE  Inv'
<1>. USE LastIs DEF LifecycleAssumption, Inv, Setup
<1>1. TypeOK'
  BY DEF TypeOK
<1>2. Ordered'
  BY DEF TypeOK, Ordered
<1>3. CallUnderWay'
  BY DEF TypeOK, Ordered, CallUnderWay
<1>4. Opened'
  BY DEF TypeOK, Ordered, Opened
<1>5. EndsGracefully'
  BY DEF TypeOK, Ordered, EndsGracefully, HasFds
<1>. QED  BY <1>1, <1>2, <1>3, <1>4, <1>5

LEMMA OnStartEndsKeeps ==
  ASSUME LifecycleAssumption, Inv, OnStartEnds
  PROVE  Inv'
<1>. USE LastIs DEF LifecycleAssumption, Inv, OnStartEnds
<1>1. TypeOK'
  BY DEF TypeOK
<1>2. Ordered'
  BY DEF TypeOK, Ordered
<1>3. CallUnderWay'
  BY DEF TypeOK, Ordered, CallUnderWay
<1>4. Opened'
  BY DEF TypeOK, Ordered, Opened
<1>5. EndsGracefully'
  BY DEF TypeOK, Ordered, EndsGracefully, HasFds
<1>. QED  BY <1>1, <1>2, <1>3, <1>4, <1>5

LEMMA StartThreadKeeps ==
  ASSUME LifecycleAssumption, Inv, StartThread
  PROVE  Inv'
<1>. USE LastIs DEF LifecycleAssumption, Inv, StartThread
<1>1. TypeOK'
  BY DEF TypeOK
<1>2. Ordered'
  BY DEF TypeOK, Ordered
<1>3. CallUnderWay'
  BY DEF TypeOK, Ordered, CallUnderWay
<1>4. Opened'
  BY DEF TypeOK, Ordered, Opened
<1>5. EndsGracefully'
  BY DEF TypeOK, Ordered, EndsGracefully, HasFds
<1>. QED  BY <1>1, <1>2, <1>3, <1>4, <1>5

LEMMA StartFailsKeeps ==
  ASSUME LifecycleAssumption, Inv, StartFails
  PROVE  Inv'
<1>. USE LastIs DEF LifecycleAssumption, Inv, StartFails
<1>1. TypeOK'
  BY DEF TypeOK
<1>2. Ordered'
  BY DEF TypeOK, Ordered
<1>3. CallUnderWay'
  BY DEF TypeOK, Ordered, CallUnderWay
<1>4. Opened'
  BY DEF TypeOK, Ordered, Opened
<1>5. EndsGracefully'
  BY DEF TypeOK, Ordered, EndsGracefully, HasFds
<1>. QED  BY <1>1, <1>2, <1>3, <1>4, <1>5

LEMMA StopKeeps ==
  ASSUME LifecycleAssumption, Inv, Stop
  PROVE  Inv'
<1>. USE LastIs DEF LifecycleAssumption, Inv, Stop
<1>1. TypeOK'
  BY DEF TypeOK
<1>2. Ordered'
  BY DEF TypeOK, Ordered
<1>3. CallUnderWay'
  BY DEF TypeOK, Ordered, CallUnderWay
<1>4. Opened'
  BY DEF TypeOK, Ordered, Opened
<1>5. EndsGracefully'
  BY DEF TypeOK, Ordered, EndsGracefully, HasFds
<1>. QED  BY <1>1, <1>2, <1>3, <1>4, <1>5

LEMMA WaitKeeps ==
  ASSUME LifecycleAssumption, Inv, Wait
  PROVE  Inv'
<1>. USE LastIs DEF LifecycleAssumption, Inv, Wait
<1>1. TypeOK'
  BY DEF TypeOK
<1>2. Ordered'
  BY DEF TypeOK, Ordered
<1>3. CallUnderWay'
  BY DEF TypeOK, Ordered, CallUnderWay
<1>4. Opened'
  BY DEF TypeOK, Ordered, Opened
<1>5. EndsGracefully'
  BY DEF TypeOK, Ordered, EndsGracefully, HasFds
<1>. QED  BY <1>1, <1>2, <1>3, <1>4, <1>5

LEMMA TriggerFlagKeeps ==
  ASSUME LifecycleAssumption, Inv, TriggerFlag
  PROVE  Inv'
<1>. USE LastIs DEF LifecycleAssumption, Inv, TriggerFlag
<1>0. trigger.step # "none" /\ trigger # NoCall
  OBVIOUS
<1>6. /\ trigger \in [by : Reactors \union {Main}, at : Reactors, step : {"flag", "deadline"}]
      /\ callback
      /\ trigger.by = Main => main = "on_start"
      /\ trigger.by # Main => loop[trigger.by] = "running"
  BY <1>0 DEF CallUnderWay
<1>1. TypeOK'
  BY <1>6 DEF TypeOK
<1>2. Ordered'
  BY DEF TypeOK, Ordered
<1>3. CallUnderWay'
  BY <1>6 DEF CallUnderWay
<1>4. Opened'
  BY DEF TypeOK, Ordered, Opened
<1>5. EndsGracefully'
  BY DEF TypeOK, Ordered, EndsGracefully, HasFds
<1>. QED  BY <1>1, <1>2, <1>3, <1>4, <1>5

LEMMA TriggerDeadlineKeeps ==
  ASSUME LifecycleAssumption, Inv, TriggerDeadline
  PROVE  Inv'
<1>. USE LastIs DEF LifecycleAssumption, Inv, TriggerDeadline
<1>0. trigger.step # "none" /\ trigger # NoCall
  OBVIOUS
<1>6. /\ trigger \in [by : Reactors \union {Main}, at : Reactors, step : {"flag", "deadline"}]
      /\ callback
      /\ trigger.by = Main => main = "on_start"
      /\ trigger.by # Main => loop[trigger.by] = "running"
  BY <1>0 DEF CallUnderWay
<1>1. TypeOK'
  BY <1>6 DEF TypeOK
<1>2. Ordered'
  BY DEF TypeOK, Ordered
<1>3. CallUnderWay'
  <2>1. CASE trigger.at < Last
    <3>1. trigger' = [trigger EXCEPT !.at = @ + 1, !.step = "flag"] /\ trigger.at + 1 \in Reactors
      BY <1>6, <2>1
    <3>2. /\ trigger' \in [by : Reactors \union {Main}, at : Reactors, step : {"flag", "deadline"}]
          /\ trigger'.by = trigger.by
      BY <1>6, <3>1
    <3>. QED  BY <1>6, <3>2 DEF CallUnderWay
  <2>2. CASE ~(trigger.at < Last)
    BY <2>2 DEF CallUnderWay
  <2>. QED  BY <2>1, <2>2
<1>4. Opened'
  BY DEF TypeOK, Ordered, Opened
<1>5. EndsGracefully'
  BY DEF TypeOK, Ordered, EndsGracefully, HasFds
<1>. QED  BY <1>1, <1>2, <1>3, <1>4, <1>5

LEMMA SignalKeeps ==
  ASSUME LifecycleAssumption, Inv, Signal
  PROVE  Inv'
<1>. USE LastIs DEF LifecycleAssumption, Inv, Signal
<1>1. TypeOK'
  BY DEF TypeOK
<1>2. Ordered'
  BY DEF TypeOK, Ordered
<1>3. CallUnderWay'
  BY DEF TypeOK, Ordered, CallUnderWay
<1>4. Opened'
  BY DEF TypeOK, Ordered, Opened
<1>5. EndsGracefully'
  BY DEF TypeOK, Ordered, EndsGracefully, HasFds
<1>. QED  BY <1>1, <1>2, <1>3, <1>4, <1>5

LEMMA EnterKeeps ==
  ASSUME LifecycleAssumption, Inv, NEW r \in Reactors, Enter(r)
  PROVE  Inv'
<1>. USE LastIs DEF LifecycleAssumption, Inv, Enter
<1>1. TypeOK'
  BY DEF TypeOK
<1>2. Ordered'
  BY DEF TypeOK, Ordered
<1>3. CallUnderWay'
  BY DEF TypeOK, Ordered, CallUnderWay
<1>4. Opened'
  BY DEF TypeOK, Ordered, Opened
<1>5. EndsGracefully'
  BY DEF TypeOK, Ordered, EndsGracefully, HasFds
<1>. QED  BY <1>1, <1>2, <1>3, <1>4, <1>5

LEMMA LeaveKeeps ==
  ASSUME LifecycleAssumption, Inv, NEW r \in Reactors, Leave(r)
  PROVE  Inv'
<1>. USE LastIs DEF LifecycleAssumption, Inv, Leave
<1>1. TypeOK'
  <2>1. /\ loop' \in [Reactors -> {"none", "begun", "running", "ended", "failed"}]
        /\ running' \in [Reactors -> BOOLEAN]
    BY DEF TypeOK
  <2>2. listener' \in [Reactors -> {"none", "open", "orphan", "closed"}]
    BY DEF TypeOK
  <2>3. conns' \in [Reactors -> 0 .. MaxConnections]
    BY DEF TypeOK
  <2>. QED  BY <2>1, <2>2, <2>3 DEF TypeOK
<1>2. Ordered'
  BY DEF TypeOK, Ordered
<1>3. CallUnderWay'
  BY DEF TypeOK, Ordered, CallUnderWay
<1>4. Opened'
  BY DEF TypeOK, Ordered, Opened
<1>5. EndsGracefully'
  BY DEF TypeOK, Ordered, EndsGracefully, HasFds
<1>. QED  BY <1>1, <1>2, <1>3, <1>4, <1>5

LEMMA LoopFailsKeeps ==
  ASSUME LifecycleAssumption, Inv, NEW r \in Reactors, LoopFails(r)
  PROVE  Inv'
<1>. USE LastIs DEF LifecycleAssumption, Inv, LoopFails
<1>1. TypeOK'
  <2>1. /\ loop' \in [Reactors -> {"none", "begun", "running", "ended", "failed"}]
        /\ running' \in [Reactors -> BOOLEAN]
    BY DEF TypeOK
  <2>2. listener' \in [Reactors -> {"none", "open", "orphan", "closed"}]
    BY DEF TypeOK
  <2>. QED  BY <2>1, <2>2 DEF TypeOK
<1>2. Ordered'
  BY DEF TypeOK, Ordered
<1>3. CallUnderWay'
  BY DEF TypeOK, Ordered, CallUnderWay
<1>4. Opened'
  BY DEF TypeOK, Ordered, Opened
<1>5. EndsGracefully'
  BY DEF TypeOK, Ordered, EndsGracefully, HasFds
<1>. QED  BY <1>1, <1>2, <1>3, <1>4, <1>5

LEMMA AcceptKeeps ==
  ASSUME LifecycleAssumption, Inv, NEW r \in Reactors, Accept(r)
  PROVE  Inv'
<1>. USE LastIs DEF LifecycleAssumption, Inv, Accept
<1>1. TypeOK'
  <2>1. conns' \in [Reactors -> 0 .. MaxConnections]
    BY DEF TypeOK
  <2>. QED  BY <2>1 DEF TypeOK
<1>2. Ordered'
  BY DEF TypeOK, Ordered
<1>3. CallUnderWay'
  BY DEF TypeOK, Ordered, CallUnderWay
<1>4. Opened'
  BY DEF TypeOK, Ordered, Opened
<1>5. EndsGracefully'
  BY DEF TypeOK, Ordered, EndsGracefully, HasFds
<1>. QED  BY <1>1, <1>2, <1>3, <1>4, <1>5

LEMMA FinishKeeps ==
  ASSUME LifecycleAssumption, Inv, NEW r \in Reactors, Finish(r)
  PROVE  Inv'
<1>. USE LastIs DEF LifecycleAssumption, Inv, Finish
<1>1. TypeOK'
  <2>0. conns \in [Reactors -> 0 .. MaxConnections] /\ conns[r] > 0
    BY DEF TypeOK
  <2>1. conns[r] - 1 \in 0 .. MaxConnections
    BY <2>0
  <2>2. conns' \in [Reactors -> 0 .. MaxConnections]
    BY <2>0, <2>1
  <2>. QED  BY <2>2 DEF TypeOK
<1>2. Ordered'
  BY DEF TypeOK, Ordered
<1>3. CallUnderWay'
  BY DEF TypeOK, Ordered, CallUnderWay
<1>4. Opened'
  BY DEF TypeOK, Ordered, Opened
<1>5. EndsGracefully'
  BY DEF TypeOK, Ordered, EndsGracefully, HasFds
<1>. QED  BY <1>1, <1>2, <1>3, <1>4, <1>5

LEMMA DeadlinePassesKeeps ==
  ASSUME LifecycleAssumption, Inv, NEW r \in Reactors, DeadlinePasses(r)
  PROVE  Inv'
<1>. USE LastIs DEF LifecycleAssumption, Inv, DeadlinePasses
<1>1. TypeOK'
  BY DEF TypeOK
<1>2. Ordered'
  BY DEF TypeOK, Ordered
<1>3. CallUnderWay'
  BY DEF TypeOK, Ordered, CallUnderWay
<1>4. Opened'
  BY DEF TypeOK, Ordered, Opened
<1>5. EndsGracefully'
  BY DEF TypeOK, Ordered, EndsGracefully, HasFds
<1>. QED  BY <1>1, <1>2, <1>3, <1>4, <1>5

LEMMA TriggerKeeps ==
  ASSUME LifecycleAssumption, Inv, NEW t \in Reactors \union {Main}, Trigger(t)
  PROVE  Inv'
<1>. USE LastIs DEF LifecycleAssumption, Inv, Trigger, MayCall
<1>1. TypeOK'
  BY DEF TypeOK
<1>2. Ordered'
  BY DEF TypeOK, Ordered
<1>3. CallUnderWay'
  BY DEF TypeOK, Ordered, CallUnderWay
<1>4. Opened'
  BY DEF TypeOK, Ordered, Opened
<1>5. EndsGracefully'
  BY DEF TypeOK, Ordered, EndsGracefully, HasFds
<1>. QED  BY <1>1, <1>2, <1>3, <1>4, <1>5

-----------------------------------------------------------------------------
LEMMA InvNext == LifecycleAssumption /\ Inv /\ [Next]_vars => Inv'
<1>. SUFFICES ASSUME LifecycleAssumption, Inv, [Next]_vars PROVE Inv'
  OBVIOUS
<1>1. CASE Run
  BY <1>1, ListenKeeps, ListenSingleKeeps, SetupKeeps, OnStartEndsKeeps, StartThreadKeeps,
     StopKeeps, WaitKeeps DEF Run
<1>2. CASE ListenFails \/ StartFails \/ CallSteps \/ Signal
  BY <1>2, ListenFailsKeeps, StartFailsKeeps, TriggerFlagKeeps, TriggerDeadlineKeeps,
     SignalKeeps DEF CallSteps
<1>3. CASE \E r \in Reactors : Work(r) \/ LoopFails(r) \/ Accept(r) \/ Finish(r) \/ DeadlinePasses(r)
  BY <1>3, EnterKeeps, LeaveKeeps, LoopFailsKeeps, AcceptKeeps, FinishKeeps,
     DeadlinePassesKeeps DEF Work
<1>4. CASE \E t \in Reactors \union {Main} : Trigger(t)
  BY <1>4, TriggerKeeps
<1>5. CASE UNCHANGED vars
  BY <1>5 DEF vars, Inv, TypeOK, Ordered, CallUnderWay, Opened, EndsGracefully, HasFds
<1>. QED  BY <1>1, <1>2, <1>3, <1>4, <1>5 DEF Next

LEMMA InvAlways == ASSUME LifecycleAssumption PROVE Spec => []Inv
<1>1. Init => Inv
  BY InvInit
<1>2. Inv /\ [Next]_vars => Inv'
  BY InvNext
<1>. QED  BY <1>1, <1>2, PTL DEF Spec

\* The pool that a shutdown callback goes through, called by on_start or by a
\* handler, is there until the call ends; and run() returns 0 only when every
\* loop has failed or has ended and closed what it had, whatever has failed on
\* the other reactors (http_server.cpp:326-375, reactor_pool.cpp:28-70).
THEOREM LifecycleCorrect == ASSUME LifecycleAssumption PROVE Spec => []LifecycleSafe
<1>1. Inv => LifecycleSafe
  <2>. SUFFICES ASSUME Inv PROVE LifecycleSafe
    OBVIOUS
  <2>1. PoolOutlivesCallback
    BY DEF Inv, CallUnderWay, Ordered, PoolOutlivesCallback
  <2>2. ClosedAtEnd
    BY DEF Inv, Ordered, EndsGracefully, ClosedAtEnd
  <2>. QED  BY <2>1, <2>2 DEF Inv, LifecycleSafe
<1>. QED  BY <1>1, InvAlways, PTL

\* With reuseport no loop runs without its listener, whatever fails
\* (reactor_pool.hpp:132-160).
THEOREM AllOrNothingCorrect == ASSUME LifecycleAssumption PROVE Spec => []AllOrNothing
<1>1. Inv => AllOrNothing
  <2>. SUFFICES ASSUME Inv PROVE AllOrNothing
    OBVIOUS
  <2>1. \A r \in Reactors : loop[r] = "running" => main \notin {"listen", "returned"}
    BY DEF Inv, Ordered
  <2>. QED  BY <2>1 DEF Inv, Opened, AllOrNothing
<1>. QED  BY <1>1, InvAlways, PTL
=============================================================================
