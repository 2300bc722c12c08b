-------------------------- MODULE ReactorTasksProofs --------------------------
(***************************************************************************)
(* The reactor never sleeps on a task or on a stop, for every number of    *)
(* threads, every capacity and every number of calls.                      *)
(***************************************************************************)
EXTENDS ReactorTasks, SequenceTheorems, FiniteSetTheorems, TLAPS

Entries == [task : Tasks, published : BOOLEAN]

USE DEF flags, loop, callers, Goto, ClientTo, WriteEventfd

-----------------------------------------------------------------------------
(* Types. *)

LEMMA TypeInit == Init => TypeOK
<1>. SUFFICES ASSUME Init PROVE TypeOK
  OBVIOUS
<1>1. queue \in Seq(Entries)
  BY EmptySeq DEF Init
<1>2. calls \in [Schedulers -> 0 .. MaxCalls]
  BY SchedulerAssumption DEF Init
<1>3. client \in [Schedulers \union Stoppers -> ClientLabels]
  BY DEF Init, ClientLabels
<1>. QED  BY <1>1, <1>2, <1>3 DEF Init, TypeOK, PcLabels, Entries

\* What a push leaves behind.
LEMMA PushTypes ==
  ASSUME TypeOK, NEW t \in Schedulers, Push(t)
  PROVE  /\ queue' \in Seq(Entries) /\ Len(queue') = Len(queue) + 1
         /\ calls' \in [Schedulers -> 0 .. MaxCalls] /\ accepted' \subseteq Tasks
<1>. USE SchedulerAssumption
<1>1. calls[t] + 1 \in 1 .. MaxCalls
  BY DEF TypeOK, Push, MaySchedule
<1>2. [task |-> <<t, calls[t] + 1>>, published |-> FALSE] \in Entries
  BY <1>1 DEF Tasks, Entries
<1>3. queue \in Seq(Entries)
  BY DEF TypeOK, Entries
<1>4. /\ queue' \in Seq(Entries) /\ Len(queue') = Len(queue) + 1
  BY <1>2, <1>3, AppendProperties DEF Push
<1>5. calls' \in [Schedulers -> 0 .. MaxCalls]
  BY <1>1 DEF TypeOK, Push
<1>6. accepted' \subseteq Tasks
  BY <1>1 DEF TypeOK, Push, Tasks
<1>. QED  BY <1>4, <1>5, <1>6

\* Publishing changes no task and no length.
LEMMA PublishTypes ==
  ASSUME TypeOK, NEW t \in Schedulers, Publish(t)
  PROVE  queue' \in Seq(Entries) /\ Len(queue') = Len(queue)
<1>1. queue \in Seq(Entries)
  BY DEF TypeOK, Entries
<1>2. /\ Len(queue) \in Nat /\ DOMAIN queue = 1 .. Len(queue)
      /\ \A i \in DOMAIN queue : queue[i] \in Entries
  BY <1>1, LenProperties, ElementOfSeq
<1>3. queue' \in [1 .. Len(queue) -> Entries]
  BY <1>2 DEF Publish, Entries
<1>4. queue' \in Seq(Entries)
  BY <1>2, <1>3, SeqDef
<1>5. DOMAIN queue' = 1 .. Len(queue)
  BY <1>3
<1>6. Len(queue') = Len(queue)
  BY <1>2, <1>4, <1>5, LenProperties
<1>. QED  BY <1>4, <1>6

\* What a pop leaves behind.
LEMMA PopTypes ==
  ASSUME TypeOK, Pop
  PROVE  /\ queue' \in Seq(Entries) /\ Len(queue') = Len(queue) - 1
         /\ executed' \subseteq Tasks
<1>1. queue \in Seq(Entries) /\ queue # <<>>
  BY DEF TypeOK, Entries, Pop, Poppable
<1>2. /\ Tail(queue) \in Seq(Entries) /\ Len(Tail(queue)) = Len(queue) - 1
      /\ Head(queue) \in Entries
  BY <1>1, HeadTailProperties
<1>. QED  BY <1>2 DEF Pop, TypeOK, Entries

LEMMA TypeStep == TypeOK /\ [Next]_vars => TypeOK'
<1>. SUFFICES ASSUME TypeOK, [Next]_vars PROVE TypeOK'
  OBVIOUS
<1>. USE SchedulerAssumption DEF PcLabels, ClientLabels
<1>1. CASE UNCHANGED vars
  BY <1>1 DEF TypeOK, vars
<1>2. ASSUME NEW t \in Schedulers, Schedule(t) PROVE TypeOK'
  <2>1. CASE Push(t)
    BY <2>1, PushTypes DEF TypeOK, Push, Entries
  <2>2. CASE Reject(t)
    BY <2>2 DEF TypeOK, Reject, MaySchedule
  <2>3. CASE Publish(t)
    BY <2>3, PublishTypes DEF TypeOK, Publish, Entries
  <2>4. CASE Count(t)
    BY <2>4 DEF TypeOK, Count
  <2>5. CASE Cas(t)
    BY <2>5 DEF TypeOK, Cas
  <2>. QED  BY <1>2, <2>1, <2>2, <2>3, <2>4, <2>5 DEF Schedule
<1>3. ASSUME NEW t \in Stoppers, Stop(t) PROVE TypeOK'
  <2>1. client' \in [Schedulers \union Stoppers -> ClientLabels]
    BY <1>3 DEF TypeOK, Stop
  <2>. QED  BY <1>3, <2>1 DEF TypeOK, Stop
<1>4. ASSUME NEW t \in Schedulers \union Stoppers, Write(t) PROVE TypeOK'
  <2>1. client' \in [Schedulers \union Stoppers -> ClientLabels]
    BY <1>4 DEF TypeOK, Write
  <2>. QED  BY <1>4, <2>1 DEF TypeOK, Write
<1>5. CASE Loop
  <2>1. CASE Run \/ Test
    <3>1. pc' \in PcLabels
      BY <2>1 DEF Run, Test
    <3>. QED  BY <2>1, <3>1 DEF TypeOK, Run, Test
  <2>2. CASE Take
    BY <2>2 DEF TypeOK, Take
  <2>3. CASE Clear
    BY <2>3 DEF TypeOK, Clear
  <2>4. CASE Pop
    BY <2>4, PopTypes DEF TypeOK, Pop, Entries
  <2>5. CASE PopEnds \/ TaskReturns
    BY <2>5 DEF TypeOK, PopEnds, TaskReturns
  <2>6. CASE CalculateTimeout
    <3>1. blocks' \in BOOLEAN
      BY <2>6 DEF CalculateTimeout
    <3>. QED  BY <2>6, <3>1 DEF TypeOK, CalculateTimeout
  <2>7. CASE WaitWoken \/ WaitEnds
    BY <2>7 DEF TypeOK, WaitWoken, WaitEnds
  <2>8. CASE Read \/ Rearm
    BY <2>8 DEF TypeOK, Read, Rearm
  <2>. QED  BY <1>5, <2>1, <2>2, <2>3, <2>4, <2>5, <2>6, <2>7, <2>8
            DEF Loop, ProcessTasks, ProcessEvents
<1>. QED  BY <1>1, <1>2, <1>3, <1>4, <1>5 DEF Next

\* The variables keep their types: in particular the count never falls below
\* zero and process_tasks never pops more than it took.
THEOREM TypeCorrect == Spec => []TypeOK
BY TypeInit, TypeStep, PTL DEF Spec

-----------------------------------------------------------------------------
(* The threads between a push and its count. *)

LEMMA UncountedFinite ==
  IsFiniteSet(Uncounted) /\ Cardinality(Uncounted) \in Nat
<1>1. Uncounted \subseteq Schedulers
  BY DEF Uncounted
<1>. QED  BY <1>1, SchedulerAssumption, FS_Subset, FS_CardinalityType

LEMMA UncountedFiniteNext ==
  IsFiniteSet(Uncounted') /\ Cardinality(Uncounted') \in Nat
<1>1. Uncounted' \subseteq Schedulers
  BY DEF Uncounted
<1>. QED  BY <1>1, SchedulerAssumption, FS_Subset, FS_CardinalityType

LEMMA UncountedGrows ==
  ASSUME TypeOK, NEW t \in Schedulers, Push(t)
  PROVE  Cardinality(Uncounted') = Cardinality(Uncounted) + 1
<1>1. t \notin Uncounted /\ Uncounted' = Uncounted \union {t}
  BY DEF TypeOK, Push, MaySchedule, Uncounted
<1>. QED  BY <1>1, UncountedFinite, FS_AddElement

LEMMA UncountedShrinks ==
  ASSUME TypeOK, NEW t \in Schedulers, Count(t)
  PROVE  Cardinality(Uncounted') = Cardinality(Uncounted) - 1
<1>1. t \in Uncounted /\ Uncounted' = Uncounted \ {t}
  BY DEF TypeOK, Count, Uncounted
<1>. QED  BY <1>1, UncountedFinite, FS_RemoveElement

LEMMA UncountedSame ==
  ASSUME TypeOK,
         \/ \E t \in Schedulers : Reject(t) \/ Publish(t) \/ Cas(t)
         \/ \E t \in Stoppers : Stop(t)
         \/ \E t \in Schedulers \union Stoppers : Write(t)
         \/ Loop
  PROVE  Uncounted' = Uncounted
<1>1. CASE Loop
  BY <1>1 DEF Loop, Run, Test, ProcessTasks, Take, Clear, Pop, PopEnds,
              TaskReturns, CalculateTimeout, ProcessEvents, WaitWoken, WaitEnds,
              Read, Rearm, Uncounted
<1>2. ASSUME NEW t \in Schedulers, Reject(t) \/ Publish(t) \/ Cas(t)
      PROVE  Uncounted' = Uncounted
  BY <1>2 DEF TypeOK, Reject, Publish, Cas, Uncounted
<1>3. ASSUME NEW t \in Schedulers \union Stoppers, Stop(t) \/ Write(t)
      PROVE  Uncounted' = Uncounted
  BY <1>3 DEF TypeOK, Stop, Write, Uncounted
<1>. QED  BY <1>1, <1>2, <1>3

-----------------------------------------------------------------------------
(* The wakeup protocol. *)

LEMMA ProtocolInit == Init => WakeupProtocol
<1>. SUFFICES ASSUME Init PROVE WakeupProtocol
  OBVIOUS
<1>1. Uncounted = {}
  BY DEF Init, Uncounted
<1>2. Cardinality(Uncounted) = 0
  BY <1>1, FS_EmptySet
<1>. QED  BY <1>2, TypeInit
          DEF Init, WakeupProtocol, CountsBehind, FlagTells, SleepTells, StopTells

\* A schedule() step.
LEMMA ScheduleStep ==
  ASSUME WakeupProtocol, TypeOK', NEW t \in Schedulers, Schedule(t)
  PROVE  WakeupProtocol'
<1>. DEFINE U == Cardinality(Uncounted)
            U1 == Cardinality(Uncounted')
<1>0. /\ TypeOK /\ (pc \in {"timeout", "wait"} => left = 0)
      /\ CountsBehind /\ FlagTells /\ SleepTells /\ StopTells
  BY DEF WakeupProtocol
<1>1. U \in Nat /\ U1 \in Nat /\ Len(queue) \in Nat /\ Len(queue') \in Nat
  BY <1>0, UncountedFinite, UncountedFiniteNext, LenProperties DEF TypeOK
<1>. USE <1>0, <1>1
<1>2. UNCHANGED <<pc, left, blocks, running, edge, eventfd>>
  BY DEF Schedule, Push, Reject, Publish, Count, Cas
<1>3. Signalled' = Signalled
  BY <1>2 DEF Signalled
<1>4. Writing => Writing'
  BY DEF Schedule, Push, Reject, Publish, Count, Cas, MaySchedule, Writing, TypeOK
<1>5. StopTells'
  BY <1>2, <1>3, <1>4 DEF StopTells
<1>6. CASE Cas(t)
  <2>1. U1 = U /\ UNCHANGED <<pending_count, queue>>
    BY <1>6, UncountedSame DEF Cas
  <2>2. Writing' \/ (needs_wakeup /\ client'[t] = "idle")
    BY <1>6 DEF Cas, Writing, TypeOK
  <2>3. \A u \in Schedulers : u # t => client'[u] = client[u]
    BY <1>6 DEF Cas, TypeOK
  <2>4. CountsBehind'
    BY <1>2, <2>1 DEF CountsBehind
  <2>5. FlagTells'
    BY <1>2, <1>3, <1>4, <2>2 DEF FlagTells
  <2>6. SleepTells'
    BY <1>2, <1>3, <1>4, <2>1, <2>2, <2>3 DEF SleepTells, FlagTells
  <2>. QED  BY <1>2, <1>5, <2>4, <2>5, <2>6 DEF WakeupProtocol
<1>7. CASE ~Cas(t)
  <2>1. needs_wakeup' = needs_wakeup
    BY <1>7 DEF Schedule, Push, Reject, Publish, Count
  <2>2. FlagTells'
    BY <1>2, <1>3, <1>4, <2>1 DEF FlagTells
  <2>3. \A u \in Schedulers : client[u] = "cas" => client'[u] = "cas"
    BY <1>7 DEF Schedule, Push, Reject, Publish, Count, MaySchedule, TypeOK
  <2>4. CASE Push(t)
    <3>1. U1 = U + 1 /\ Len(queue') = Len(queue) + 1 /\ pending_count' = pending_count
      BY <2>4, UncountedGrows, PushTypes DEF Push
    <3>2. CountsBehind'
      BY <1>2, <3>1 DEF CountsBehind, TypeOK
    <3>3. SleepTells'
      BY <1>2, <1>3, <1>4, <2>3, <3>1 DEF SleepTells, TypeOK
    <3>. QED  BY <1>2, <1>5, <2>2, <3>2, <3>3 DEF WakeupProtocol
  <2>5. CASE Count(t)
    <3>1. U1 = U - 1 /\ pending_count' = pending_count + 1 /\ queue' = queue
      BY <2>5, UncountedShrinks DEF Count
    <3>2. pending_count = 0 => client'[t] = "cas"
      BY <2>5 DEF Count, TypeOK
    <3>3. CountsBehind'
      BY <1>2, <3>1 DEF CountsBehind, TypeOK
    <3>4. SleepTells'
      BY <1>2, <1>3, <1>4, <2>3, <3>1, <3>2 DEF SleepTells, TypeOK
    <3>. QED  BY <1>2, <1>5, <2>2, <3>3, <3>4 DEF WakeupProtocol
  <2>6. CASE Reject(t) \/ Publish(t)
    <3>1. U1 = U /\ Len(queue') = Len(queue) /\ pending_count' = pending_count
      BY <2>6, UncountedSame, PublishTypes DEF Reject, Publish
    <3>2. CountsBehind'
      BY <1>2, <3>1 DEF CountsBehind
    <3>3. SleepTells'
      BY <1>2, <1>3, <1>4, <2>3, <3>1 DEF SleepTells
    <3>. QED  BY <1>2, <1>5, <2>2, <3>2, <3>3 DEF WakeupProtocol
  <2>. QED  BY <1>7, <2>4, <2>5, <2>6 DEF Schedule
<1>. QED  BY <1>6, <1>7

\* A stop() and the write to the eventfd.
LEMMA StopWriteStep ==
  ASSUME WakeupProtocol, TypeOK', NEW t \in Schedulers \union Stoppers,
         Write(t) \/ (t \in Stoppers /\ Stop(t))
  PROVE  WakeupProtocol'
<1>0. /\ TypeOK /\ (pc \in {"timeout", "wait"} => left = 0)
      /\ CountsBehind /\ FlagTells /\ SleepTells /\ StopTells
  BY DEF WakeupProtocol
<1>1. /\ UNCHANGED <<queue, pending_count, needs_wakeup, pc, left, blocks>>
      /\ Signalled' \/ (Writing' /\ (Signalled => Signalled'))
  BY <1>0 DEF Write, Stop, Signalled, Writing, TypeOK
<1>2. Cardinality(Uncounted') = Cardinality(Uncounted)
  BY <1>0, UncountedSame
<1>. QED  BY <1>0, <1>1, <1>2
          DEF WakeupProtocol, CountsBehind, FlagTells, SleepTells, StopTells

\* A step of the reactor.
LEMMA LoopStep ==
  ASSUME WakeupProtocol, TypeOK', Loop
  PROVE  WakeupProtocol'
<1>. DEFINE U == Cardinality(Uncounted)
<1>0. /\ TypeOK /\ (pc \in {"timeout", "wait"} => left = 0)
      /\ CountsBehind /\ FlagTells /\ SleepTells /\ StopTells
  BY DEF WakeupProtocol
<1>1. /\ U \in Nat /\ Len(queue) \in Nat /\ Len(queue') \in Nat
      /\ Cardinality(Uncounted') = U
      /\ client' = client
      /\ Writing' = Writing
  <2>1. client' = client
    BY DEF Loop, Run, Test, ProcessTasks, Take, Clear, Pop, PopEnds, TaskReturns,
           CalculateTimeout, ProcessEvents, WaitWoken, WaitEnds, Read, Rearm
  <2>. QED  BY <1>0, <2>1, UncountedFinite, UncountedSame, LenProperties DEF TypeOK, Writing
<1>. USE <1>0, <1>1 DEF WakeupProtocol
<1>2. CASE Run \/ Test \/ Clear
  BY <1>2 DEF Run, Test, Clear, CountsBehind, FlagTells, SleepTells, StopTells, Signalled
<1>3. CASE Take
  BY <1>3 DEF Take, TypeOK, CountsBehind, FlagTells, SleepTells, StopTells, Signalled
<1>4. CASE Pop
  <2>1. Len(queue') = Len(queue) - 1
    BY <1>4, PopTypes
  <2>. QED  BY <1>4, <2>1 DEF Pop, TypeOK, CountsBehind, FlagTells, SleepTells,
                             StopTells, Signalled
<1>5. CASE PopEnds
  BY <1>5 DEF PopEnds, TypeOK, CountsBehind, FlagTells, SleepTells, StopTells, Signalled
<1>6. CASE TaskReturns
  BY <1>6 DEF TaskReturns, CountsBehind, FlagTells, SleepTells, StopTells, Signalled
<1>7. CASE CalculateTimeout
  <2>1. /\ pc = "timeout" /\ pc' = "wait" /\ left = 0 /\ left' = 0
        /\ UNCHANGED <<queue, pending_count, needs_wakeup, edge, eventfd, running>>
    BY <1>7 DEF CalculateTimeout
  <2>2. blocks' => Len(queue) = 0
    BY <1>7, EmptySeq DEF CalculateTimeout
  <2>. QED  BY <2>1, <2>2 DEF TypeOK, CountsBehind, FlagTells, SleepTells,
                              StopTells, Signalled
<1>8. CASE ProcessEvents
  BY <1>8 DEF ProcessEvents, WaitWoken, WaitEnds, Read, Rearm, TypeOK,
              CountsBehind, FlagTells, SleepTells, StopTells, Signalled
<1>. QED  BY <1>2, <1>3, <1>4, <1>5, <1>6, <1>7, <1>8 DEF Loop, ProcessTasks

LEMMA ProtocolStep == WakeupProtocol /\ [Next]_vars => WakeupProtocol'
<1>. SUFFICES ASSUME WakeupProtocol, [Next]_vars PROVE WakeupProtocol'
  OBVIOUS
<1>0. TypeOK'
  BY TypeStep DEF WakeupProtocol
<1>1. CASE UNCHANGED vars
  BY <1>1, <1>0 DEF vars, WakeupProtocol, CountsBehind, FlagTells, SleepTells,
                    StopTells, Signalled, Writing, Uncounted
<1>2. CASE Next
  BY <1>0, <1>2, ScheduleStep, StopWriteStep, LoopStep DEF Next
<1>. QED  BY <1>1, <1>2

\* The counts never run ahead of the queue, and needs_wakeup_ and a count above
\* zero each stand for a wakeup that is on its way to a sleeping reactor.
THEOREM WakeupCorrect == Spec => []WakeupProtocol
BY ProtocolInit, ProtocolStep, PTL DEF Spec

LEMMA ProtocolWakes == WakeupProtocol => NoLostWakeup
<1>. SUFFICES ASSUME WakeupProtocol, pc = "wait", blocks, queue # <<>> \/ ~running
              PROVE  Signalled \/ WillWrite
  BY DEF NoLostWakeup
<1>0. TypeOK /\ FlagTells /\ SleepTells /\ StopTells
  BY DEF WakeupProtocol
<1>1. Writing => WillWrite
  BY DEF Writing, WillWrite
<1>2. CASE ~running
  BY <1>0, <1>1, <1>2 DEF StopTells
<1>3. CASE queue # <<>> /\ pending_count > 0
  <2>1. Signalled \/ Writing \/ \E t \in Schedulers : client[t] = "cas"
    BY <1>0, <1>3 DEF SleepTells
  <2>2. (\E t \in Schedulers : client[t] = "cas") =>
          WillWrite \/ needs_wakeup
    BY <1>0 DEF WillWrite, TypeOK
  <2>. QED  BY <1>0, <1>1, <2>1, <2>2 DEF FlagTells
<1>4. CASE queue # <<>> /\ pending_count = 0
  <2>1. Len(queue) \in Nat /\ Len(queue) # 0
    BY <1>0, <1>4, EmptySeq, LenProperties DEF TypeOK
  <2>2. Uncounted # {}
    BY <1>0, <1>4, <2>1, FS_EmptySet, UncountedFinite DEF SleepTells, TypeOK
  <2>3. PICK t \in Schedulers : client[t] \in {"publish", "count"}
    BY <2>2 DEF Uncounted
  <2>. QED  BY <1>0, <1>4, <2>3 DEF WillWrite, TypeOK
<1>. QED  BY <1>0, <1>2, <1>3, <1>4 DEF TypeOK

\* The reactor never sleeps on a task or on a stop without a wakeup on its way.
THEOREM NoLostWakeupCorrect == Spec => []NoLostWakeup
BY WakeupCorrect, ProtocolWakes, PTL
=============================================================================
