---------------------------- MODULE CountdownTimers ----------------------------
(***************************************************************************)
(* What a timer service promises: a timer that is added is counted down    *)
(* tick by tick and fires when nothing remains, once, unless it has been   *)
(* cancelled; no tick passes while a timer is due.                         *)
(***************************************************************************)
EXTENDS Integers

CONSTANTS
  Timers,
  Counts  \* the ticks that timers are added with

VARIABLES
  remaining,  \* the ticks that remain to the timers that are set
  fired,      \* the timers that have fired
  cancelled   \* the timers that have been cancelled while they were set

vars == <<remaining, fired, cancelled>>

Set == DOMAIN remaining

Init ==
  /\ remaining = [t \in {} |-> 0]
  /\ fired = {}
  /\ cancelled = {}

Without(t) == [u \in Set \ {t} |-> remaining[u]]

Add(t) ==
  /\ t \notin Set \union fired \union cancelled
  /\ \E n \in Counts :
       remaining' = [u \in Set \union {t} |-> IF u = t THEN n ELSE remaining[u]]
  /\ UNCHANGED <<fired, cancelled>>

Cancel(t) ==
  /\ t \in Set
  /\ remaining' = Without(t)
  /\ cancelled' = cancelled \union {t}
  /\ UNCHANGED fired

Fire(t) ==
  /\ t \in Set
  /\ remaining[t] = 0
  /\ remaining' = Without(t)
  /\ fired' = fired \union {t}
  /\ UNCHANGED cancelled

Tick ==
  /\ \A t \in Set : remaining[t] > 0
  /\ remaining' = [t \in Set |-> remaining[t] - 1]
  /\ UNCHANGED <<fired, cancelled>>

Next == Tick \/ \E t \in Timers : Add(t) \/ Cancel(t) \/ Fire(t)

Spec == Init /\ [][Next]_vars
=============================================================================
