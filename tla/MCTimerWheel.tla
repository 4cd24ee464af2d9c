---------------------------- MODULE MCTimerWheel ----------------------------
(***************************************************************************)
(* TLC instance of the timer wheel: two timers on five levels, the smallest *)
(* depth at which a level above the second also turns while the one below  *)
(* it has not.                                                             *)
(***************************************************************************)
EXTENDS Integers, TLC

CONSTANTS Timers, Count, MaxTick, TickMs, Delays, MaxNow, MaxLag

VARIABLES now, base, curTick, offset, place, trigger, interval, iTicks, due

Wheel == INSTANCE TimerWheel

\* Of TimerWheel: every level has a slot, the last one a single one, and AddTimer refuses an
\* interval of 0.
ASSUME WheelAssumption ==
  /\ Count \in Nat /\ Count > 2
  /\ MaxTick \in [Wheel!Levels -> Nat \ {0}] /\ MaxTick[Count - 1] = 1
  /\ TickMs \in Nat \ {0}
  /\ Delays \subseteq Nat \ {0}
  /\ MaxNow \in Nat /\ MaxLag \in Nat

FiveLevels == 0 :> 2 @@ 1 :> 2 @@ 2 :> 2 @@ 3 :> 2 @@ 4 :> 1

WheelSpec == Wheel!Spec

\* The timers are interchangeable.
Symmetry == Permutations(Timers)

-----------------------------------------------------------------------------
\* No timer fires before its time (oi_timer_manager.cpp:168).
NeverEarly == Wheel!NotEarly

\* No timer is passed over (oi_timer_manager.cpp:234), and every offset and every place is a
\* slot of the wheel.
NeverLate == Wheel!TypeOK /\ Wheel!NotLate
=============================================================================
