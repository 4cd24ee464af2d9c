----------------------------- MODULE TimerWheel ------------------------------
(***************************************************************************)
(* The hierarchical timer wheel (oi_timer_manager.cpp, oi_timer_level.cpp).*)
(* The poll thread runs Update: it takes the whole ticks that have elapsed *)
(* and advances the wheel one tick at a time under m_stWheelMutex; due     *)
(* timers run outside it.  Any thread may add or remove a timer in between. *)
(*                                                                         *)
(* Each step is one section under m_stWheelMutex, or one OnTimer callback. *)
(* A slot's list is kept as the set of timers whose place is that slot: the *)
(* order of the callbacks within one tick is left open.                    *)
(***************************************************************************)
EXTENDS Integers, FiniteSets

CONSTANTS
  Timers,
  Count,      \* timer_lv_count
  MaxTick,    \* MaxTick[l]: slots of level l, 0 <= l < Count
  TickMs,     \* offset_ms
  Delays,     \* intervals passed to AddTimer, in milliseconds
  MaxNow,     \* bound: how far the monotonic clock goes, in milliseconds
  MaxLag      \* bound: how far the poll thread falls behind, in milliseconds

Levels == 0..(Count - 1)

\* m_iLevelOffsetTick: how many ticks one slot of a level stands for.
LevelOffsetTick[l \in Levels] ==
  IF l = 0 THEN 1 ELSE LevelOffsetTick[l - 1] * MaxTick[l - 1]

VARIABLES
  now,        \* steady_clock
  base,       \* m_stLastTickMonotonic
  curTick,    \* m_iCurrentTick
  offset,     \* offset[l]: m_iOffset of level l
  place,      \* place[t]: <<level, slot>>, or where t is outside the wheel
  trigger,    \* trigger[t]: m_iTriggerTick
  interval,   \* interval[t]: m_iOffsetMilliseconds
  iTicks,     \* ticks the running Update has still to do
  due         \* due[t]: the time before which t must not fire

vars == <<now, base, curTick, offset, place, trigger, interval, iTicks, due>>
clockVars == <<now, base, curTick, offset, iTicks>>

Idle == <<"idle">>        \* not in the wheel
Due == <<"due">>          \* in vDue of the current tick
Running == <<"running">>  \* OnTimer has run and returned RESET_TIMER
InWheel(t) == place[t] \notin {Idle, Due, Running}

Init ==
  /\ now = 0 /\ base = 0 /\ curTick = 0
  /\ offset = [l \in Levels |-> 0]
  /\ place = [t \in Timers |-> Idle]
  /\ trigger = [t \in Timers |-> 0]
  /\ interval = [t \in Timers |-> 0]
  /\ iTicks = 0
  /\ due = [t \in Timers |-> 0]

-----------------------------------------------------------------------------
\* add_timer: the slot for a timer that triggers at tick trig, when the wheel stands
\* at tick cur with the offsets off.  A timer that is already past goes to the next
\* tick; one that fits no level goes to the only slot of the last level.
LevelSlot(l, dist) == (dist \div LevelOffsetTick[l]) - 1

AddPlace(off, cur, trig) ==
  LET dist == IF trig - cur <= 0 THEN 1 ELSE trig - cur
      fits == {l \in 0..(Count - 2) : LevelSlot(l, dist) < MaxTick[l]}
      level == CHOOSE l \in fits : \A m \in fits : l <= m
  IN IF fits = {} THEN <<Count - 1, 0>>
     ELSE <<level, (LevelSlot(level, dist) + off[level]) % MaxTick[level]>>

\* TimerLevel::RunTick on the state w of the wheel: the current slot is emptied, the
\* offset moves on, and the timers of an upper level are added again.
NextOffset(w, l) == [w.offset EXCEPT ![l] = (@ + 1) % MaxTick[l]]

Rotate(w, l, cur) ==
  LET off == NextOffset(w, l)
  IN [offset |-> off,
      place |-> [t \in Timers |-> IF w.place[t] = <<l, w.offset[l]>>
                                  THEN AddPlace(off, cur, trigger[t])
                                  ELSE w.place[t]]]

\* try_run_timer: the current slot of level 0 becomes vDue.
TakeDue(w) ==
  [offset |-> NextOffset(w, 0),
   place |-> [t \in Timers |-> IF w.place[t] = <<0, w.offset[0]>> THEN Due ELSE w.place[t]]]

\* Mutant: timers are handed down as if the tick had not begun.
Turn_OldTick(w, l, cur) == IF w.offset[l - 1] = 0 THEN Rotate(w, l, cur - 1) ELSE w

\* try_uniform, one level: a level that stands at its start turns the one above it.
Turn(w, l, cur) == IF w.offset[l - 1] = 0 THEN Rotate(w, l, cur) ELSE w

\* try_uniform: level by level.
try_uniform(w0, cur) ==
  LET Upto[l \in Levels] == IF l = 0 THEN w0 ELSE Turn(Upto[l - 1], l, cur)
  IN Upto[Count - 1]

\* run_tick as a function of the wheel.
AfterTick(w, cur) ==
  LET d == TakeDue(w)
  IN IF d.offset[0] = 0 THEN try_uniform(d, cur) ELSE d

-----------------------------------------------------------------------------
\* Time passes.
Advance ==
  /\ now < MaxNow /\ now - base < MaxLag
  /\ now' = now + 1
  /\ UNCHANGED <<base, curTick, offset, place, trigger, interval, iTicks, due>>

\* No Update is in its loop.
Quiet == iTicks = 0 /\ \A t \in Timers : place[t] \notin {Due, Running}

\* Update, first section: the number of whole ticks since the base.
Update ==
  /\ Quiet
  /\ now > base
  /\ iTicks' = (now - base) \div TickMs
  /\ UNCHANGED <<now, base, curTick, offset, place, trigger, interval, due>>

\* Update, loop: run_tick under the lock, when the callbacks of the last tick are done.
run_tick ==
  /\ iTicks > 0 /\ \A t \in Timers : place[t] \notin {Due, Running}
  /\ iTicks' = iTicks - 1
  /\ base' = base + TickMs
  /\ curTick' = curTick + 1
  /\ LET w == AfterTick([offset |-> offset, place |-> place], curTick + 1)
     IN offset' = w.offset /\ place' = w.place
  /\ UNCHANGED <<now, trigger, interval, due>>

\* run_timer: OnTimer ends the timer (END_TIMER or an exception), or asks for more.
OnTimer(t) ==
  /\ place[t] = Due
  /\ \/ place' = [place EXCEPT ![t] = Idle]
     \/ place' = [place EXCEPT ![t] = Running]
  /\ UNCHANGED <<clockVars, trigger, interval, due>>

\* InitData and add_timer under the lock.
Arm(t, ms, ticks) ==
  /\ interval' = [interval EXCEPT ![t] = ms]
  /\ trigger' = [trigger EXCEPT ![t] = curTick + ticks]
  /\ place' = [place EXCEPT ![t] = AddPlace(offset, curTick, curTick + ticks)]

\* milling2tick: rounded up to whole ticks.
milling2tick(ms) == (ms \div TickMs) + (IF ms % TickMs > 0 THEN 1 ELSE 0)

\* run_timer: a periodic timer is renewed by logical ticks.
Renew(t) ==
  /\ place[t] = Running
  /\ Arm(t, interval[t], milling2tick(interval[t]))
  /\ due' = [due EXCEPT ![t] = base + interval[t]]
  /\ UNCHANGED clockVars

\* Mutant: rounded down.
TicksFromNow_Floor(ms) ==
  LET ticks == ((now - base) + ms) \div TickMs IN IF ticks < 1 THEN 1 ELSE ticks

\* TicksFromNow: whole ticks, counted from the base, until the interval has elapsed.
TicksFromNow(ms) ==
  LET elapsed == IF now - base < 0 THEN 0 ELSE now - base
      ticks == (elapsed + ms + TickMs - 1) \div TickMs
  IN IF ticks < 1 THEN 1 ELSE ticks

\* AddTimer by any thread, of a timer that is not armed.
AddTimer(t, ms) ==
  /\ place[t] = Idle
  /\ Arm(t, ms, TicksFromNow(ms))
  /\ due' = [due EXCEPT ![t] = now + ms]
  /\ UNCHANGED clockVars

\* RemoveTimer by any thread; while the timer is being run it returns false and
\* changes nothing.
RemoveTimer(t) ==
  /\ InWheel(t)
  /\ place' = [place EXCEPT ![t] = Idle]
  /\ UNCHANGED <<clockVars, trigger, interval, due>>

Next ==
  \/ Advance \/ Update \/ run_tick
  \/ \E t \in Timers : OnTimer(t) \/ Renew(t) \/ RemoveTimer(t)
  \/ \E t \in Timers, ms \in Delays : AddTimer(t, ms)

Spec == Init /\ [][Next]_vars

-----------------------------------------------------------------------------
\* The state is well-typed: every level offset and every slot is in range.
TypeOK ==
  /\ now \in 0..MaxNow /\ base \in 0..MaxNow /\ curTick \in Nat /\ iTicks \in Nat
  /\ offset \in [Levels -> Nat] /\ \A l \in Levels : offset[l] < MaxTick[l]
  /\ \A t \in Timers : InWheel(t) =>
        \E l \in Levels : \E s \in 0..(MaxTick[l] - 1) : place[t] = <<l, s>>
  /\ trigger \in [Timers -> Nat] /\ interval \in [Timers -> Nat] /\ due \in [Timers -> Nat]

\* A timer never fires before its interval has elapsed on the monotonic clock
\* ("向上取整到到期 tick，不会提前触发"), nor before its trigger tick.
NotEarly ==
  \A t \in Timers : place[t] = Due => now >= due[t] /\ curTick >= trigger[t]

\* A timer is never passed over: it fires in its trigger tick, or in the next one when
\* an upper level hands it down in the trigger tick itself; nothing in the wheel is
\* overdue by more.
NotLate ==
  \A t \in Timers : /\ InWheel(t) => curTick <= trigger[t]
                    /\ place[t] = Due => curTick <= trigger[t] + 1
=============================================================================
