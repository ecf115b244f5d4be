------------------------------- MODULE SClock -------------------------------
(***************************************************************************)
(* The sampling clock of src/source/sclock.cpp: one hardware timer (TIM6)  *)
(* shared by every ADC and DAC conversion.  A conversion calls start when  *)
(* it begins and stop when it ends; the timer runs while some caller wants *)
(* it.  The callers are counted in the unsigned m_runcount, which wraps.   *)
(***************************************************************************)
EXTENDS Integers

CONSTANT UINT_RANGE   \* number of values of an unsigned int (2^32 on target)

ASSUME UIntAssumption == UINT_RANGE \in Nat /\ UINT_RANGE > 8

VARIABLES m_runcount, \* 0 .. UINT_RANGE - 1
          timer       \* state of the GPT driver behind m_timer

clockVars == <<m_runcount, timer>>

ClockTypeOK ==
    /\ m_runcount \in 0 .. UINT_RANGE - 1
    /\ timer \in {"GPT_READY", "GPT_CONTINUOUS"}

\* SClock::begin configures the timer without starting it.
SClockBegin ==
    /\ m_runcount = 0
    /\ timer = "GPT_READY"

\* Mutant: a signed counter.
Pred_signed(n) == n - 1

\* m_runcount++ and --m_runcount on an unsigned int.
Succ(n) == IF n = UINT_RANGE - 1 THEN 0 ELSE n + 1
Pred(n) == IF n = 0 THEN UINT_RANGE - 1 ELSE n - 1

\* SClock::start on the clock c.  The post-increment compares the old count
\* with 0, so only the caller that takes it from 0 to 1 starts the timer.
started(c) ==
    [count |-> Succ(c.count),
     timer |-> IF c.count = 0 THEN "GPT_CONTINUOUS" ELSE c.timer]

\* Mutant: a post-decrement, which compares the old count.
stopped_post(c) ==
    [count |-> Pred(c.count),
     timer |-> IF c.count = 0 THEN "GPT_READY" ELSE c.timer]

\* SClock::stop.  The pre-decrement compares the new count with 0, so only the
\* caller that takes it from 1 to 0 stops the timer.
stopped(c) ==
    [count |-> Pred(c.count),
     timer |-> IF Pred(c.count) = 0 THEN "GPT_READY" ELSE c.timer]

clock == [count |-> m_runcount, timer |-> timer]
ClockBecomes(c) == m_runcount' = c.count /\ timer' = c.timer

SClockStart == ClockBecomes(started(clock))
SClockStop == ClockBecomes(stopped(clock))

\* The timer is running.
Ticking == timer = "GPT_CONTINUOUS"

=============================================================================
