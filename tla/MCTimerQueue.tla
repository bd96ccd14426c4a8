---------------------------- MODULE MCTimerQueue ----------------------------
\* Timer 1 runs once, timer 2 repeats.
EXTENDS TimerQueue

MCPeriod == [t \in Timers |-> IF t = 2 THEN 2 ELSE 0]
==============================================================================
