----------------------------- MODULE MCScheduler -----------------------------
(* Model-checking instances of Scheduler.                                    *)
EXTENDS Scheduler

CONSTANTS daily, odd

\* One entry fires daily, the other every second day.
Calendar == [entry \in Entries |-> IF entry = daily THEN Days
                                   ELSE {day \in Days : day % 2 = 1}]
=============================================================================
