------------------------------- MODULE OwnTime -------------------------------
(***************************************************************************)
(* A student's own time, asked of either keeper: the schedule the agent    *)
(* reads (agent_tools.py) and the imported calendar (classes.py).          *)
(***************************************************************************)
EXTENDS Schedule, IcsCalendar

OwnTimeNext == Look \/ IcsNext
OwnTimeSpec == answer = NoAnswer /\ ScheduleAsked /\ IcsAsked /\ [][OwnTimeNext]_lookupVars

(* What is called free overlaps nothing the student entered for that day,  *)
(* and the meetings of the calendar are those its file says, no more and   *)
(* no fewer (agent_tools.py:199-275, classes.py:2022-2313).                *)
OwnTimeIsKept == FreeTimeIsFree /\ CalendarIsKept
=============================================================================
