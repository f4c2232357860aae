------------------------------- MODULE Schedules -------------------------------
(***************************************************************************)
(* When daily reports are due (scheduler.py).  Time is counted in minutes  *)
(* of UTC.  A business lives in a time zone, whose offset changes once: a  *)
(* change forward skips local minutes, a change back repeats some.  A day  *)
(* has DayLength minutes, and a schedule runs in one local minute of it.   *)
(* cron starts the script, or not, in any minute.                          *)
(***************************************************************************)
EXTENDS Integers, FiniteSets

CONSTANTS
    DayLength,   \* minutes of a day (1440 in the code)
    MaxMinute,   \* bound on the clock
    Zones,       \* records [from, before, after]: the offset changes at minute from
    Crons        \* records [at, enabled, known]: the schedules of the store

ASSUME ScheduleAssumption ==
    /\ DayLength \in Nat \ {0}
    /\ MaxMinute \in Nat
    /\ Zones \subseteq [from : Nat, before : Int, after : Int]
    /\ Crons \subseteq [at : 0..(DayLength - 1), enabled : BOOLEAN, known : BOOLEAN]

VARIABLES
    zone,        \* ZoneInfo of the business
    minute,      \* the clock, in UTC
    runs         \* ScheduledReportRuns handed to the runner: schedule and run_at

scheduleVars == <<zone, minute, runs>>

-----------------------------------------------------------------------------
(***************************************************************************)
(* zoneinfo (PEP 495): from UTC to local time, and back.                   *)
(***************************************************************************)
Offset(t) == IF t < zone.from THEN zone.before ELSE zone.after

Local(t) == t + Offset(t)

\* astimezone sets fold in the second pass of a repeated hour.
Fold(t) == IF t >= zone.from /\ t < zone.from + zone.before - zone.after THEN 1 ELSE 0

\* A wall time that is repeated, or skipped, is read by its fold.
ToUtc(wall, fold) ==
    LET larger == IF zone.before > zone.after THEN zone.before ELSE zone.after
        smaller == zone.before + zone.after - larger
        edge == zone.from + (IF fold = 0 THEN larger ELSE smaller)
    IN wall - (IF wall < edge THEN zone.before ELSE zone.after)

MinuteOfDay(wall) == wall % DayLength

DayOf(wall) == wall \div DayLength

-----------------------------------------------------------------------------
should_run_schedule(cron, now) == cron.enabled /\ MinuteOfDay(Local(now)) = cron.at

\* Mutant: a run of this very minute is still to come.
next_daily_run_NotStrict(cron, after) ==
    LET today == DayOf(Local(after)) * DayLength + cron.at
    IN IF ToUtc(today, Fold(after)) >= after
       THEN ToUtc(today, Fold(after))
       ELSE ToUtc(today + DayLength, 0)

\* replace() keeps the fold of after, adding a day clears it.
next_daily_run(cron, after) ==
    LET today == DayOf(Local(after)) * DayLength + cron.at
    IN IF ToUtc(today, Fold(after)) > after
       THEN ToUtc(today, Fold(after))
       ELSE ToUtc(today + DayLength, 0)

due_schedules(now) ==
    {cron \in Crons : cron.enabled /\ cron.known /\ should_run_schedule(cron, now)}

ScheduleInit ==
    /\ zone \in Zones
    /\ minute = 0
    /\ runs = {}

\* The script reads the clock and runs what is due.
Invoke ==
    /\ runs' = runs \cup {[cron |-> cron, run_at |-> minute] : cron \in due_schedules(minute)}
    /\ UNCHANGED <<zone, minute>>

Pass ==
    /\ minute < MaxMinute
    /\ minute' = minute + 1
    /\ UNCHANGED <<zone, runs>>

ScheduleNext == Invoke \/ Pass

ScheduleSpec == ScheduleInit /\ [][ScheduleNext]_scheduleVars
-----------------------------------------------------------------------------
\* The local minutes that the change forward leaves out.
Skipped(wall) == wall >= zone.from + zone.before /\ wall < zone.from + zone.after

\* What holds of every zone in use today: its clock is not put back from one side of
\* midnight to the other (a repeated minute, and the minute of the change, are of one
\* day), nor forward by more than a day; and the clock here begins early enough for
\* both passes of a repeated minute.
KeepsDays(z) ==
    /\ z.after < z.before => DayOf(z.from + z.after) = DayOf(z.from + z.before - 1)
    /\ z.after - z.before <= DayLength
    /\ z.from >= z.before - z.after

\* The two things the scheduler says of a schedule agree in every such zone and minute:
\* the next run it announces is ahead, is a minute in which it is due (or would be,
\* had the change of the clock not skipped it), and in no minute before is it due,
\* but for the second pass of one that has come already.  And whenever cron starts
\* the script, a schedule runs once in a local day, or again in that second pass.
RunsComeAsAnnounced ==
    /\ \A cron \in Crons : cron.enabled =>
          LET next == next_daily_run(cron, minute)
              today == DayOf(Local(minute)) * DayLength + cron.at
          IN /\ next > minute
             /\ \/ should_run_schedule(cron, next)
                \/ Skipped(today) \/ Skipped(today + DayLength)
             /\ \A t \in (minute + 1)..(next - 1) :
                   should_run_schedule(cron, t) =>
                      \E u \in 0..minute : Local(u) = Local(t)
    /\ \A r, s \in runs :
          (r.cron = s.cron /\ DayOf(Local(r.run_at)) = DayOf(Local(s.run_at))) =>
             Local(r.run_at) = Local(s.run_at)
=============================================================================
