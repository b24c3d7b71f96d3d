------------------------- MODULE ScheduleArithmetic -------------------------
(***************************************************************************)
(* The weekly window in minutes.  Five routines compute it for themselves: *)
(* the broker's key of an instant, the runner's latest key, its deadline   *)
(* and its question whether today's window is over, the audit's list of    *)
(* windows, and the launcher's own hours.  PaperForward counts half weeks  *)
(* instead; it may, if these agree on which window an instant is in, before *)
(* or after.                                                               *)
(*                                                                         *)
(* An instant is a number of half minutes since a midnight between Sunday  *)
(* and Monday, so that an instant of a window's last minute and one after  *)
(* it are told apart.  Everything is in UTC.                               *)
(***************************************************************************)
EXTENDS Integers

CONSTANTS
    Plans,        \* schedules a PaperConfig is asked for
    Governed,     \* the one the launcher is written for
    Instants(_),  \* the instants looked at under a plan
    NoKey

VARIABLES
    plan,      \* the configured schedule
    start,     \* when the experiment was registered
    now,       \* the clock
    key,       \* the schedule key main() derived before the fetch
    deadline   \* the end of that window

vars == <<plan, start, now, key, deadline>>

Day == 2 * 1440
Week == 7 * Day

Weekday(t) == (t \div Day) % 7
Normalized(t) == Day * (t \div Day)

\* target_offset_minutes
TargetOffset(minute, target) == (target - minute) % 60

\* Mutant: the hour is taken for given, as long as the target is later.
AcceptedUnrolled(p) ==
    /\ p.weekday \in 0 .. 6 /\ p.hour \in 0 .. 23
    /\ {p.minute, p.target} \subseteq 0 .. 59
    /\ p.window \in 1 .. 60
    /\ p.target - p.minute <= p.window

\* PaperConfig.__post_init__, as far as it is about the schedule.
Accepted(p) ==
    /\ p.weekday \in 0 .. 6 /\ p.hour \in 0 .. 23
    /\ {p.minute, p.target} \subseteq 0 .. 59
    /\ p.window \in 1 .. 60
    /\ TargetOffset(p.minute, p.target) <= p.window

\* schedule_timestamps: the window of the calendar day of t.
Opens(t) == Normalized(t) + 2 * (60 * plan.hour + plan.minute)
Target(t) == Opens(t) + 2 * TargetOffset(plan.minute, plan.target)
Closes(t) == Opens(t) + 2 * plan.window

\* Mutant: the window is closed at its last instant.
ScheduledKeyHalfOpen(t) ==
    IF Weekday(t) = plan.weekday /\ Opens(t) <= t /\ t < Closes(t)
    THEN Opens(t) ELSE NoKey

\* PaperTradingSystem._scheduled_key
ScheduledKey(t) ==
    IF Weekday(t) = plan.weekday /\ Opens(t) <= t /\ t <= Closes(t)
    THEN Opens(t) ELSE NoKey

\* _schedule_window_deadline
Deadline(k) == IF k = NoKey THEN NoKey ELSE Closes(k)

\* _current_schedule_window_closed
CurrentWindowClosed(t) == Weekday(t) = plan.weekday /\ t > Closes(t)

\* Mutant: before the window of the day it is still the window of the day.
LatestKeyOfTheDay(t) == Opens(Normalized(t) - Day * ((Weekday(t) - plan.weekday) % 7))

\* _latest_schedule_key
LatestKey(t) ==
    LET day == Normalized(t) - Day * ((Weekday(t) - plan.weekday) % 7)
    IN  IF Opens(day) > t THEN Opens(day - Week) ELSE Opens(day)

\* Mutant: the days are counted from the hour of the registration.
ScheduledMondaysFromTheHour(from, t) ==
    LET days == {d \in {from + i * Day : i \in 0 .. (t - from) \div Day} :
                    Weekday(d) = plan.weekday}
    IN  {Opens(d) : d \in {e \in days : t > Closes(e)}}

\* _scheduled_mondays: the windows over at t, from the day of from on.
ScheduledMondays(from, t) ==
    LET first == Normalized(from)
        days  == {d \in {first + i * Day : i \in 0 .. (t - first) \div Day} :
                    Weekday(d) = plan.weekday}
    IN  {Opens(d) : d \in {e \in days : t > Closes(e)}}

\* should_launch, in the launcher.
ShouldLaunch(t) ==
    /\ Weekday(t) = 0
    /\ (t % Day) \div 120 = 0
    /\ ((t % Day) \div 2) % 60 \in 5 .. 20

-----------------------------------------------------------------------------

Init ==
    /\ plan \in Plans
    /\ Accepted(plan)
    /\ start \in {t \in Instants(plan) : t < 2 * Week}
    /\ now = start
    /\ key = NoKey
    /\ deadline = NoKey

\* main() captures an instant and derives key and deadline from it.
Capture ==
    /\ key' = ScheduledKey(now)
    /\ deadline' = Deadline(ScheduledKey(now))
    /\ UNCHANGED <<plan, start, now>>

\* Fetches, retries, nights and idle weeks.
PassTime ==
    /\ now' \in {t \in Instants(plan) : now < t}
    /\ UNCHANGED <<plan, start, key, deadline>>

Next == Capture \/ PassTime

Spec == Init /\ [][Next]_vars

TypeOK ==
    /\ plan \in Plans
    /\ {start, now} \subseteq Instants(plan)
    /\ {key, deadline} \subseteq Int \cup {NoKey}

-----------------------------------------------------------------------------
(* Properties *)

\* The window of week i, without a calendar.
WindowOpens(i) == i * Week + plan.weekday * Day + 2 * (60 * plan.hour + plan.minute)
WindowCloses(i) == WindowOpens(i) + 2 * plan.window

WeeksUpTo(t) == -1 .. t \div Week + 1

\* Wherever the clock stands, the routines that look for a window agree with
\* one another: an instant has the key of the window it lies in and no other;
\* the latest key is the last window that opened; the audit lists exactly the
\* windows that are over, from the day of the registration on; the window is
\* over for the runner exactly if the audit of the day lists it; and every
\* instant the launcher starts a child at is in the governed window or after
\* it, never one at which the child would only look at the market.
RoutinesAgree ==
    LET scheduled == ScheduledKey(now)
        latest    == LatestKey(now)
        missed    == ScheduledMondays(start, now)
    IN
    /\ \A i \in WeeksUpTo(now) :
          LET opens == WindowOpens(i) IN
          /\ scheduled = opens <=> opens <= now /\ now <= WindowCloses(i)
          /\ latest = opens <=> opens <= now /\ now < WindowOpens(i + 1)
          /\ opens \in missed <=> Normalized(start) <= opens /\ WindowCloses(i) < now
          /\ opens <= Target(opens) /\ Target(opens) <= WindowCloses(i)
    /\ CurrentWindowClosed(now)
          <=> Opens(now) \in ScheduledMondays(now, now)
    /\ ShouldLaunch(now) /\ plan = Governed
          => scheduled # NoKey \/ CurrentWindowClosed(now)

\* Until the deadline taken with it, the key of main() is the key that run()
\* derives again from the instant after the fetch; afterwards the audit that
\* follows lists its window as missed.
AdmittedKeyStands ==
    key # NoKey =>
        IF now <= deadline THEN ScheduledKey(now) = key
        ELSE key \in ScheduledMondays(start, now)

\* What PaperForward takes for granted of the half weeks it counts.
OneSchedule == RoutinesAgree /\ AdmittedKeyStands

=============================================================================
