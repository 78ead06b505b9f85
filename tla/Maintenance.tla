----------------------------- MODULE Maintenance -----------------------------
(***************************************************************************)
(* A maintenance window of an endpoint, or of the whole configuration, and *)
(* a clock of the time zone of the window that runs past it, through a     *)
(* week whose days need not be equally long.  Time is counted in slots; an *)
(* instant is somewhere inside a slot, so that it is never exactly at the  *)
(* beginning or the end of a window.                                       *)
(***************************************************************************)
EXTENDS Integers, FiniteSets

CONSTANTS
  HoursOfDay,     \* 24
  SlotsPerHour,   \* how finely time is counted
  WeekLength,     \* 7
  LastDay,        \* bound: the clock runs from day 1 to this one
  ChangeHour      \* when, on day 2, the clock is moved

ASSUME ClockAssumption ==
  /\ {HoursOfDay, SlotsPerHour, WeekLength, LastDay} \subseteq Nat \ {0}
  /\ ChangeHour \in Nat

(* The time zones of which this module speaks: their clock is moved        *)
(* neither over a midnight nor in the hour before one, so that it shows a  *)
(* midnight once on every day, as Midnight has it.  The code accepts any   *)
(* zone (maintenance.go:88); of one that skips the hour from 0:00,         *)
(* time.Date may return 23:00 of the day before, and with it the wrong     *)
(* weekday (maintenance.go:114-116): that is not modelled.                 *)
AwayFromMidnight == ChangeHour \in 1..(HoursOfDay - 2)

VARIABLES
  kind,      \* of the endpoint: "dns", "ssh" or "other"
  window,    \* maintenance.Config
  moved,     \* hours by which the clock is moved back: -1, 0 or 1
  slot       \* now

maintenanceVars == <<kind, window, moved, slot>>

Hours(n) == n * SlotsPerHour
Weekdays == 0..(WeekLength - 1)
ChangeDay == 2
Midnight(d) == Hours(d * HoursOfDay + IF d > ChangeDay THEN moved ELSE 0)
DayOf(t) == CHOOSE d \in 0..LastDay : Midnight(d) <= t /\ t < Midnight(d + 1)
WallClock(t) ==
  LET passed == t - Midnight(DayOf(t)) IN
  IF DayOf(t) = ChangeDay /\ passed >= Hours(ChangeHour) THEN passed - Hours(moved) ELSE passed

(* Windows that ValidateAndSetDefaults accepts, with the start of day as   *)
(* hhmmToDuration returns it.                                              *)
MaintenanceConfigs ==
  [enabled : BOOLEAN, every : SUBSET Weekdays, start : 0..(Hours(HoursOfDay) - 1), duration : 1..Hours(HoursOfDay)]

(* endpoint.go:247-252: with a DNS or SSH configuration the method returns *)
(* before it comes to the windows, whose start then remains zero.          *)
Validated == kind = "other"
Start == IF Validated THEN window.start ELSE 0

\* Slip: a window is looked for that begins today, and no other one.
StartDayIsToday == DayOf(slot)
(* The last day on which the window may have begun, going by the hour.     *)
StartDay == IF WallClock(slot) \div SlotsPerHour < Start \div SlotsPerHour THEN DayOf(slot) - 1 ELSE DayOf(slot)

IsUnderMaintenance ==
  /\ window.enabled
  /\ window.every = {} \/ StartDay % WeekLength \in window.every
  /\ Midnight(StartDay) + Start <= slot
  /\ slot < Midnight(StartDay) + Start + window.duration

ClockTicks ==
  /\ slot + 1 < Midnight(LastDay + 1)
  /\ slot' = slot + 1
  /\ UNCHANGED <<kind, window, moved>>

MaintenanceInit ==
  /\ kind \in {"dns", "ssh", "other"}
  /\ window \in MaintenanceConfigs
  /\ window.enabled \/ (window.start = 0 /\ window.duration = 1)
  /\ moved \in -1..1
  /\ kind # "other" => moved = 0 /\ window.every = {}
  /\ slot = Midnight(1)
MaintenanceIdle ==
  /\ kind = "other" /\ window = [enabled |-> FALSE, every |-> {}, start |-> 0, duration |-> 1]
  /\ moved = 0 /\ slot = 0

MaintenanceNext == ClockTicks

-----------------------------------------------------------------------------
(* The window of day d as its owner reads it: from the first instant of    *)
(* the day at which the clock shows the start, or has jumped over it.      *)
Begins(d) == CHOOSE t \in Midnight(d)..(Midnight(d + 1) - 1) :
               /\ WallClock(t) >= window.start
               /\ \A s \in Midnight(d)..(t - 1) : WallClock(s) < window.start
Scheduled(tolerance) ==
  \E d \in 0..LastDay :
    /\ window.enabled
    /\ window.every = {} \/ d % WeekLength \in window.every
    /\ Begins(d) - tolerance <= slot
    /\ slot < Begins(d) + window.duration + tolerance
ClockMoved == moved # 0 /\ DayOf(slot) \in {ChangeDay, ChangeDay + 1}
StartingHour == WallClock(slot) \div SlotsPerHour = window.start \div SlotsPerHour /\ WallClock(slot) < window.start

(* README.md:2700-2703, maintenance.go:31: alerts are held back exactly   *)
(* in the windows of the days that are listed, those that began before     *)
(* midnight included.  When the clock has been moved they are off by that  *)
(* hour at most.  In the hour of the start, before its minute, the window  *)
(* of the day before is forgotten: that shows if it lasts nearly a day.    *)
(* Of zones whose clock is moved at midnight nothing is said               *)
(* (AwayFromMidnight).                                                     *)
MaintenanceAsScheduled ==
  AwayFromMidnight /\ Validated =>
    /\ IsUnderMaintenance => Scheduled(IF ClockMoved THEN Hours(1) ELSE 0)
    /\ ~ClockMoved /\ ~StartingHour /\ Scheduled(0) => IsUnderMaintenance

(* maintenance.go:66: ValidateAndSetDefaults is called before              *)
(* IsUnderMaintenance, so that no window opens at another time of day.     *)
WindowOpensAtStart == IsUnderMaintenance => Scheduled(IF ClockMoved THEN Hours(1) ELSE 0)
=============================================================================
