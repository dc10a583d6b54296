------------------------------- MODULE DateRanges -------------------------------
(***************************************************************************)
(* Days: the range filter of a list, in which days are picked and sent to  *)
(* the server, and the presets of a dashboard with the buckets of its      *)
(* charts.  The picker counts in days of the browser's time zone, the      *)
(* server in UTC.                                                          *)
(*                                                                         *)
(* A day is its number in the calendar, an instant a number of ticks; as   *)
(* the constructor of Date has it, a day of the month that the month does  *)
(* not have is one of a month beside.                                      *)
(***************************************************************************)
EXTENDS Integers, Sequences

CONSTANTS
  MonthLengths,  \* days of each month of the calendar
  Week,          \* days of a week, the first of which is day 0
  Span,          \* days of the preset last30d
  DayTicks,      \* instants of a day
  Zones,         \* time zones of browsers and charts: ticks ahead of UTC
  FirstDay,      \* the day on which a behavior begins
  Links,         \* ranges in links
  NoDay,
  MaxTicks       \* bound on the time that passes

ASSUME CalendarAssumption ==
  /\ MonthLengths \in Seq(Nat \ {0}) /\ {Week, Span, DayTicks} \subseteq Nat \ {0}
  /\ NoDay \notin Int

VARIABLES
  zone,          \* the browser's
  wide,          \* whether its window is at least `sm` wide
  now,           \* the instant
  value,         \* the range of the URL: from, to
  calendarOpen,  \* the popover
  picked,        \* what has been picked in it
  month,         \* the first of the two months shown
  focused,       \* the day a Tab would come to
  inGrid,        \* whether the keyboard is on a day
  asked,         \* history: the days asked for, none for all; NoDay after a link
  adrift         \* history: how the focused day left both months

dates ==
  <<zone, wide, now, value, calendarOpen, picked, month, focused, inGrid, asked, adrift>>

-----------------------------------------------------------------------------
(* The calendar *)

Months == 1..Len(MonthLengths)
DaysBefore[m \in 1..Len(MonthLengths) + 1] ==
  IF m = 1 THEN 0 ELSE DaysBefore[m - 1] + MonthLengths[m - 1]
Calendar == 1..DaysBefore[Len(MonthLengths) + 1]
DaysOf == [m \in Months |-> DaysBefore[m] + 1..DaysBefore[m + 1]]
MonthOf == [d \in Calendar |-> CHOOSE m \in Months : d \in DaysOf[m]]

FromParts(m, day) == DaysBefore[m] + day
DateOf(d) == d - DaysBefore[MonthOf[d]]
Weekday(d) == d % Week

DayAt(t, tz) == (t + tz) \div DayTicks
Today == DayAt(now, zone)

Ranges == [from : Calendar \cup {NoDay}, to : Calendar \cup {NoDay}]
NoRange == [from |-> NoDay, to |-> NoDay]
FromTo(a, b) == [from |-> a, to |-> b]

\* The calendar begins long enough before a behavior for its presets, and goes on
\* after it; no zone is more than a day from UTC, no month shorter than a week.
ASSUME ReachAssumption ==
  /\ FirstDay \in Int /\ MaxTicks \in Nat /\ Zones \subseteq -DayTicks..DayTicks
  /\ Week < FirstDay - 1 /\ Span < FirstDay - 1 /\ MonthLengths[1] < FirstDay - 1
  /\ DayAt(FirstDay * DayTicks + MaxTicks, DayTicks) \in Calendar
  /\ \A m \in Months : Week <= MonthLengths[m]
  /\ Links \subseteq Ranges

-----------------------------------------------------------------------------
(* The range filter *)

Presets == {"today", "last7d", "last30d", "thisMonth", "lastMonth"}

PresetRange(p) ==
  CASE p = "today" -> FromTo(Today, Today)
    [] p = "last7d" -> FromTo(Today - (Week - 1), Today)
    [] p = "last30d" -> FromTo(Today - (Span - 1), Today)
    [] p = "thisMonth" -> FromTo(FromParts(MonthOf[Today], 1), Today)
    [] p = "lastMonth" ->
         FromTo(FromParts(MonthOf[Today] - 1, 1), FromParts(MonthOf[Today], 0))

\* Two months are rendered, and the keys count both, but a narrow window displays
\* the first one only.
DaysCountedFrom(m) == DaysOf[m] \cup DaysOf[m + 1]
DaysShownFrom(m) == IF wide THEN DaysCountedFrom(m) ELSE DaysOf[m]
DaysShown == DaysShownFrom(month)

Anchor == IF value.from # NoDay THEN value.from ELSE Today

DatesInit ==
  /\ zone \in Zones /\ wide \in BOOLEAN
  /\ now = FirstDay * DayTicks
  /\ value = NoRange /\ picked = NoRange
  /\ calendarOpen = FALSE
  /\ month = MonthOf[Today] /\ focused = Today /\ inGrid = FALSE
  /\ asked = {} /\ adrift = "no"

\* Opened again, the popover has forgotten what was half picked.
OpenCalendar ==
  /\ ~calendarOpen /\ MonthOf[Anchor] < Len(MonthLengths)
  /\ calendarOpen' = TRUE
  /\ picked' = value
  /\ month' = MonthOf[Anchor] /\ focused' = Anchor
  /\ inGrid' = FALSE /\ adrift' = "no"
  /\ UNCHANGED <<zone, wide, now, value, asked>>

DismissCalendar ==
  /\ calendarOpen
  /\ calendarOpen' = FALSE /\ inGrid' = FALSE
  /\ UNCHANGED <<zone, wide, now, value, picked, month, focused, asked, adrift>>

CommitRange(range, days) ==
  /\ picked' = range /\ value' = range
  /\ calendarOpen' = FALSE /\ inGrid' = FALSE
  /\ asked' = days
  /\ UNCHANGED <<zone, wide, now, month, focused, adrift>>

Between(a, b) == {d \in Calendar : a <= d /\ d <= b}

PickFirst(d) ==
  /\ calendarOpen /\ d \in DaysShown
  /\ picked.from = NoDay \/ picked.to # NoDay
  /\ picked' = FromTo(d, NoDay) /\ inGrid' = TRUE
  /\ UNCHANGED <<zone, wide, now, value, calendarOpen, month, focused, asked, adrift>>

\* Faulty: the second pick is the end, whichever comes first.
OrderedAsPicked(a, b) == FromTo(a, b)

\* A second pick before the first is the start.
Ordered(a, b) == IF b < a THEN FromTo(b, a) ELSE FromTo(a, b)

PickSecond(d) ==
  /\ calendarOpen /\ d \in DaysShown
  /\ picked.from # NoDay /\ picked.to = NoDay
  /\ CommitRange(Ordered(picked.from, d),
                 Between(picked.from, d) \cup Between(d, picked.from))

\* The days a preset means.
Meant(p) ==
  CASE p = "today" -> {Today}
    [] p = "last7d" -> {d \in Calendar : d <= Today /\ Today < d + Week}
    [] p = "last30d" -> {d \in Calendar : d <= Today /\ Today < d + Span}
    [] p = "thisMonth" -> {d \in DaysOf[MonthOf[Today]] : d <= Today}
    [] p = "lastMonth" -> DaysOf[MonthOf[Today] - 1]

PickPreset(p) == calendarOpen /\ CommitRange(PresetRange(p), Meant(p))

\* Beside the popover, which the press closes, and in it.
ClearRange == value # NoRange /\ CommitRange(NoRange, {})
ClearRangeInside == calendarOpen /\ CommitRange(NoRange, {})

\* The buttons beside the months' titles move no day.
PageMonths(step) ==
  /\ calendarOpen /\ month + step \in 1..Len(MonthLengths) - 1
  /\ month' = month + step /\ inGrid' = FALSE
  /\ adrift' = IF focused \in DaysCountedFrom(month') THEN "no" ELSE "paged"
  /\ UNCHANGED <<zone, wide, now, value, calendarOpen, picked, focused, asked>>

\* Tab, while there is a day to come to.
TabIn ==
  /\ calendarOpen /\ focused \in DaysShown
  /\ inGrid' = TRUE
  /\ UNCHANGED
       <<zone, wide, now, value, calendarOpen, picked, month, focused, asked, adrift>>

\* Faulty: the first day of the third month counts as shown.
WindowTillThird(next) ==
  IF next < FromParts(month, 1) THEN month - 1
  ELSE IF next > FromParts(month + 2, 1) THEN month + 1 ELSE month

WindowFor(next) ==
  IF next < FromParts(month, 1) THEN month - 1
  ELSE IF next > FromParts(month + 2, 0) THEN month + 1 ELSE month

\* moveFocus, with the effect that follows: the keyboard goes to the new day if it is
\* displayed, and else stays on its own, unless that went with the month it was in
\* (a grid ends with days of the months beside, which may be the same button).
Move(next, how) ==
  /\ calendarOpen /\ inGrid
  /\ next \in Calendar /\ WindowFor(next) \in 1..Len(MonthLengths) - 1
  /\ focused' = next /\ month' = WindowFor(next)
  /\ inGrid' \in IF next \in DaysShownFrom(month') \/ month' = month THEN {TRUE}
                 ELSE BOOLEAN
  /\ adrift' = IF next \in DaysCountedFrom(month') THEN "no"
               ELSE IF adrift = "no" THEN how ELSE adrift
  /\ UNCHANGED <<zone, wide, now, value, calendarOpen, picked, asked>>

Arrow(step) == Move(focused + step, "no")

\* A date that the month beside does not have is one of the month after it.
PageKey(step) ==
  LET beside == MonthOf[focused] + step IN
  /\ beside \in Months
  /\ Move(FromParts(beside, DateOf(focused)),
          IF DateOf(focused) > MonthLengths[beside] THEN "leapt" ELSE "no")

HomeKey == Move(focused - Weekday(focused), "no")
EndKey == Move(focused + (Week - 1) - Weekday(focused), "no")

Arrive(link) ==
  /\ value' = link /\ asked' = NoDay
  /\ UNCHANGED <<zone, wide, now, calendarOpen, picked, month, focused, inGrid, adrift>>

Pass ==
  /\ now < FirstDay * DayTicks + MaxTicks
  /\ now' = now + 1
  /\ UNCHANGED
       <<zone, wide, value, calendarOpen, picked, month, focused, inGrid, asked, adrift>>

\* The window crosses the breakpoint: the month no longer displayed may have had the
\* keyboard.
ResizeCalendar ==
  /\ wide' = ~wide
  /\ inGrid' \in IF wide THEN {FALSE, inGrid} ELSE {inGrid}
  /\ UNCHANGED
       <<zone, now, value, calendarOpen, picked, month, focused, asked, adrift>>

DatesNext ==
  \/ OpenCalendar \/ DismissCalendar \/ ClearRange \/ ClearRangeInside
  \/ \E d \in Calendar : PickFirst(d) \/ PickSecond(d)
  \/ \E p \in Presets : PickPreset(p)
  \/ \E step \in {-1, 1} : PageMonths(step) \/ PageKey(step)
  \/ \E step \in {-1, 1, -Week, Week} : Arrow(step)
  \/ TabIn \/ HomeKey \/ EndKey
  \/ \E link \in Links : Arrive(link)
  \/ ResizeCalendar \/ Pass

DatesSpec == DatesInit /\ [][DatesNext]_dates

-----------------------------------------------------------------------------
(* The server: instants between two bounds, either of which may be missing *)

\* Faulty: the last day ends where it begins.
UpperBoundAtStart(day) == day * DayTicks

\* decodeDateBound: a day begins and ends in UTC.
LowerBound(day) == day * DayTicks
UpperBound(day) == day * DayTicks + (DayTicks - 1)

Listed(range, t) ==
  /\ range.from # NoDay => LowerBound(range.from) <= t
  /\ range.to # NoDay => t <= UpperBound(range.to)

\* resolveDateRange of a dashboard, in UTC and up to this instant.
DashboardRange(p) ==
  LET utcToday == DayAt(now, 0) IN
  CASE p = "today" -> FromTo(LowerBound(utcToday), now)
    [] p = "yesterday" -> FromTo(LowerBound(utcToday - 1), UpperBound(utcToday - 1))
    [] p = "last7d" -> FromTo(now - Week * DayTicks, now)
    [] p = "last30d" -> FromTo(now - Span * DayTicks, now)
    [] p = "MTD" -> FromTo(LowerBound(FromParts(MonthOf[utcToday], 1)), now)

DashboardPresets == {"today", "yesterday", "last7d", "last30d", "MTD"}

\* Faulty: a bucket for each whole day since the range began.
BucketsSince(range, tz) ==
  {DayAt(range.from, tz) + n : n \in 0..((range.to - range.from) \div DayTicks)}

\* fillDays: a bucket for each day of the chart's time zone that the range touches.
Buckets(range, tz) == Between(DayAt(range.from, tz), DayAt(range.to, tz))

-----------------------------------------------------------------------------
(* Properties *)

\* The list has the rows of the days that were picked, whichever was picked first
\* and across the ends of months, and all rows when none is; a day is UTC's.
RowsAreOfTheDays ==
  asked # NoDay =>
    \A t \in 0..(LowerBound(DaysBefore[Len(MonthLengths) + 1]) + DayTicks) :
      Listed(value, t) <=> asked = {} \/ DayAt(t, 0) \in asked

\* "Roving tabstop - exactly one day across all rendered months is tabbable", except
\* in the second month of a narrow window, which is rendered and not displayed, and
\* unless the buttons or a leap over a short month took the day out of both.
DayIsInReach ==
  calendarOpen =>
    \/ focused \in DaysShown
    \/ ~wide /\ focused \in DaysOf[month + 1]
    \/ adrift # "no"

\* A chart of a dashboard's range has a place for every row of it, in whichever
\* time zone its days are.
EveryRowHasItsBucket ==
  \A p \in DashboardPresets, tz \in Zones :
    LET range == DashboardRange(p) IN
    \A t \in range.from..range.to : DayAt(t, tz) \in Buckets(range, tz)

RangesAreTold == RowsAreOfTheDays /\ DayIsInReach /\ EveryRowHasItsBucket
=============================================================================
