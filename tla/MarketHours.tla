---------------------------- MODULE MarketHours ----------------------------
(***************************************************************************)
(* The session clock of market_hours.py.  An instant is a number of slots: *)
(* SlotsPerDay of them make one ICT calendar day, the padded session is    *)
(* [OpenSlot, CloseSlot) of a trading day.  Days are numbered from a       *)
(* Monday.  Slots abstract minutes: only the order of the open, the close  *)
(* and the instants a program acts at matters to the functions below.      *)
(***************************************************************************)
EXTENDS Integers, FiniteSetsExt

CONSTANTS
  SlotsPerDay, OpenSlot, CloseSlot,
  Holidays,                       \* EXCHANGE_HOLIDAYS: weekdays that were closed
  CalendarFrom, CalendarThrough,  \* the window that table can answer for
  MaxClosedRun,                   \* MAX_CLOSED_RUN_DAYS
  None                            \* Python's None

ASSUME ClockAssumption ==
  /\ SlotsPerDay \in Nat \ {0} /\ OpenSlot \in Nat /\ CloseSlot \in Nat
  /\ OpenSlot < CloseSlot /\ CloseSlot < SlotsPerDay
  /\ Holidays \subseteq Int /\ CalendarFrom \in Int /\ CalendarThrough \in Int
  /\ MaxClosedRun \in Nat
  /\ None \notin Int

Day(t) == t \div SlotsPerDay
Slot(t) == t % SlotsPerDay
Weekday(d) == d % 7                        \* 0 is Monday, 5 and 6 the weekend

CalendarCovers(d) == CalendarFrom <= d /\ d <= CalendarThrough

IsTradingDay(d) ==
  /\ Weekday(d) < 5
  /\ ~(CalendarCovers(d) /\ d \in Holidays)

\* Mutated: the first day is counted too.
SessionsBetweenInclusive(start, end) ==
  Cardinality({d \in start .. end : IsTradingDay(d)})

SessionsBetween(start, end) ==
  Cardinality({d \in (start + 1) .. end : IsTradingDay(d)})

SessionLive(t) ==
  /\ IsTradingDay(Day(t))
  /\ OpenSlot <= Slot(t) /\ Slot(t) < CloseSlot

\* Mutated: the walk-back has the length of the longest closure and no headroom.
ClosedSessionsShort(t) ==
  {d \in (Day(t) - (MaxClosedRun - 1)) .. Day(t) :
     IsTradingDay(d) /\ (d < Day(t) \/ Slot(t) >= CloseSlot)}

\* The trading days the walk-back of last_session_close visits whose close is
\* behind t; the code raises AssertionError when there is none.
ClosedSessions(t) ==
  {d \in (Day(t) - (MaxClosedRun + 6)) .. Day(t) :
     IsTradingDay(d) /\ (d < Day(t) \/ Slot(t) >= CloseSlot)}

LastClosedDay(t) == Max(ClosedSessions(t))
LastSessionClose(t) == LastClosedDay(t) * SlotsPerDay + CloseSlot

SessionDate(t) == IF SessionLive(t) THEN Day(t) ELSE LastClosedDay(t)

\* Mutated: counters are dated as a price is.
BoardSessionAsPrice(t) == SessionDate(t)

BoardSession(t) ==
  IF IsTradingDay(Day(t)) /\ Slot(t) < OpenSlot THEN None ELSE SessionDate(t)

\* Mutated: a success at the very close does not count as after it.
FetchDueAtClose(lastOk, t) ==
  SessionLive(t) \/ (lastOk # None => lastOk <= LastSessionClose(t))

\* Mutated: no catch-up pass once there has been a success.
FetchDueLiveOnly(lastOk, t) == SessionLive(t) \/ lastOk = None

FetchDue(lastOk, t) ==
  SessionLive(t) \/ (lastOk # None => lastOk < LastSessionClose(t))
=============================================================================
