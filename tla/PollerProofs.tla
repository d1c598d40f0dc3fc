---------------------------- MODULE PollerProofs ----------------------------
(***************************************************************************)
(* Theorems about SessionPoller and the clock it is gated on, for any      *)
(* hours and any calendar whose closures are no longer than it knows: one  *)
(* catch-up pass per closed stretch, a last close at every instant, and a  *)
(* session date that never goes back and skips no session.                 *)
(***************************************************************************)
EXTENDS SessionPoller, FiniteSetTheorems, TLAPS

\* No closure is longer than the longest the calendar knows.
LongestClosure == \A d \in Int : \E k \in (d - MaxClosedRun) .. d : IsTradingDay(k)

\* A pass made since the last close is not made again, and there is none to make in the
\* session.
PollerInv ==
  /\ TypeOK
  /\ SessionLive(now) => passes = 0
  /\ passes # 0 => /\ passes = 1 /\ lastOk # None
                   /\ LastSessionClose(now) <= lastOk
-----------------------------------------------------------------------------
\* The clock.

LEMMA MaxOfFinite ==
  ASSUME NEW S, S \subseteq Int, IsFiniteSet(S), S # {}
  PROVE  Max(S) \in S /\ \A y \in S : Max(S) >= y
<1> DEFINE above(x) == {y \in S : x < y}
           T == {above(x) : x \in S}
<1>1. IsWellFoundedOn(StrictSubsetOrdering(S), FiniteSubsetsOf(S))
  BY FS_StrictSubsetOrderingWellFounded
<1>2. T \subseteq FiniteSubsetsOf(S) /\ T # {}
  <2>1. \A x \in S : above(x) \subseteq S /\ IsFiniteSet(above(x))
    BY FS_Subset
  <2> QED BY <2>1 DEF FiniteSubsetsOf
<1>3. PICK U \in T : \A V \in T : <<V, U>> \notin StrictSubsetOrdering(S)
  BY <1>1, <1>2, WFMin
<1>4. PICK x \in S : U = above(x)
  OBVIOUS
<1>5. \A y \in S : x >= y
  <2> SUFFICES ASSUME NEW y \in S, x < y PROVE FALSE
    OBVIOUS
  <2>1. above(y) \subseteq U /\ y \in U /\ y \notin above(y)
    <3>1. \A z \in above(y) : z \in S /\ x < z
      OBVIOUS
    <3>2. y \in U /\ y \notin above(y)
      BY <1>4
    <3> QED BY <1>4, <3>1, <3>2
  <2>2. <<above(y), U>> \in StrictSubsetOrdering(S)
    BY <1>4, <2>1 DEF StrictSubsetOrdering
  <2> QED BY <1>3, <2>2
<1> QED BY <1>5 DEF Max

LEMMA SlotBounds ==
  ASSUME NEW t \in Int
  PROVE  /\ Day(t) \in Int /\ Slot(t) \in Int /\ Day(t) * SlotsPerDay \in Int
         /\ t = Day(t) * SlotsPerDay + Slot(t)
         /\ 0 <= Slot(t) /\ Slot(t) < SlotsPerDay
         /\ Day(t) * SlotsPerDay <= t /\ t < Day(t) * SlotsPerDay + SlotsPerDay
BY ClockAssumption DEF Day, Slot

LEMMA DaysApart ==
  ASSUME NEW d \in Int, NEW e \in Int, d < e
  PROVE  d * SlotsPerDay + SlotsPerDay <= e * SlotsPerDay
<1> DEFINE S == SlotsPerDay
<1>1. S \in Nat \ {0}
  BY ClockAssumption
<1>2. (e - d - 1) * S >= 0
  BY <1>1
<1>3. (e - d - 1) * S = e * S - d * S - S
  BY <1>1
<1> QED BY <1>1, <1>2, <1>3

\* The day of an instant is the one whose slots it is among.
LEMMA DayOf ==
  ASSUME NEW t \in Int, NEW d \in Int,
         d * SlotsPerDay <= t, t < d * SlotsPerDay + SlotsPerDay
  PROVE  Day(t) = d
<1>1. /\ d * SlotsPerDay \in Int /\ SlotsPerDay \in Int /\ Day(t) * SlotsPerDay \in Int
      /\ Day(t) \in Int
  BY ClockAssumption, SlotBounds
<1>2. Day(t) * SlotsPerDay <= t /\ t < Day(t) * SlotsPerDay + SlotsPerDay
  BY <1>1, SlotBounds
<1>3. ~(Day(t) < d)
  <2>1. Day(t) < d => Day(t) * SlotsPerDay + SlotsPerDay <= d * SlotsPerDay
    BY <1>1, DaysApart
  <2> QED BY <1>1, <1>2, <2>1
<1>4. ~(d < Day(t))
  <2>1. d < Day(t) => d * SlotsPerDay + SlotsPerDay <= Day(t) * SlotsPerDay
    BY <1>1, DaysApart
  <2> QED BY <1>1, <1>2, <2>1
<1> QED BY <1>1, <1>3, <1>4

\* last_session_close finds a trading day behind it, and the newest one.
LEMMA LastClosed ==
  ASSUME LongestClosure, NEW t \in Int
  PROVE  /\ LastClosedDay(t) \in ClosedSessions(t)
         /\ \A d \in ClosedSessions(t) : d <= LastClosedDay(t)
<1>1. Day(t) \in Int /\ MaxClosedRun \in Nat
  BY SlotBounds, ClockAssumption
<1>2. PICK k \in Int :
        Day(t) - 1 - MaxClosedRun <= k /\ k <= Day(t) - 1 /\ IsTradingDay(k)
  <2> DEFINE d == Day(t) - 1
  <2>1. d \in Int
    BY <1>1
  <2>2. PICK k \in (d - MaxClosedRun) .. d : IsTradingDay(k)
    BY <2>1 DEF LongestClosure
  <2> QED BY <1>1, <2>2
<1>3. k \in ClosedSessions(t)
  BY <1>1, <1>2 DEF ClosedSessions
<1>4. ClosedSessions(t) \subseteq (Day(t) - (MaxClosedRun + 6)) .. Day(t)
  BY DEF ClosedSessions
<1>5. IsFiniteSet((Day(t) - (MaxClosedRun + 6)) .. Day(t))
  BY <1>1, FS_Interval
<1>6. IsFiniteSet(ClosedSessions(t)) /\ ClosedSessions(t) \subseteq Int
  BY <1>1, <1>4, <1>5, FS_Subset
<1>7. /\ LastClosedDay(t) \in ClosedSessions(t)
      /\ \A d \in ClosedSessions(t) : LastClosedDay(t) >= d
  BY <1>3, <1>6, MaxOfFinite DEF LastClosedDay
<1> QED BY <1>6, <1>7

LEMMA CloseIsPast ==
  ASSUME LongestClosure, NEW t \in Int
  PROVE  LastSessionClose(t) \in Int /\ LastSessionClose(t) <= t
<1> DEFINE d == LastClosedDay(t)  e == Day(t)  S == SlotsPerDay
<1>1. /\ d \in Int /\ e \in Int /\ d <= e /\ (d = e => CloseSlot <= Slot(t))
      /\ S \in Nat /\ CloseSlot \in Nat /\ CloseSlot < S
  <2>1. e \in Int /\ MaxClosedRun \in Nat /\ S \in Nat /\ CloseSlot \in Nat /\ CloseSlot < S
    BY SlotBounds, ClockAssumption
  <2> QED BY <2>1, LastClosed DEF ClosedSessions
<1>2. d * S \in Int /\ e * S \in Int
  BY <1>1
<1>3. Slot(t) \in Int /\ t = e * S + Slot(t) /\ 0 <= Slot(t)
  BY SlotBounds
<1>4. LastSessionClose(t) = d * S + CloseSlot
  BY DEF LastSessionClose
<1>5. d < e => d * S + S <= e * S
  BY <1>1, DaysApart
<1> HIDE DEF d, e, S
<1> QED BY <1>1, <1>2, <1>3, <1>4, <1>5

\* The next slot is of the same day, or the first of the next.
LEMMA NextSlot ==
  ASSUME NEW t \in Int
  PROVE  \/ Day(t + 1) = Day(t) /\ Slot(t + 1) = Slot(t) + 1
         \/ Day(t + 1) = Day(t) + 1 /\ Slot(t + 1) = 0 /\ Slot(t) = SlotsPerDay - 1
<1> DEFINE d == Day(t)  e == Day(t + 1)  S == SlotsPerDay
<1>1. /\ d \in Int /\ d * S \in Int /\ S \in Nat /\ t + 1 \in Int
      /\ Slot(t) \in Int /\ 0 <= Slot(t) /\ Slot(t) < S /\ t = d * S + Slot(t)
  BY SlotBounds, ClockAssumption
<1>2. /\ e \in Int /\ e * S \in Int /\ Slot(t + 1) \in Int /\ t + 1 = e * S + Slot(t + 1)
  BY <1>1, SlotBounds
<1>3. (d + 1) * S = d * S + S
  BY <1>1
<1> HIDE DEF d, e, S
<1>4. CASE Slot(t) + 1 < S
  <2>1. d * S <= t + 1 /\ t + 1 < d * S + S
    BY <1>1, <1>4
  <2>2. e = d
    BY <1>1, <2>1, DayOf DEF e, S
  <2>3. Slot(t + 1) = Slot(t) + 1
    BY <1>1, <1>2, <2>2
  <2> QED BY <2>2, <2>3 DEF d, e
<1>5. CASE ~(Slot(t) + 1 < S)
  <2>1. Slot(t) = S - 1
    BY <1>1, <1>5
  <2>2. t + 1 = d * S + S
    BY <1>1, <2>1
  <2>3. t + 1 = (d + 1) * S
    BY <1>3, <2>2
  <2>4. (d + 1) * S <= t + 1
    BY <1>1, <2>3
  <2>5. 0 < S
    BY <1>1
  <2>6. t + 1 < (d + 1) * S + S
    BY <1>1, <2>3, <2>5
  <2>7. e = d + 1
    BY <1>1, <2>4, <2>6, DayOf DEF e, S
  <2>8. Slot(t + 1) = 0
    BY <1>1, <1>2, <2>3, <2>7
  <2> QED BY <2>1, <2>7, <2>8 DEF d, e, S
<1> QED BY <1>4, <1>5

\* Out of the session no close goes by.
LEMMA CloseStays ==
  ASSUME LongestClosure, NEW t \in Int, ~SessionLive(t), ~SessionLive(t + 1)
  PROVE  LastClosedDay(t + 1) = LastClosedDay(t)
<1> DEFINE last == LastClosedDay(t + 1)
           first == LastClosedDay(t)
<1>1. /\ Day(t) \in Int /\ Day(t + 1) \in Int /\ Slot(t) \in Int /\ Slot(t + 1) \in Int
      /\ MaxClosedRun \in Nat /\ OpenSlot \in Nat /\ CloseSlot \in Nat /\ OpenSlot < CloseSlot
      /\ CloseSlot < SlotsPerDay /\ SlotsPerDay \in Nat /\ t + 1 \in Int
  BY SlotBounds, ClockAssumption
<1>2. CASE Day(t + 1) = Day(t) /\ Slot(t + 1) = Slot(t) + 1
  <2>1. IsTradingDay(Day(t)) => (Slot(t) >= CloseSlot <=> Slot(t + 1) >= CloseSlot)
    BY <1>1, <1>2 DEF SessionLive
  <2>2. ClosedSessions(t + 1) = ClosedSessions(t)
    BY <1>1, <1>2, <2>1 DEF ClosedSessions
  <2> QED BY <2>2 DEF LastClosedDay
<1>3. CASE Day(t + 1) = Day(t) + 1 /\ Slot(t + 1) = 0 /\ Slot(t) = SlotsPerDay - 1
  <2>1. /\ last \in Int /\ last <= Day(t) /\ Day(t) + 1 - (MaxClosedRun + 6) <= last
        /\ IsTradingDay(last)
        /\ \A d \in ClosedSessions(t + 1) : d <= last
    BY <1>1, <1>3, LastClosed DEF ClosedSessions
  <2>2. /\ first \in Int /\ first <= Day(t) /\ Day(t) - (MaxClosedRun + 6) <= first
        /\ IsTradingDay(first)
        /\ \A d \in ClosedSessions(t) : d <= first
    BY <1>1, <1>3, LastClosed DEF ClosedSessions
  <2>3. last \in ClosedSessions(t)
    BY <1>1, <1>3, <2>1 DEF ClosedSessions
  <2>4. first \in ClosedSessions(t + 1) \/ first < last
    BY <1>1, <1>3, <2>1, <2>2 DEF ClosedSessions
  <2> QED BY <2>1, <2>2, <2>3, <2>4
<1> QED BY <1>2, <1>3, NextSlot

\* The session date of an instant and of the next: the same, or the session that opens,
\* with no trading day between the two.
LEMMA NextSession ==
  ASSUME LongestClosure, NEW t \in Int
  PROVE  /\ SessionDate(t) \in Int /\ SessionDate(t + 1) \in Int
         /\ \/ SessionDate(t + 1) = SessionDate(t)
            \/ /\ SessionDate(t) <= SessionDate(t + 1)
               /\ \A d \in (SessionDate(t) + 1) .. SessionDate(t + 1) :
                    IsTradingDay(d) => d = SessionDate(t + 1)
<1>1. /\ Day(t) \in Int /\ Day(t + 1) \in Int /\ Slot(t) \in Int /\ Slot(t + 1) \in Int
      /\ MaxClosedRun \in Nat /\ OpenSlot \in Nat /\ CloseSlot \in Nat /\ OpenSlot < CloseSlot
      /\ CloseSlot < SlotsPerDay /\ SlotsPerDay \in Nat /\ t + 1 \in Int
  BY SlotBounds, ClockAssumption
<1>2. \A u \in {t, t + 1} :
        /\ LastClosedDay(u) \in Int /\ LastClosedDay(u) <= Day(u)
        /\ Day(u) - (MaxClosedRun + 6) <= LastClosedDay(u)
        /\ \A d \in ClosedSessions(u) : d <= LastClosedDay(u)
  BY <1>1, LastClosed DEF ClosedSessions
<1>3. SessionDate(t) \in Int /\ SessionDate(t + 1) \in Int
  BY <1>1, <1>2 DEF SessionDate
<1>4. CASE SessionLive(t)
  <2>1. /\ Day(t + 1) = Day(t) /\ Slot(t + 1) = Slot(t) + 1 /\ IsTradingDay(Day(t))
        /\ OpenSlot <= Slot(t) /\ Slot(t) < CloseSlot
    BY <1>1, <1>4, NextSlot DEF SessionLive
  <2>2. CASE SessionLive(t + 1)
    BY <1>3, <1>4, <2>1, <2>2 DEF SessionDate
  <2>3. CASE ~SessionLive(t + 1)
    <3>1. Slot(t + 1) >= CloseSlot
      BY <1>1, <2>1, <2>3 DEF SessionLive
    <3>2. Day(t + 1) \in ClosedSessions(t + 1)
      BY <1>1, <2>1, <3>1 DEF ClosedSessions
    <3>3. LastClosedDay(t + 1) = Day(t + 1)
      BY <1>1, <1>2, <3>2
    <3> QED BY <1>3, <1>4, <2>1, <2>3, <3>3 DEF SessionDate
  <2> QED BY <2>2, <2>3
<1>5. CASE ~SessionLive(t) /\ ~SessionLive(t + 1)
  BY <1>3, <1>5, CloseStays DEF SessionDate
<1>6. CASE ~SessionLive(t) /\ SessionLive(t + 1)
  <2>1. SessionDate(t) = LastClosedDay(t) /\ SessionDate(t + 1) = Day(t + 1)
    BY <1>6 DEF SessionDate
  <2>2. Day(t + 1) = Day(t) \/ (Day(t + 1) = Day(t) + 1 /\ Slot(t) >= CloseSlot)
    BY <1>1, NextSlot
  <2>3. LastClosedDay(t) <= Day(t + 1)
    BY <1>1, <1>2, <2>2
  <2>4. ASSUME NEW d \in (LastClosedDay(t) + 1) .. Day(t + 1), IsTradingDay(d), d # Day(t + 1)
        PROVE  FALSE
    <3>1. d \in ClosedSessions(t)
      BY <1>1, <1>2, <2>2, <2>4 DEF ClosedSessions
    <3> QED BY <1>1, <1>2, <2>4, <3>1
  <2> QED BY <1>3, <2>1, <2>3, <2>4
<1> QED BY <1>4, <1>5, <1>6
-----------------------------------------------------------------------------
\* PollerInv is inductive.

LEMMA InitPoller == Init => PollerInv
BY EndAssumption DEF Init, PollerInv, TypeOK

LEMMA NextPoller == ASSUME LongestClosure PROVE PollerInv /\ [Next]_vars => PollerInv'
<1> SUFFICES ASSUME PollerInv, [Next]_vars PROVE PollerInv'
  OBVIOUS
<1>1. now \in Int /\ now \in 0 .. End /\ lastOk \in 0 .. End \cup {None} /\ passes \in Nat
      /\ None \notin Int /\ End \in Nat
  BY EndAssumption, ClockAssumption DEF PollerInv, TypeOK
<1>2. CASE Poll
  <2>1. /\ FetchDue(lastOk, now) /\ lastOk' = now /\ now' = now
        /\ passes' = IF SessionLive(now) THEN 0 ELSE passes + 1
    BY <1>2 DEF Poll
  <2>2. TypeOK'
    BY <1>1, <2>1 DEF TypeOK
  <2>3. CASE SessionLive(now)
    BY <2>1, <2>2, <2>3 DEF PollerInv
  <2>4. CASE ~SessionLive(now)
    <3>1. LastSessionClose(now) \in Int /\ LastSessionClose(now) <= now
      BY <1>1, CloseIsPast
    <3>2. passes = 0
      BY <1>1, <2>1, <2>4, <3>1 DEF FetchDue, PollerInv
    <3>3. passes' = 1 /\ lastOk' # None /\ LastSessionClose(now') <= lastOk'
      BY <1>1, <2>1, <2>4, <3>1, <3>2
    <3>4. ~SessionLive(now)'
      BY <2>1, <2>4
    <3>5. (LastSessionClose(now) <= lastOk)'
      BY <3>3
    <3> QED BY <2>2, <3>3, <3>4, <3>5 DEF PollerInv
  <2> QED BY <2>3, <2>4
<1>3. CASE Tick
  <2>1. /\ now < End /\ now' = now + 1 /\ lastOk' = lastOk
        /\ passes' = IF SessionLive(now + 1) THEN 0 ELSE passes
    BY <1>3 DEF Tick
  <2>2. TypeOK'
    BY <1>1, <2>1 DEF TypeOK
  <2>3. CASE SessionLive(now + 1)
    BY <2>1, <2>2, <2>3 DEF PollerInv
  <2>4. CASE ~SessionLive(now + 1)
    <3>1. passes' = passes /\ ~SessionLive(now)'
      BY <2>1, <2>4
    <3>2. ASSUME passes # 0 PROVE LastSessionClose(now') <= lastOk
      <4>1. ~SessionLive(now)
        BY <3>2 DEF PollerInv
      <4>2. LastSessionClose(now + 1) = LastSessionClose(now)
        BY <1>1, <2>4, <4>1, CloseStays DEF LastSessionClose
      <4> QED BY <2>1, <3>2, <4>2 DEF PollerInv
    <3>3. (passes # 0 => passes = 1 /\ lastOk # None /\ LastSessionClose(now) <= lastOk)'
      BY <2>1, <3>1, <3>2 DEF PollerInv
    <3> QED BY <2>2, <3>1, <3>3 DEF PollerInv
  <2> QED BY <2>3, <2>4
<1>4. CASE UNCHANGED vars
  BY <1>4 DEF vars, PollerInv, TypeOK
<1> QED BY <1>2, <1>3, <1>4 DEF Next

\* Out of the session the loop succeeds at most once before the next open, over a
\* weekend and over the longest closure alike: fetch_due is false after a success until
\* the next close.
THEOREM OnePassPerStretch == ASSUME LongestClosure PROVE Spec => []OneCatchUp
<1>1. PollerInv => OneCatchUp
  BY DEF PollerInv, TypeOK, OneCatchUp
<1> QED BY <1>1, InitPoller, NextPoller, PTL DEF Spec

\* last_session_close never raises its AssertionError: the walk-back covers the longest
\* closure from its last day, before the close of the day itself.
THEOREM CloseAlwaysFound == ASSUME LongestClosure PROVE Spec => []AlwaysAClose
<1>1. PollerInv => AlwaysAClose
  BY LastClosed DEF PollerInv, TypeOK, AlwaysAClose
<1> QED BY <1>1, InitPoller, NextPoller, PTL DEF Spec

\* The session a live read belongs to never goes back, and no session is skipped.
THEOREM SessionsInOrder == ASSUME LongestClosure PROVE Spec => SessionDateAdvances
<1>1. ASSUME PollerInv, [Next]_vars
      PROVE  /\ SessionDate(now) <= SessionDate(now')
             /\ SessionsBetween(SessionDate(now), SessionDate(now')) <= 1
  <2> DEFINE a == SessionDate(now)
             b == SessionDate(now')
             between == {d \in (a + 1) .. b : IsTradingDay(d)}
  <2>1. now \in Int /\ now' \in {now, now + 1}
    BY <1>1 DEF PollerInv, TypeOK, Next, Poll, Tick, vars
  <2>2. a \in Int /\ b \in Int /\ a <= b /\ between \subseteq {b}
    <3>1. CASE now' = now
      BY <2>1, <3>1, NextSession
    <3>2. CASE now' = now + 1
      BY <2>1, <3>2, NextSession
    <3> QED BY <2>1, <3>1, <3>2
  <2>3. SessionsBetween(a, b) = Cardinality(between)
    BY DEF SessionsBetween
  <2> HIDE DEF between, a, b
  <2>4. IsFiniteSet({b}) /\ Cardinality({b}) = 1
    BY FS_Singleton
  <2>5. Cardinality(between) <= 1
    BY <2>2, <2>4, FS_Subset
  <2> QED BY <2>2, <2>3, <2>5 DEF a, b
<1>2. PollerInv /\ [Next]_vars
        => [/\ SessionDate(now) <= SessionDate(now')
            /\ SessionsBetween(SessionDate(now), SessionDate(now')) <= 1]_vars
  BY <1>1
<1> QED BY <1>2, InitPoller, NextPoller, PTL DEF Spec, SessionDateAdvances
=============================================================================
