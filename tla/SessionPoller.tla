--------------------------- MODULE SessionPoller ---------------------------
(***************************************************************************)
(* A loop gated on market_hours.fetch_due, as market_hours.py:3-6 promises *)
(* it behaves: it polls freely during the session, makes one catch-up pass *)
(* per closed stretch and is silent until the open.                        *)
(***************************************************************************)
EXTENDS MarketHours

CONSTANT End   \* the last instant (bounds the model)

ASSUME EndAssumption == End \in Nat

VARIABLES
  now,      \* the wall clock
  lastOk,   \* when the loop last fetched with success
  passes    \* its successes since the exchanges were last open

vars == <<now, lastOk, passes>>

TypeOK ==
  /\ now \in 0 .. End
  /\ lastOk \in 0 .. End \cup {None}
  /\ passes \in Nat

Init == now = 0 /\ lastOk = None /\ passes = 0

\* A source that does not answer leaves lastOk as it was, and the loop tries again.
Poll ==
  /\ FetchDue(lastOk, now)
  /\ lastOk' = now
  /\ passes' = IF SessionLive(now) THEN 0 ELSE passes + 1
  /\ UNCHANGED now

Tick ==
  /\ now < End
  /\ now' = now + 1
  /\ passes' = IF SessionLive(now + 1) THEN 0 ELSE passes
  /\ UNCHANGED lastOk

Next == Poll \/ Tick
Spec == Init /\ [][Next]_vars
FairSpec == Spec /\ WF_vars(Tick) /\ WF_vars(Poll)
-----------------------------------------------------------------------------
\* Out of the session the loop succeeds at most once before the next open, over a
\* weekend and over the longest closure alike.
OneCatchUp == passes <= 1

\* The walk-back always finds a session that has closed: last_session_close never
\* raises its AssertionError, the last day of the longest closure included.
AlwaysAClose == ClosedSessions(now) # {}

\* The session a live read belongs to never goes back, and no session is skipped:
\* sessions_between counts one for each.
SessionDateAdvances ==
  [][/\ SessionDate(now) <= SessionDate(now')
     /\ SessionsBetween(SessionDate(now), SessionDate(now')) <= 1]_vars

\* Every settled close is fetched: once a session has closed the loop succeeds after
\* the close, provided that it is scheduled and the sources answer.
CloseIsFetched ==
  \A d \in 0 .. Day(End) :
    IsTradingDay(d) =>
      now = d * SlotsPerDay + CloseSlot ~> lastOk # None /\ lastOk >= d * SlotsPerDay + CloseSlot
=============================================================================
