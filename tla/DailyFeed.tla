----------------------------- MODULE DailyFeed -----------------------------
(***************************************************************************)
(* The daily feeds behind the adapter, as the adapter's comments describe  *)
(* them: the world of one symbol, not code of the repository.  A feed      *)
(* publishes a session's bar some time after the close; it may serve a     *)
(* fragment of the session instead, and keep serving it for days; it       *)
(* back-adjusts the whole history for a corporate action at a moment of    *)
(* its own choosing.                                                       *)
(*                                                                         *)
(* A bar is reduced to what the adapter can tell apart: adj, whether it is *)
(* on the scale that holds from the ex-date on; thin, whether its volume   *)
(* is far below the symbol's own; settled, whether it is the whole         *)
(* session.                                                                *)
(***************************************************************************)
EXTENDS MarketHours

CONSTANTS
  Sources,            \* the names in VN_MARKET_DATA_SOURCES
  FirstDay, LastDay,  \* the days the model looks at
  ListedFrom,         \* the symbol's first session
  NoTrade,            \* sessions the symbol did not trade: no feed has a bar
  Quiet,              \* genuinely thin sessions
  Ex,                 \* the ex-date; at or before FirstDay, no action is modelled
  FragDays,           \* sessions a feed may serve a fragment of
  MidSession,         \* may a feed serve the day in progress as a bar?
  Hollow,             \* sources that answer a failure with "no rows" (vci, dnse)
  AdoptBy,            \* the instant by which every source has adjusted its history
  PublishLag          \* OHLCV_PUBLISH_LAG

Days == FirstDay .. LastDay

Row  == [adj : BOOLEAN, thin : BOOLEAN, settled : BOOLEAN]
Rows == [Days -> Row \cup {None}]
NoRows == [d \in Days |-> None]

ASSUME FeedAssumption ==
  /\ FirstDay \in Int /\ LastDay \in Int /\ ListedFrom \in Int /\ Ex \in Int
  /\ AdoptBy \in Int /\ PublishLag \in Nat
  /\ NoTrade \subseteq Days /\ Quiet \subseteq Days /\ FragDays \subseteq Days
  /\ MidSession \in BOOLEAN /\ Hollow \subseteq Sources
  /\ None \notin Sources /\ None \notin Row

VARIABLES
  now,       \* the wall clock, in slots
  frag,      \* source -> the dates it serves a fragment of
  adjusted   \* source -> has it adjusted the history before Ex?

feedVars == <<now, frag, adjusted>>

Today == Day(now)
Published(d) == d * SlotsPerDay + CloseSlot + PublishLag
Traded(d) == IsTradingDay(d) /\ d >= ListedFrom /\ d \notin NoTrade

\* What source s has for date d at this instant.
Served(s, d) ==
  IF ~Traded(d) \/ d > Today THEN None
  ELSE LET scale == d >= Ex \/ adjusted[s] IN
    CASE d \in frag[s] ->
           [adj |-> scale, thin |-> TRUE, settled |-> FALSE]
      [] d \notin frag[s] /\ now >= Published(d) ->
           [adj |-> scale, thin |-> d \in Quiet, settled |-> TRUE]
      [] d \notin frag[s] /\ now < Published(d) /\ MidSession
           /\ now >= d * SlotsPerDay + OpenSlot ->
           [adj |-> scale, thin |-> FALSE, settled |-> FALSE]
      [] OTHER -> None

ServedRange(s, from, to) ==
  [d \in Days |-> IF from <= d /\ d <= to THEN Served(s, d) ELSE None]

FeedInit(t) ==
  /\ now = t
  /\ frag = [s \in Sources |-> {}]
  /\ adjusted = [s \in Sources |-> FALSE]

\* A feed starts to serve the session in progress, or just over, as its bar.
Truncate(s) ==
  /\ Today \in FragDays /\ Traded(Today)
  /\ OpenSlot <= Slot(now) /\ now <= Published(Today)
  /\ Today \notin frag[s]
  /\ frag' = [frag EXCEPT ![s] = @ \cup {Today}]
  /\ UNCHANGED <<now, adjusted>>

\* ... and at last publishes the session whole, or never does.
Settle(s, d) ==
  /\ d \in frag[s]
  /\ now >= Published(d)
  /\ frag' = [frag EXCEPT ![s] = @ \ {d}]
  /\ UNCHANGED <<now, adjusted>>

\* A source rescales every bar before the ex-date.
Adjust(s) ==
  /\ Ex > FirstDay /\ Today >= Ex
  /\ ~adjusted[s]
  /\ adjusted' = [adjusted EXCEPT ![s] = TRUE]
  /\ UNCHANGED <<now, frag>>

FeedStep ==
  \E s \in Sources :
    \/ Truncate(s)
    \/ \E d \in Days : Settle(s, d)
    \/ Adjust(s)

\* The instant AdoptBy does not pass before every source has adjusted.
MayPass == Ex <= FirstDay \/ now < AdoptBy \/ \A s \in Sources : adjusted[s]
=============================================================================
