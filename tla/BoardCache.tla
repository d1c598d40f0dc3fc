----------------------------- MODULE BoardCache -----------------------------
(***************************************************************************)
(* get_board of adapter.py over md_board: snapshots served while they are  *)
(* fresh, one source call for the others, and the last snapshot when no    *)
(* source answers.  The source (vietcap.py) asks for a board in batches,   *)
(* and blanks the foreign column of a wide board that reads zero all over. *)
(* The exchange resets the counters before the open, while the session the *)
(* clock names is still the last, and fills the foreign column later.      *)
(***************************************************************************)
EXTENDS MarketHours

CONSTANTS
  Callers, Symbols,
  Watchers,       \* callers that ask for Watched alone; the others ask for every symbol
  Watched,
  BatchSize,      \* _BOARD_BATCH
  Quorum,         \* _FOREIGN_QUORUM
  TTL,            \* BOARD_TTL_S
  StaleTTL,       \* BOARD_STALE_S
  MaxCallTicks,   \* how long a source call may take, from its HTTP timeouts
  Start, End      \* the first and the last instant (bounds the model)

\* asof and session say when an entry was read and what its counters count; the foreign
\* one is zero, more than zero or None.
Entry == [read_at : Int, asof : Int, session : Int, foreign : {0, 1, None}]
Entries == [Symbols -> Entry \cup {None}]

ASSUME BoardAssumption ==
  /\ BatchSize \in Nat \ {0} /\ Quorum \in Nat
  /\ TTL \in Nat /\ StaleTTL \in Nat /\ MaxCallTicks \in Nat
  /\ IsFiniteSet(Symbols) /\ Watched \subseteq Symbols /\ None \notin Entry
  /\ Start \in Nat /\ End \in Nat /\ SessionDate(Start) \in Int

VARIABLES
  now,        \* the wall clock
  counting,   \* the session the exchange's counters run for
  filled,     \* whether the feed fills the foreign column
  board,      \* md_board: the newest snapshot of each symbol
  call        \* what each get_board is doing

vars == <<now, counting, filled, board, call>>
market == <<counting, filled>>

\* need, read and out are the variables of get_board; rest is what the batches to come
\* ask for, early what was read before the column was filled.
Call == [pc : {"idle", "asking"}, began : Int, need : SUBSET Symbols, rest : SUBSET Symbols,
         read : Entries, early : SUBSET Symbols, out : Entries]

TypeOK ==
  /\ now \in Int /\ counting \in Int /\ filled \in BOOLEAN
  /\ board \in Entries
  /\ call \in [Callers -> Call]

Nothing == [s \in Symbols |-> None]

Idle == [pc |-> "idle", began |-> 0, need |-> {}, rest |-> {}, read |-> Nothing,
         early |-> {}, out |-> Nothing]

Init ==
  /\ now = Start /\ counting = SessionDate(Start) /\ filled = TRUE
  /\ board = Nothing
  /\ call = [c \in Callers |-> Idle]

\* Before the open of a trading day the exchange resets the counters; every call that
\* read them before has been banked by then (market_hours.py:182-187).
ResetDue(t) == IsTradingDay(Day(t)) /\ Slot(t) < OpenSlot - MaxCallTicks

Reset ==
  /\ ResetDue(now) /\ counting < Day(now)
  /\ counting' = Day(now) /\ filled' = FALSE
  /\ UNCHANGED <<now, board, call>>

Fill ==
  /\ ~filled /\ filled' = TRUE
  /\ UNCHANGED <<now, counting, board, call>>

Tick ==
  /\ now < End
  /\ ResetDue(now) /\ ~ResetDue(now + 1) => counting = Day(now)
  /\ \A c \in Callers : call[c].pc # "idle" => now < call[c].began + MaxCallTicks
  /\ now' = now + 1
  /\ UNCHANGED <<market, board, call>>
-----------------------------------------------------------------------------
\* The reader: VietcapSource.get_board.

Read(entries) == {s \in Symbols : entries[s] # None}

\* Until the column is filled, its zeros count nothing.
Snapshot(foreign) ==
  [read_at |-> now, asof |-> now, session |-> counting, foreign |-> foreign]

\* After an answer to a batch that knows these of its symbols, those above with a counter
\* that has moved.
AfterBatch(q, batch, known, above) ==
  [q EXCEPT !.rest = q.rest \ batch,
            !.early = IF filled THEN q.early ELSE q.early \cup known,
            !.read = [s \in Symbols |-> IF s \notin known THEN q.read[s]
                                        ELSE Snapshot(IF s \in above THEN 1 ELSE 0)]]

\* The next batch is answered; the answer may lack some of its symbols.
ReadBatch(c) ==
  /\ call[c].pc = "asking"
  /\ \E batch \in (SUBSET call[c].rest) \ {{}} :
       /\ \/ Cardinality(batch) = BatchSize
          \/ batch = call[c].rest /\ Cardinality(batch) < BatchSize
       /\ \E known \in SUBSET batch, above \in SUBSET batch :
            /\ above \subseteq known /\ (~filled => above = {})
            /\ call' = [call EXCEPT ![c] = AfterBatch(@, batch, known, above)]
  /\ UNCHANGED <<now, market, board>>

CountersMoved(read) == \E s \in Read(read) : read[s].foreign = 1

NoCounters(read) ==
  [s \in Symbols |-> IF s \in Read(read) THEN [read[s] EXCEPT !.foreign = None] ELSE None]

\* Mutated: each batch is judged on its own.
BlankedByBatch(read) ==
  IF BatchSize < Quorum \/ CountersMoved(read) THEN read ELSE NoCounters(read)

\* _blank_unpopulated_foreign: all zero on a wide enough board is no measurement.
Blanked(read) ==
  IF Cardinality(Read(read)) < Quorum \/ CountersMoved(read) THEN read ELSE NoCounters(read)
-----------------------------------------------------------------------------
\* get_board of the adapter.

\* Mutated: a snapshot is served up to the age an outage allows.
YoungerThanStale(s, ttl) == board[s] # None /\ now - board[s].read_at < StaleTTL

YoungerThan(s, ttl) == board[s] # None /\ now - board[s].read_at < ttl

LatestBoard(asked, ttl) ==
  [s \in Symbols |-> IF s \in asked /\ YoungerThan(s, ttl) THEN board[s] ELSE None]

Asked(c) == IF c \in Watchers THEN Watched ELSE Symbols

\* A call for symbols that are all fresh is answered from the store, and changes nothing.
GetBoard(c) ==
  /\ call[c].pc = "idle"
  /\ LET cached == LatestBoard(Asked(c), TTL)
         need == Asked(c) \ Read(cached)
     IN /\ need # {}
        /\ call' = [call EXCEPT ![c] =
             [Idle EXCEPT !.pc = "asking", !.began = now, !.need = need,
                          !.rest = need, !.out = cached]]
  /\ UNCHANGED <<now, market, board>>

\* A batch fails: the next source of the chain is asked for all of them.
NextSource(c) ==
  /\ call[c].rest \notin {{}, call[c].need}
  /\ call' = [call EXCEPT ![c] = [@ EXCEPT !.rest = call[c].need, !.read = Nothing,
                                                !.early = {}]]
  /\ UNCHANGED <<now, market, board>>

Stamped(c) ==
  [s \in Symbols |-> IF s \in Read(call[c].read)
                     THEN [Blanked(call[c].read)[s] EXCEPT !.read_at = now] ELSE None]

Over(old, fresh) == [s \in Symbols |-> IF fresh[s] = None THEN old[s] ELSE fresh[s]]

\* insert_board stamps the rows after the answer, and the newest stamp is the newest
\* snapshot; with nothing fresh nothing is written.
Bank(c) ==
  /\ call[c].pc = "asking" /\ call[c].rest = {}
  /\ board' = Over(board, Stamped(c))
  /\ call' = [call EXCEPT ![c] = Idle]
  /\ UNCHANGED <<now, market>>

\* No source answers: the caller gets Fallback(c), and nothing is banked.
Unavailable(c) ==
  /\ call[c].rest # {}
  /\ call' = [call EXCEPT ![c] = Idle]
  /\ UNCHANGED <<now, market, board>>

CallStep(c) ==
  \/ GetBoard(c) \/ ReadBatch(c) \/ NextSource(c) \/ Bank(c) \/ Unavailable(c)

Next ==
  \/ Reset \/ Fill \/ Tick
  \/ \E c \in Callers : CallStep(c)

Spec == Init /\ [][Next]_vars
-----------------------------------------------------------------------------
\* What get_board returns: from the store alone, with the answer of a source, and when
\* no source answers.
Cached == LatestBoard(Symbols, TTL)

Answered(c) ==
  IF call[c].pc = "asking" /\ call[c].rest = {} THEN Over(call[c].out, Stamped(c)) ELSE Nothing

Fallback(c) == Over(call[c].out, LatestBoard(call[c].need, StaleTTL))

Given(out) == {out[s] : s \in Read(out)}

\* A caller that banks the counters of an entry under board_session of its read_at
\* banks them under the session they count, or not at all: an entry cached across the
\* close, across midnight or across the reset is never zeros over a settled session.
CountersOfTheirSession ==
  \A c \in Callers : \A e \in Given(Cached) \cup Given(Answered(c)) \cup Given(Fallback(c)) :
    BoardSession(e.read_at) \in {None, e.session}

\* While a source answers, nothing older than the TTL and the two calls around it is
\* handed over as a board, concurrent callers included; and never, when none does,
\* anything older than the age an outage allows and those calls.
NothingOld ==
  \A c \in Callers :
    /\ \A e \in Given(Cached) \cup Given(Answered(c)) : now - e.asof < TTL + 2 * MaxCallTicks
    /\ \A e \in Given(Fallback(c)) : now - e.asof < StaleTTL + 2 * MaxCallTicks

\* A board wide enough to be judged is banked without the zeros of a column that was
\* not filled, in however many batches it was read and whatever happened between them;
\* where one counter has moved, every counter is kept (README.md:75).
ZerosAreFacts ==
  [][\A c \in Callers : Bank(c) /\ Cardinality(Read(call[c].read)) >= Quorum =>
       LET read == call[c].read
       IN IF CountersMoved(read)
          THEN \A s \in Read(read) : board'[s].foreign = read[s].foreign
          ELSE \A s \in call[c].early : board'[s].foreign = None]_vars

\* What README.md:75 says of a board, without saying how it was put together: over the
\* quorum it never reads zero on every symbol.  Not kept once the snapshots of narrower
\* calls are part of it: BoardQuorum.cfg.
NoZeroBoard ==
  \A c \in Callers : Cardinality(Read(Answered(c))) >= Quorum =>
    \E s \in Read(Answered(c)) : Answered(c)[s].foreign # 0
=============================================================================
