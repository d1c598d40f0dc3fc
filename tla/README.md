# Verification of vn-market-data

TLA+ models of the market-data cache in this repository, the TLC configurations that
check them on small instances, and TLAPS proofs of the results that hold for every
instance. Paths such as `adapter.py:321` are relative to the repository root.

Contents: 1 the system, 2 the modules and the code, 3 the abstractions, 4 the runs,
5 fairness, 6 the proofs, 7 known disagreements, 8 what is not modelled, 9 the plan.

## 1. The system

The package puts a SQLite cache in front of several public market-data sources. It has no
scheduler, no queue and no server of its own: a host program calls the functions of
`adapter.py`, from coroutines and from worker threads (`asyncio.to_thread`), and several
processes may share the database file. All the concurrency comes from there, and every
request to a source takes seconds during which another caller may write.

| Component | State it keeps | Operations | Interacts with |
|---|---|---|---|
| Session clock, `market_hours.py` | none; a closure table `EXCHANGE_HOLIDAYS` valid over a window of dates | `is_trading_day`, `sessions_between`, `session_live`, `last_session_close`, `session_date`, `board_session`, `fetch_due` | read by every other part and by the host's own polling loops |
| Daily-bar cache, `adapter.py` + `store.py` | `md_ohlcv` (bars), `md_fetch_meta` (fetched at, floor, withheld date), `md_ohlcv_stubs` (fragment rulings), `md_ohlcv_seams` (repaired price seams) | `get_ohlcv`, `rescan_rescale`, `adjudicate_ohlcv` | the chain, the clock |
| Statements, `adapter.py` + `store.py` + `db.py` | `md_statements` (one cached answer per symbol and period), `md_statement_periods` (the archive) | `get_statements`, `get_statement_history`, the backfill of `init_schema` | the chain; other processes through the tables |
| Price board, `adapter.py` + `store.py` | `md_board` (snapshots) | `get_board` | the chain; `board_session` dates what it returns |
| Source chain, `adapter.py` + `sources/base.py` | recorders of the context, a thread-local unit meter | `_query`, `_resolve_stubs`, `record_source_calls`, `report_units` | every fetching operation |
| Vietcap pacing, `sources/vietcap.py` | `_Pacer._next` under a lock | `wait`, `_fetch` with retries | worker threads |
| KBS tape, `sources/kbs.py` | none between calls; a paging loop inside one | `get_trade_tape` | the exchange, which goes on printing meanwhile |
| CafeF history, `sources/cafef.py` | none between calls; a paging loop inside one | `get_foreign_history` | an archive that grows meanwhile |
| Row caches of events and index members, `adapter.py` + `store.py` | `md_events`, `md_index_members`, their markers | `get_events`, `get_index_constituents` | the chain; the pages of the Vietcap reader |
| Vietcap readers, `sources/vietcap.py` + `sources/vci.py` | none between calls | `get_statements`, `get_board`, `get_events`: several requests for one answer | the caches above |
| Connection and migration, `db.py` | set of initialised paths | `connect`, `init_schema`, `_migrate` | everything |

What is hard here is not the parsing. It is:

* **state read before a request and used after it** (the floor, the bounds, the overlap
  a top-up is compared with);
* **two commits where one is meant** (bars then marker, re-banked bar then ruling, cache
  row then archive rows), with a crash or another caller in between;
* **a world that moves while it is read**: a bar published late or only in part, a
  history rescaled at a moment the source chooses, a tape that shifts under its page
  boundary, a board whose counters are reset before the open;
* **evidence kept for ever**: a ruling, a ledger entry or a floor that was right when
  written and is consulted years later.

What makes each component correct:

* daily bars: no session between the oldest date asked for and the newest bar is missing;
  nothing half-traded stays behind the tip; one price scale; a refused source never owns
  the date; a closed session is caught up with once published;
* statements: what was fetched is archived in whole rows, the archive has the newest
  figures and loses none the source still serves, a history is no shorter than the live
  answer;
* board: counters are dated to the session they count, nothing older than the TTL is
  handed over while a source answers, a column that is not filled is not banked as zeros;
* row caches: a fresh marker vouches for the rows of everything that has stood long
  enough, and members once stored stay;
* connection: no statement runs on a table that lacks a column, and a process gets a
  connection in the end;
* chain: the bill has every request, once, with its own outcome and units;
* pacing: requests leave an interval apart and every fetch returns;
* tape and history: an answer is whole or there is no answer;
* clock: one catch-up pass per closed stretch, and a session date that never goes back.

## 2. The modules and the code

```
MarketHours ── DailyFeed ── BarStore ── OhlcvCache ── OhlcvProofs
     │
     ├── SessionPoller ── PollerProofs
     └── BoardCache ── BoardProofs
StatementArchive ── StatementArchiveMC ── StatementProofs
TradeTape ── TradeTapeMC ── TapeProofs      RowCaches ── RowCacheProofs
SourceChain ── SourceChainMC ── ChainProofs
ForeignHistory ── ForeignHistoryMC ──┐
Pacer ───────────────────────────────┴── RequestProofs

OhlcvCache implements BarService            StatementArchive implements PeriodArchive
```

An edge is EXTENDS. An `MC` module adds history variables (what was there when a call
began, whether calls ever overlapped) that the code does not keep and a property needs; it restricts
nothing.

* **MarketHours** is `market_hours.py`, function by function. An instant is a count of
  slots; `SlotsPerDay` of them make a day. `ClosedSessions` is the bounded walk-back of
  `last_session_close`, including that it can come back empty, which is the
  `AssertionError` of the code.
* **SessionPoller** is the loop `market_hours.py:3-6` promises: poll while `fetch_due`.
* **DailyFeed** is the world: what the sources serve and when. It is external to the
  repository and follows what the comments of `adapter.py` and `store.py` say sources do.
* **BarStore** is the part of `store.py` that computes over banked bars: bounds,
  neighbours, `_looks_truncated`, `upsert_ohlcv` with what it keeps out (`Kept`) and what
  it reports as suspect (`Suspects`), `find_price_seams`, `find_rescale`.
* **OhlcvCache** is the daily-bar cache. Each entry point is cut at its commits and its
  requests; everything between two of those is one action:

  | Action | Code |
  |---|---|
  | `ColdFetch`, `DeeperFetch`, `TopUp`, `SeamRepair` | the four ways `get_ohlcv` reaches a request (`adapter.py:303-369`); `ServesStored` is the way that does not |
  | `Rescan`, `Adjudicate` | the starts of `rescan_rescale`, `adjudicate_ohlcv` |
  | `Answer`, `Unavailable` | what comes back from `_query` |
  | `RefetchTail` | a top-up whose overlap came back on another scale (`adapter.py:385-409`) |
  | `RescanAgrees`, `RescanRepair` | `adapter.py:452-472` |
  | `Bank` | `upsert_ohlcv` and the suspects it returns |
  | `PickSuspect`, `SecondOpinion`, `PassOver`, `Rebank`, `Record` | the loop of `_resolve_stubs`, one request or commit at a time |
  | `Stamp`, `MarkRepaired` | `set_meta` with floor and withheld date; `mark_seams_repaired` |
  | `Crash` | the call is lost, committed rows stay |

  A caller's local variables are its `job` record: above all `floor`, read before the
  request and written after it, and `todo`, the suspects not yet asked about.
* **BarService** is what the daily-bar cache promises its readers: a floor and the sessions
  held from it on, an unbroken series that only grows and deepens. `OhlcvCache!Service`
  instantiates it with the floor of the marker and the banked dates that marker vouches
  for; the rulings, the ledger, the jobs and the clock are hidden.
* **StatementArchive** has `get_statements` and `get_statement_history` of several
  processes: the requests of one answer, a section each, in the order of
  `sources/vietcap.py:454-460`, every write its own step, and the backfill split into the
  select and the insert it is made of.
* **PeriodArchive** is what the archive promises: rows replaced only as a whole, by rows
  read from what was filed. `StatementArchive!Archive` instantiates it with the row of each
  label that has one; the cache, the processes and the clock are hidden.
* **RowCaches** has `get_events` and `get_index_constituents` over one key, of either kind,
  by processes that first migrate the file:

  | Action | Code |
  |---|---|
  | `Connect`, `Inspect`, `Alter` | `_default_connect`, and of each table the `PRAGMA table_info` and the `ALTER TABLE`s of `_migrate`, which commit one by one (`db.py:111-147`) |
  | `Call`, `Unavailable` | `adapter.py:805-808`, `824-832`; `ServesStored` is the way that asks nobody |
  | `ReadPage`, `PartialPage`, `UnreadablePage` | one request of the page walk (`sources/vietcap.py:560-575`): answered in full; without rows, or with a `totalPages` that is missing or no number, which ends the walk; without a list |
  | `ReadMembers` | `sources/vietcap.py:363-387`: anything but a list is no members |
  | `Replace`, `KeepStored`, `Stamp` | the delete and the inserts, one commit; `set_meta`, another |
  | `Crash` | the process dies, committed rows and columns stay |

* **BoardCache** has `get_board` of callers with different symbols, the batches of the
  source, `_blank_unpopulated_foreign` over all of them, and the fallbacks; the exchange's
  counter reset and the feed that fills the column later are environment actions.
* **SourceChain** has threads that walk the chain, each step of `_query` and
  `_resolve_stubs` with its own error paths, nested recorders and the copied context.
* **Pacer** has `_Pacer.wait` split where the lock is released, and the retrying `_fetch`.
* **TradeTape** and **ForeignHistory** have the paging loops, a page per step, against an
  exchange that moves between pages.

Definitions whose comment begins with "Mutated:" are plausible wrong versions of the
definition after them. Nothing refers to them; they are there to show that each checked
property notices the error.

## 3. The abstractions

* **Time.** Four slots make a day in the daily-bar runs: before the open, the session,
  just closed, published. `OpenSlot`, `CloseSlot`, `PublishLag`, the TTLs and the retry
  interval keep the order they have in the code, not the ratio. The board's day has two slots
  before the open instead. The clock is the exchange's (ICT); the code
  takes `date.today()` in one place, and a host in another zone is not modelled. The one
  place the code compares a UTC date, the "repaired today" test of `rescan_rescale`, has
  its own lag, `UtcLag`.
* **Bars.** A bar is three facts: its scale, whether its volume is far under the symbol's
  own, whether it is the whole session; and the source it came from. The volume test of
  `_looks_truncated` and the price tests of `find_price_seams` and `find_rescale` are
  evaluated on these facts with the code's baseline counts, gap limit, horizon and band.
  That a second reading has more than twice the banked volume (`STUB_FRAGMENT_FACTOR`)
  is read as: the banked bar is thin and the other is not.
* **Figures.** A statement is a revision per section and label, 0 when the section has no
  figures of the period; a tape print its volume and running sum, a page row its session
  number. A history is what the archive has: the live answer that `get_statement_history`
  falls back to for a symbol without archived periods (`adapter.py:791-792`) is left out,
  which makes `HistoryOneAtATime` ask more of the archive than the code answers for.
  An event or a member is a number and its version; `md_events` is a bag of them,
  since it has no key that would keep one unique; `short`, which no action reads, remembers
  whether the stored list is one the walk ended too early. A board entry is when it was read, which
  session it counts, and whether its foreign counter is zero, more, or not known.
* **Slow calls.** A call may outlive `MaxCallTicks` ticks of the clock and no more, from
  the HTTP timeouts of the sources; with 0 a call ends within the slot it began in.
* **Bounds**, all named constants: `End`/`LastBegin` stop the clock, `FirstDay..LastDay`
  the dates, `MaxDates` the arguments of one `adjudicate_ohlcv`, `MaxRequests` the
  requests to the chain, `LastLabel`, `LastSession`, `MaxPrints`, `MaxVolume`, `NItems` the
  data, `NTables` and `NColumns` what the migration adds. `MaxPages`, `PageSize`,
  `Attempts`, `BatchSize`, `Quorum`, `Window` and `NSections` are the code's own limits,
  smaller.
* **Deadlock** is not checked: every model stops when its clock or its request budget
  has run out.

## 4. The runs

| Run | Module | Properties | Shows |
|---|---|---|---|
| `OhlcvSeries` | OhlcvCache | `TypeOK`, `SettledBehindTip`, `RefusedNotBanked`, `RulingStands`, `ServiceSpec` | One caller mixing get_ohlcv at two lookbacks with adjudicate_ohlcv, two sources that serve the day in progress and fragments, slow calls, a crash at every step: to its readers the cache is an unbroken series that only grows and deepens (a refinement of BarService), nothing unsettled stays behind its tip, a refused source owns no date and no ruling is overruled. |
| `OhlcvRepair` | OhlcvCache | `OneScale`, `RepairRewritesAll`, `FragmentIsReread` | A corporate action two sources adopt at moments of their own, found by get_ohlcv or by rescan_rescale over a history with a traded gap, one fragment date and its rulings: the bars of a source stay on one scale, a repair rewrites every settled bar, and a fragment that takes a date over from another source, rulings dropped or not, is on its way to a second reading. |
| `OhlcvCatchUp` | OhlcvCache | `CaughtUp`, `WithheldIsBanked` | Across a weekend, with a feed that may serve a fragment: no read after publication is served a store that stops short of the session, and under fairness a withheld bar is banked in the end. |
| `OhlcvRacing` | OhlcvCache | `NoHoles`, `SettledBehindTip` | Two concurrent callers of different depths, slow calls and crashes: whatever the interleaving of requests, upserts and stamps, the series has no hole and nothing unsettled stays behind its tip. |
| `Statements` | StatementArchiveMC | `TypeOK`, `BankedUnlessTorn`, `CurrentOneAtATime`, `HistoryOneAtATime`, `ServedIsRecent`, `ArchiveSpec`, `FigureKeptInWindow` | Two processes over one database, a cache older than the archive, periods filed and restated between the section requests of an answer, refused sections, crashes: the archive only takes whole rows read as they were filed (a refinement of PeriodArchive) and loses no figure the source still serves; every fetched period is archived but for a crash between the two writes; the archive is current and a history complete when calls do not overlap; a fresh answer lacks nothing older than the TTL and a slow call. |
| `Pacer` | Pacer | `TypeOK`, `SlotsSpaced`, `SpacedUpToOverrun`, `FetchReturns` | Two threads retrying over one pacer: no two hold slots closer than the interval, requests leave that far apart less what one sleep overran, and under a fair scheduler every fetch comes back, answered or given up. |
| `Tape` | TradeTapeMC | `TapeIsAPrefix`, `TapeIsCurrent` | A printing session, an unannounced rollover, swapped neighbours and, in the second session, pages that lack or repeat a print: a returned tape is a session from its first print on, and with whole pages it has everything printed before the call. |
| `ForeignWindow` | ForeignHistoryMC | `WindowCovered` | An archive that grows and forgets while it is paged through: the answer has every session of the window that was settled at the call and is still kept. |
| `Chain` | SourceChainMC | `BillIsExact`, `AnswersAreBilled` | Worker threads, nested recorders, sources that are down, refuse, fail or report units, second opinions in between: every open recorder has exactly the requests of its context, and every answered one with its own units. |
| `PollerClock` | SessionPoller | `OneCatchUp`, `AlwaysAClose`, `SessionDateAdvances`, `CloseIsFetched` | A loop gated on fetch_due over a nine-day closure: one catch-up per closed stretch, every close fetched, the session date monotone, the walk-back never empty. |
| `Board` | BoardCache | `CountersOfTheirSession`, `NothingOld`, `ZerosAreFacts` | A page and a watcher of one symbol over a close, midnight and a pre-open reset, boards read batch by batch with a column that is filled in between: counters are never dated to a session they do not count, nothing older than the TTL and its calls is handed over while a source answers, and a wide board is banked without the zeros of a column that was not filled. |
| `RowCaches` | RowCaches | `TypeOK`, `ConnectedIsMigrated`, `FreshIsRecent`, `MembersStay`, `Connects` | Two processes that migrate one file of an earlier release column by column, then refresh the events or the members of one key while these change, with pages that cannot be read and deaths at every step: no process works on a table that lacks a column, each gets a connection in the end, a fresh marker vouches for the rows of everything that has stood long enough, and stored members stay. |

Why the bounds are enough:

* *OhlcvSeries*, *OhlcvRacing*: the rules of `get_ohlcv` look at the newest bar, the one
  before it and today. Three dates and a clock from the second session's open to the
  close of the third (*OhlcvSeries*) contain a cold fetch, a deeper fetch, a top-up with its overlap, a withheld
  bar, its retry, a second opinion and its ruling, each with a crash anywhere. Two
  lookbacks make a floor that can fall; two callers make every race the marker can have.
* *OhlcvRepair*: four dates, an ex-date in the middle and an adoption window that covers
  several top-ups, with a source each side of it; a date with a really traded gap makes
  the ledger matter, a fragment date makes the cleared rulings matter.
* *OhlcvCatchUp*: from Friday's session to Saturday midday; Friday's bar may be
  served as a fragment, so that the catch-up must happen on a day the weekday test
  excludes.
* *Statements*: two labels and a window of one, so that a label leaves the source while it
  stays archived, also between the requests for two sections; one label is restated; the
  TTL is shorter than the run. The processes are interchangeable, and the run uses that
  symmetry: no property here is under fairness or names a process.
* *RowCaches*: one table and two columns, so that it may be half altered; three items and
  two pages of one, so that an item joins during the walk and one falls past the page
  bound; either page may be unreadable, or come without rows or without `totalPages`; two processes, a TTL of one tick and calls
  that last one more.
* *Pacer*: two tries and two threads give a retry that races a fresh request; the clock
  runs until the last fetch that could have begun has ended.
* *Tape*: pages of two and up to four prints cover an empty, a short, a full and a last
  page, at the page cap; the second session's pages may lack or repeat a print.
* *ForeignWindow*: seven sessions, an archive of six, pages of two, so that rows move
  across a page boundary and fall off the end during a crawl.
* *Chain*: three sources of which the middle one lacks the capability, the coroutine and
  one worker, two recorders that can nest.
* *PollerClock*: over a fortnight with a five-weekday closure, nine closed days in a row
  with the weekends, which is `MAX_CLOSED_RUN_DAYS`.
* *Board*: from the evening of a holiday over the reset, the open and the session of the
  next trading day to its close. Batches of one and a quorum of two make every wide board
  one of several batches and every narrow one too small to judge.

Conditions inside the properties, and why they are there:

* `BankedUnlessTorn`, `CurrentOneAtATime`, `HistoryOneAtATime` state `EveryFetchBanked`,
  `ArchiveIsCurrent` and `HistoryReachesLive` under what each needs: nobody dies exactly
  between the cache row and the archive rows; calls do not overlap. Section 7 shows that
  each condition is needed.
* `OneScale` compares bars of one source. A second opinion from a source that has not
  adopted the action yet brings in a bar on its own scale, and the code does not test it.
  It is checked over a history with one fragment date, right ahead of the ex-date. With two
  neighbouring ones it is false (section 7, `OhlcvBlindOverlap.cfg`): two second opinions of
  one source fall before and after the moment it adopts, or neither bar of the overlap can
  be compared. Section 6 has the hypotheses under which it is proved, and what TLC finds
  without each of them.
* `BarService!Open` is taken while nothing is held: a cold fetch reads no floor and starts
  the record anew. `CaughtUp` does not count a bar the feed withholds within the retry
  interval, which the code leaves for later on purpose.
* `RefusedNotBanked`, `RulingStands` and `ServiceSpec` are checked for one caller
  (through crashes); section 7 has what two callers do to them.
* `FreshIsRecent` speaks of items that have stood longer than the TTL and two slow calls
  (one wrote the rows, another the marker), and of events within the pages the walk asks
  for. It leaves out lists that were cut short (`short`): a first page that cannot be read,
  a page without rows or without `totalPages` end the walk, and what was read so far is
  stored and marked fresh until the next refresh replaces it. A later page that cannot be
  read, racing calls and deaths it does cover. `ListedIsServed` and `HalfListNeverFresh`
  say what should hold of the short lists too, and `EventsUnreadable.cfg` shows that
  neither does (section 7). In its run only the oldest event is withdrawn;
  `EventsShift.cfg` has the others.
* `FigureKeptInWindow` speaks of periods the source still serves, in a run where an
  answered section can be read. `ZerosAreFacts` judges one answer of the source, as
  `_blank_unpopulated_foreign` does.

Type invariants are properties of the runs where a step could plausibly break them
(a marker without a floor, a count past its limit, a row without a time); the other
modules state theirs as documentation.

## 5. Fairness

* `OhlcvCache!FairSpec` (WithheldIsBanked): the clock runs; a caller goes on reading and
  finishes a call it began; and a source answers if requests are made again and again
  (strong fairness, because an unavailable answer takes the request away). The first two
  are the host's loop, the last is the least a cache can assume: sources that are
  unavailable for ever bank nothing.
* `Pacer!FairSpec` (FetchReturns): the scheduler runs every thread and the clock advances;
  that a request ends is not assumed but comes from the HTTP timeout.
* `SessionPoller!FairSpec` (CloseIsFetched): the clock runs, the loop polls when
  `fetch_due` says so, and its source answers.
* `RowCaches!FairSpec` (Connects): a process that has begun to connect goes on, and one
  whose connection failed connects again: every call of `adapter.py` begins with
  `connect()`. Nothing is assumed of calls, sources or the clock, and processes may die at
  any moment; the property speaks of the time after the last of them has.

No other property needs fairness.

## 6. The proofs

Checked by TLAPS for every value of the constants, from the named assumptions of the
modules (`ClockAssumption`, `FeedAssumption`, `StoreAssumption`, `CacheAssumption`,
`PacerAssumption`, `StatementAssumption`, `RowAssumption`, `BoardAssumption`,
`ChainAssumption`), which TLC evaluates in the runs.

**OhlcvProofs, `TypeCorrect`: `Spec => []TypeOK`.** `TypeInv` is `TypeOK` with the
job record spelled out field by field, because the solvers cannot reduce an update of a
record of seventeen fields. The argument has three layers: facts about the store's
operators (`BoundsTyped`: the bounds of a non-empty table are days, which needs that a
non-empty finite set of integers has a least and a greatest element; `UpsertEffect`: a date
of an upserted table has its old bar or the row the source served), one lemma per action,
and `NextTyped` that puts them together. What it says beyond shapes: no action ever reads
the bounds of an empty table, and whatever `_resolve_stubs` records is a date and a source
of the model.

**OhlcvProofs, `RefusedStaysOut` and `RulingsStand`.** For every calendar, every
behaviour of the feeds and every choice of bounds, but for one caller: `Callers = {c}` is
an assumption of both theorems, and with two callers both formulas are false
(`OhlcvRaces.cfg`). Neither is inductive. When `Record`
writes a ruling, what makes it right was settled at an upsert several commits earlier, and
other dates have been ruled on since. `CaseSound` carries it across: every suspect of the
job is banked, has no ruling and is listed once; the date in question is none of those
that wait; when the second reading shows a fragment it is another source's, so the upsert
of `Rebank` cannot refuse it and its volume cannot be withheld (`RebankSound`), and when
the ruling is recorded the bar is that source's already. `NextSound` puts one lemma per
action together. TLC checked `CaseSound`
on the instances of OhlcvSeries and OhlcvRepair before it was proved.

**OhlcvProofs, `SeriesHasNoHoles` and `SettledBehindTheTip`.** For any number of
callers, whatever they mix and wherever they die. Neither is inductive, and each needs the
other. What a fetch banks was decided by the store it read when it was asked for; others
have written since. So `SeriesInv` says of each call under way that

* its window still meets the bars there are: no session is missing between any bar and the
  window, on either side, and one bar at least lies in it or will come with the answer
  (`Joined`);
* its answer has every session of the window that was published when the call began, whole
  or as a fragment the volume test sees, and is of a session in progress at most on its
  last day (`AnswerHolds`);
* every floor somebody holds, in the marker or in a call that will stamp it, could be
  recorded now: it is no later than today, no session is missing between it and the newest
  bar, and none between some bar and it (`Sound`);
* what `_resolve_stubs` reads again is of days that are over, and is replaced by something
  no worse (`CasePast`).

A hole opens behind a bar of a session in progress that nobody re-reads, which is why the
two theorems are one invariant: every session behind the newest bar is `Good`, and a write
`Keeps` that. A fetch `Widens` the series when it is banked (`WidenedStore`,
`WidenedSound`, `WidenedJoined`), whatever was banked since it was asked for. The
hypotheses, `Supported`, are these, and each is needed: TLC finds the theorem violated
without it.

| `Supported` | In the code | Without it TLC finds |
|---|---|---|
| no source answers a failure with "no rows" (`Hollow = {}`) | the readers the default chain asks raise `SourceUnavailable`; those that do not are in section 7 | `OhlcvHollow.cfg` |
| a call begun before the day's bar is published ends by midnight | the session closes nine hours before midnight, a chain of HTTP timeouts takes minutes | OhlcvRacing with `MaxCallTicks` 3 or `PublishLag` 3: a bar of the session in progress stays behind the tip |
| every window has a session that was published by then | lookbacks of months, 730 days by default (`adapter.py:289`) | OhlcvRacing from a `Start` of 4 with `Lookbacks` {1}: an answer without rows stamps a floor, a cold fetch that dies before its stamp leaves it standing over a hole |
| nobody asks for today alone (0 is no lookback) | the same | OhlcvRacing with `Lookbacks` {0, 2}: a fetch of today leaves out the days before it |
| `adjudicate_ohlcv` is given dates that are over | it is for bars banked long ago, by its docstring; the write path itself leaves today out (`store.py:276-283`) | OhlcvSeries with `AdjudicateAge` 0 and `MinBaseline` 2: a second reading of a session in progress replaces the bar, and the ruling keeps the whole one out |

The configurations of OhlcvSeries, OhlcvRacing and OhlcvRepair meet `Supported`.

**`CacheIsAService`, `FloorStaysDown`, `RepairReachesAll`**, for one caller, by
`AloneInv`: the floor a call holds is the one in the marker (`FloorKept`), and a fetch that
repairs reaches past the oldest bar (`Reaches`). `WhoWrites` names the three kinds of step
that touch the bars or the marker; `NextService` maps an upsert within the series to
`Advance` or a stutter, a stamp to `Deepen` or `Open`. That `BarService` only sees the
series from the floor on is what lets a deeper fetch bank its bars before its floor.

**`CaughtUpOnceMarked`, `AlwaysCaughtUp`: `CaughtUp`, for any number of callers.** A read
trusts one number, the `fetched_at` of the marker, and whoever wrote the marker last may
not be who wrote the bars. `CaughtInv` adds two facts to `SeriesInv`: a call that has
banked and not stamped leaves a store that reaches the newest session published when it
began, or its feed withheld that session (`Caught`); and so does the marker, for the
instant it carries (`MarkHolds`). An answer satisfies the first when it is banked
(`BankCaught`, from `AnswerHolds`), no later write shortens a store, and a stamp turns the
first into the second (`StampCaught`). `WhoFollows` says that no other step makes a call
one that is about to stamp. The theorems rest on

* `Supported`, and `LongestClosure`: any ten days in a row have a trading day
  (`MAX_CLOSED_RUN_DAYS` is 9), without which the newest session is looked for in vain;
* `[]Prompt`: no bar is published and no day ends while a fetch is under way. Without it
  TLC finds `OhlcvStraddle.cfg`. It is a condition on behaviours and not on constants: a
  slow call at another hour does no harm. `InstantCallsArePrompt` shows that every
  behaviour with `MaxCallTicks` 0 meets it, the one value of OhlcvCatchUp;
* a marker, for `CaughtUpOnceMarked`, or `CanCrash = FALSE`, for `AlwaysCaughtUp`: a first
  fetch that dies between its bars and its marker is `OhlcvCrashedFirst.cfg`. Until there
  is a marker, `FirstFetch` says that whoever banked the first bars is still under way.

**`SeriesOnOneScale`: `OneScale`, for one caller.** `find_rescale` compares the answer of
a top-up with the bars it overlaps, and the store has many more than those. `ScaleInv` says
that the whole store is on one scale (`BarsHold`), whichever source each bar is from, and
that every bar is `Plain`: adjusted only after the action, always from the ex-date on, and,
before it, a whole session or today's. Of an answer in hand (`RowsHold`) it says that it is on one
scale itself, and that it is from before the action or has every older session of its window
whole. Three steps carry it:

* a top-up that finds no seam is on the scale of the store, because one bar of the overlap at
  least can be compared (`OverlapAgrees`); one that finds a seam asks for everything again,
  and the repair replaces every bar;
* a fetch that is no top-up, cold or deeper than the floor, compares nothing and reaches past
  the oldest bar, so that its answer replaces the whole store (`BankAgrees`). That it does
  needs `Floored`: no bar is below the floor of the marker;
* a second opinion is of a fragment, and fragments are from the ex-date on, where every
  source's bars are adjusted (`CaseHolds`, `RulingsHold`).

The hypotheses are `Supported`, one caller, `Comparable` and `[]AdoptedInTime`:

| Hypothesis | In the code | Without it TLC finds |
|---|---|---|
| one caller | a host that reads a symbol from one process and thread at a time | two cold fetches, one answered before the action and one after, banked in the other order |
| `CanCrash = FALSE` | no death between the bars and the marker of a fetch | a deeper fetch that dies there leaves bars below the floor; a later, shallower one goes below the floor too, compares nothing and replaces only some of them (three lookbacks) |
| no fragment from before the ex-date | feeds that serve whole bars until the action; `store.py:117-166` has when they do not | a second opinion on a fragment three sessions before the ex-date, from a source that has adjusted since, beside bars it served before; and `OhlcvBlindOverlap.cfg` |
| an index has no action (`IsIndex`) | "they have no corporate actions" (`adapter.py:346-347`), and nothing is compared for them (`:388`) | a top-up of two sessions over a history of three |
| `[]AdoptedInTime`: no source serves a session from the ex-date on while another has still to adjust | "once the ex-date is known the source serves that bar already adjusted" (`store.py:383-384`); one that does not is in section 7 | a cold fetch of a source that adjusts after the close of the ex-date: that session is on the new scale, the history behind it on the old |

`AdoptedInTime` is a condition on behaviours; `EarlyAdoptersAreInTime` gives values of the
constants that ensure it, with an adoption window that ends before the session of the
ex-date opens. Sources still adjust at moments of their own, with fetches, second opinions
and rescans between them. OhlcvRepair, whose fragment date lies right before the
ex-date, checks `OneScale` outside these hypotheses.

**RequestProofs** is about the two small components whose subject is a series of requests.

`SlotsAlwaysSpaced` and `RequestsSpacedUpToOverrun`. That slots are an
interval apart is not inductive. `PacedInv` adds that every slot in use is paid for in
`_next` (`SlotsPaid`), that no sleeper has overslept by more than `Overrun`
(`NoLateSleeper`), and that `_next` and every slot still to come are past the last request
by an interval less the overrun (`SendPaid`).
`ReservePaced` and `SendPaced` are the two steps that matter; the rest leave all of it
alone. The second theorem is what the code guarantees in place of the sentence of its
docstring (section 7, `PacerOverrun.cfg`).

`WindowAlwaysCovered` is about a crawl back through an archive that grows between two pages,
so that page *n* of the second request is not page *n* of the first. `WindowInv` says that of
the sessions a crawl has passed by (`Passed`: those its pages would hold now), it has every
one of its window that was there when it began. A session settled in between moves rows to a
later page, which reads them again; none moves to a page already read. `StopsBehindWindow`
is the rest: where the loop stops, the window or the archive has been passed. The theorem
assumes what the reader rests on: that every row parses (`Unreadable`) and every body does
(`Garbled`; section 7, `ForeignMisread.cfg`, is what happens without), and that the archive
is no deeper than the pages a crawl may read, the "four pages" of `cafef.py:48-51` to its
eight.

**StatementProofs.** `ReadInv` is the invariant: what is cached, archived or in the making
has been filed, no section of it is older than its income line, and an answer in the making
is empty until that line is read. It is inductive because a filing only raises what is filed
and the sections are read in order (`SectionRead`, `FiledGrows`); every other step copies
figures. From it, `EveryFigureRead` and `TypeCorrect`. `ArchiveImplemented` is the
refinement: `BankIsAbstract` maps a write of `Bank` or `Backfill` to `PeriodArchive!Bank`,
`File` and `Restate` map to `Issue`, the rest stutters (`NextArchive`). `FiguresKept` has
the assumption `Unreadable = FALSE`, without which it is false (section 7). Its invariant
`KeptInv` says that a payload lacks no section read so far of a period that is still served:
a filing can push a period out of the window, never into it (`WindowMoves`), so a later
section is read in a window whose periods the earlier ones had too, or that have left.

`ServedAlwaysRecent` has the same assumption. `RecentInv` says of a call under way that it
has what was filed before it began, and of the cache row that it has what was filed a call
before its stamp (`Current`); a filing is no earlier than now, so it is later than both
(`CurrentAsFiled`), and a later section is read at the periods of the first, which were
there when the call began (`SectionCurrent`). The last three theorems are about
`StatementArchiveMC`, whose two history variables say what happened. `EveryPeriodBanked`,
for any interleaving: `RowBanked` keeps track of who will bank the cached payload, the
writer that has not got to it, a process at its backfill, or, while the archive is empty,
whoever connects next; the writer's death is the one way to lose it, and `torn` records it.
`CurrentWhenAlone` and `HistoryWhenAlone` follow from `AloneInv`: while calls do not
overlap, whoever is about to bank has the payload of the cache row.

**RowCacheProofs.** `TypeCorrect` needs `Walked`: rows served no more often than pages were
read, or the bag would outgrow its bound. `NeverHalfMigrated` needs `HasColumns`: of the
tables up to the one a process is at, it still has to add every missing column, or another
process has; columns are never dropped (`ColumnsStay`), and a process that meets a column
another has added fails before it is connected. `MembersAlwaysStay` follows from the guard
of `Replace` and from no other action writing rows.
`FreshAlwaysRecent` needs `FreshInv`, three views of one fact, that rows are `Faithful` from
some moment on: the stored ones from two calls before their marker (`Faithful` in
`FreshInv`; the writer of the rows and the one that stamps the marker may be two calls), the
ones a call has walked so far from its start (`WalkHolds`), and the ones it is about to write
from the call before (`CallHolds`), each unless it was cut short. The walk keeps it because
a new item only moves the others to a later page; `PageShows` and `LastShows` say what a
page adds and why the last one is enough, whether it came in full or without `totalPages`.
Its hypothesis `Calendar`, that only the oldest event is withdrawn, is needed: one taken
down above others moves those up to a page the walk has passed (`EventsShift.cfg`). Any page
may be unreadable or partial. What the theorem leaves out is the list the walk ended early:
`EventsUnreadable.cfg` has that one stored and marked fresh.

**BoardProofs.** `BoardInv` adds to `TypeOK` how old things can be: a banked entry was
stamped within one call of being read (`Aged`), what a call under way has read it read since
it began, and what it took from the store was younger than the TTL then (`CallAged`); it also
says that what was read before the column was filled is part of what was read (`CallRead`).
One step of a call changes only its record and perhaps the board, which `CallBoard` turns
into one lemma per action. `OldIsNeverGiven` adds the ages up, under the assumption the
defaults of `get_board` meet that `0 < TTL <= StaleTTL`; `ZerosStayOut` needs of the
invariant that `early` is among what `Blanked` sees. 

`CountersDatedRight` rests on `DatedInv`: outside the hours before a reset the exchange
counts the session of the clock (`SessionOf`), an entry just read counts the session of the
moment it was read, and `board_session` of a banked entry's stamp is its session or none.
`CountedOn` carries the first over midnight, closures and resets; `StampDates` gets the third
from the second, over the time between the answer and its stamp. Its hypotheses, `HoursHold`:
no closure is longer than `MAX_CLOSED_RUN_DAYS` (what the walk-back of `last_session_close`
rests on), a call is shorter than the hours before an open, and the model does not start in
the last minutes before one, when its counters would be of the day before.

**TapeProofs.** Why a chain from zero is the session from its first print on: the sums of
a running sum grow (`SumsGrow`), so a print is where its sum says; every print of the tape
is one of the log (`Printed`, the part of `TapeInv` that speaks of the pages read so far),
and where tape and log first differed, the print and the one before it would give one sum
two places (`OneRunningSum`). Induction over the tape is not available; `LeastOf` picks the
least place of disagreement instead. `Sorted` is stated by rank because what the library's
`SortSeq` returns is out of the provers' reach; `Rank` is shown to be one to one and onto
(`RankOrders`, `RankOnto`), so that sorting loses and adds nothing.

`TapesAreCurrent` rests on `AskedInv`: past its first page, a call has read the newest print
there was when it was made, or a newer one, or one of a later session (`Reaches`), and the
chain has everything below. The first page settles it, and that is where `2 <= PageSize`
comes from: of two prints under one timestamp, served in either order, a page of one print
may hold the older (TLC finds the theorem violated with `PageSize` 1).

**PollerProofs.** `PollerInv`: a pass made since the last close is stamped no earlier than
that close, and in the session there is none. It is inductive because no close goes by
outside the session (`CloseStays`) and each tick stays in its day or begins the next
(`NextSlot`). `SessionsInOrder` comes from `NextSession`, which says the same of
`session_date`. All three theorems assume `LongestClosure`, no closure longer than
`MAX_CLOSED_RUN_DAYS`, the fact the constant stands for and the table of
`market_hours.py` has; without it the walk-back may come back empty.

**ChainProofs, `BillAlwaysExact`.** `BillIsExact` is not inductive: it has to be known whose
units are on the meter when a request is recorded. `MeterMatches` says that a thread's meter
holds the units of the answer in its hands and is clear at every other moment, which is where
it matters that the meter is thread-local and that every recording resets it. `OneEnds` is
the other half: of two requests under way, one step ends one.

`AnswersAlwaysBilled` covers second opinions too, which bill a dropped connection as a
refusal and an error not at all, so that bill and requests differ in length. `SameAnswers`
compares the answered ones of both by a bijection of their places that keeps the order,
which a step can extend: `BothBilled` when it ends an answered request, `NoAnswer` when what
it appends, to one list or to both, is none.

Model-checked only, with the reason:

* `WithheldIsBanked`, `FetchReturns`, `CloseIsFetched`, `Connects`: liveness under fairness.
* `FragmentIsReread`: it depends on the adoption window and the horizon of the second
  reading having the sizes of its run.
* `OneScale` where a fragment lies before the ex-date: whether it holds is a matter of how
  far before and of which sources answer; OhlcvRepair is an instance in which it does.

## 7. Known disagreements

What a document, comment or schema of the repository says and the code does not do. Each
has a configuration that lets TLC print the shortest history; `tlc -config X.cfg M` stops
with a formula violated, and with `-continue` goes on to the others of the file. They share the formulas of the passing runs, or state the quoted
sentence, and are kept to be looked at again when that code changes.

| Configuration (module) | Formula violated | Where | What the code does, and what is said of it |
|---|---|---|---|
| `OhlcvHoliday.cfg` (OhlcvCache) | `NothingFetchedWhenClosed` | `src/adapter.py:326` | On a weekday that EXCHANGE_HOLIDAYS lists, a read past its TTL still asks a source: the condition is today.weekday() < 5, not is_trading_day(today). src/README.md:71 says "Weekend / public holiday \| Nothing is fetched". |
| `OhlcvNegative.cfg` (OhlcvCache) | `FreshMarkerServes` | `src/adapter.py:311` | get_ohlcv tests hi is None before meta_fresh, so a symbol whose fetch returned no rows is asked for again on every call although its marker is fresh. src/README.md:78 says an unlisted symbol is "cached negatively so it is not re-hammered", src/schema.sql:95 "A fresh marker → serve store, zero source calls". |
| `OhlcvRaces.cfg` (OhlcvCache) | `RefusedNotBanked` | `src/adapter.py:235` | The re-banked bar is committed before the ruling. A second caller that banks the fragment again between the two commits leaves a bar whose source is refused that date. src/schema.sql:130-131 says a fragment "refuses `source` that date from then on". |
| `OhlcvRaces.cfg` (OhlcvCache) | `RulingStands` | `src/adapter.py:235` | Two callers that both found the date unruled ask about it, and record_stub_check (src/store.py:229-233) lets the second overwrite the first. src/adapter.py:202-203 says "each date asked about once ever". |
| `OhlcvRaces.cfg` (OhlcvCache) | `FloorNeverRises` | `src/adapter.py:419` | The floor is read at adapter.py:321 and written after the request: a top-up that read it before a deeper fetch was stamped puts the shallower one back. The comment at src/adapter.py:417 says what it records is the oldest date ever asked for; the next deep read asks the source for it again. |
| `OhlcvOldRuling.cfg` (OhlcvCache) | `RepairRetests` | `src/store.py:278` | clear_stub_checks drops every ruling of the symbol, but upsert_ohlcv only re-tests bars inside STUB_RECHECK_DAYS. A fragment older than that is banked again for good. src/adapter.py:365-366 says "Dropping them costs one re-adjudication, since the refetched bar is tested again on the way in". |
| `OhlcvLateRescale.cfg` (OhlcvCache) | `CaughtByNextTopUp` | `src/adapter.py:387` | A source that adjusts its history after the overlap bars were banked from the ex-date on shows the same overlap on both sides, so find_rescale sees nothing. src/store.py:392-393 says the rescale is "caught on the next top-up at the latest". |
| `OhlcvBlindOverlap.cfg` (OhlcvCache) | `OneScale` | `src/adapter.py:336` | When both bars of the overlap come back other than they were banked (a fragment settled since, or a settled bar cut short), find_rescale has no bar it can compare, and the top-up is banked in front of the old scale. src/adapter.py:338-339 says of the bars before the last that every one "was already re-read settled by the previous top-up". |
| `OhlcvCrashedFirst.cfg` (OhlcvCache) | `CaughtUp` | `src/adapter.py:272` | A first fetch that dies between upsert_ohlcv and set_meta leaves bars and no marker; _missed_close returns False without one, and outside a weekday the store is served without the last session. src/adapter.py:261-262 says it is "the catch-up pass `market_hours` promises: one per closed stretch". |
| `OhlcvStraddle.cfg` (OhlcvCache) | `CaughtUp` | `src/adapter.py:279` | fetched_at is stamped after the answer was banked (src/store.py:79): a request answered before publication and stamped after it counts as having seen the bar. src/adapter.py:254 says "True when the last fetch predates the newest closed session's bar being published". |
| `OhlcvLateSeam.cfg` (OhlcvCache) | `SurvivingSeamWasTraded` | `src/store.py:484` | A repair that meets a source that has adjusted again, or only now, can leave a seam no trade made, and mark_seams_repaired records it as one never to be repaired. src/store.py:484-485 says "A seam that survives the refetch was really traded". |
| `OhlcvHollow.cfg` (OhlcvCache) | `NoHoles` | `src/sources/vci.py:353` | The VCI and DNSE daily readers turn an exception of the library into no rows (src/sources/dnse.py:104-111 likewise); get_ohlcv stamps the window as fetched, and a later top-up never re-reads it. src/sources/base.py:68-76 requires a failure to raise, because an empty answer is banked as the absence of data. |
| `StatementsCrash.cfg` (StatementArchive) | `EveryFetchBanked` | `src/adapter.py:693` | upsert_statements and bank_statement_periods commit apart, and the backfill (src/db.py:99-103) passes over a pair that has archive rows: a crash between the two leaves a fetch unarchived until the next one. src/README.md:127-128 says "Every fetch therefore also banks each period it saw as its own row". |
| `StatementsShift.cfg` (StatementArchive) | `FigureNeverLost` | `src/sources/vietcap.py:459` | A period filed between the income and a later request moves the window of the later section only: _lines writes None for the oldest period, and the archive row is overwritten with it after the source has stopped serving it. src/schema.sql:61-63 says "Banking each period as its own row is what turns a fixed 4-period window into a growing one", src/db.py:90-91 that such periods are "lost" otherwise. |
| `StatementsUnreadable.cfg` (StatementArchive) | `FigureNeverLost` | `src/sources/vietcap.py:459` | A later section answered by a null, a 4xx or a body that is no JSON reads as None, `or {}` makes it a section without rows, and the figures of every period of the window are overwritten with none. src/sources/base.py:73-76 says a failed fetch that returns nothing "is not a degraded answer — it is a wrong one, cached and served as fact". |
| `StatementsRacing.cfg` (StatementArchive) | `HistoryReachesLive` | `src/adapter.py:788` | A second process finds the first one's cache row fresh before its periods are archived, and reads a history without them. src/README.md:129-131 says "the current period is exactly as fresh as `get_statements` would give". |
| `StatementsRacing.cfg` (StatementArchive) | `FigureNeverReverts` | `src/store.py:628` | Of two fetches of one label the one that writes last wins, whichever asked last: a slow fetch puts the provisional figure back. src/schema.sql:65-66 says "A later fetch of the same label wins (an audited annual supersedes the provisional one it restates)". |
| `EventsUnreadable.cfg` (RowCaches) | `HalfListNeverFresh` | `src/sources/vietcap.py:571` | A page of events whose totalPages is missing or no number counts as the only one, and a list without rows ends the walk (570-575), on whatever page: the part read so far replaces every stored event and is marked fresh. src/sources/vietcap.py:566-568 says, of a later page that cannot be read, "a short list reads as events that do not exist", and raises. |
| `EventsUnreadable.cfg` (RowCaches) | `ListedIsServed` | `src/sources/vietcap.py:564` | A first page of events without a readable list (a 4xx, a body that is no JSON) is answered as [], which replaces every stored event and is marked fresh. src/sources/base.py:73-76 says a failed fetch that returns nothing "is not a degraded answer — it is a wrong one, cached and served as fact". |
| `EventsShift.cfg` (RowCaches) | `ListedIsServed` | `src/sources/vietcap.py:560` | An event withdrawn between two page requests moves an older one up, past the walk: the stored calendar lacks it until the TTL runs out. src/sources/vietcap.py:566-568 says "a short list reads as events that do not exist". |
| `EventsShift.cfg` (RowCaches) | `ListedOnce` | `src/store.py:709` | An event announced between two page requests moves the last one of a page to the next: it is read twice, and md_events (src/schema.sql:83-90) has no key that keeps it once. src/store.py:706 says "dividend calendars are revised, not appended". |
| `BoardQuorum.cfg` (BoardCache) | `NoZeroBoard` | `src/adapter.py:642` | The quorum is judged on the symbols one request asks for, not on the board that is answered: zeros a narrow call banked before the column was filled are joined with the rest of a wide one. src/README.md:75 says "a board over quorum reading zero on every symbol is a column that is not answering yet" and its columns `None`, not `0`. |
| `PacerOverrun.cfg` (Pacer) | `RequestsSpaced` | `src/sources/vietcap.py:131` | wait reserves slots an interval apart but sleeps outside the lock; a sleep that overruns leaves its request closer to the next one. src/sources/vietcap.py:119 says it "Spaces this process's requests at least ``interval`` seconds apart." |
| `ChainErrors.cfg` (SourceChainMC) | `NoFalseTrip` | `src/adapter.py:219` | _resolve_stubs records every SourceUnavailable as "unavailable", a SourceUnreachable too, where _query tells them apart. src/sources/base.py:121-123 says the adapter "records it as ``unreachable`` so a quota gauge does not read a dropped connection as a trip". |
| `ChainErrors.cfg` (SourceChainMC) | `ErrorsAreBilled` | `src/adapter.py:216` | A second opinion whose source raises anything but NotSupported or SourceUnavailable leaves no SourceCall. src/adapter.py:96-102 says of SourceCall "One request the adapter put to a source" with outcome "error" for "anything else, which propagates", and src/adapter.py:128-129 "one :class:`SourceCall` per request". |
| `ForeignMisread.cfg` (ForeignHistory) | `ShortPageIsLast` | `src/sources/cafef.py:138` | len(rows) counts the rows parse_page kept (cafef.py:100-101 drops those without a date or a net), so a full page with one unreadable row ends the crawl. The comment at src/sources/cafef.py:138 says "a short page is the last page". |
| `ForeignMisread.cfg` (ForeignHistory) | `EmptyIsAnAnswer` | `src/sources/cafef.py:87` | parse_page turns a body that is not the JSON expected into no rows, and the crawl ends as if the exchange had printed nothing. src/adapter.py:567-568 says "nobody answered" must not be banked as "the exchange printed nothing", src/sources/base.py:68-76 that a failed fetch must raise. |

## 8. Not modelled

* The parsing of payloads in `sources/vietcap.py` (bars, statement lines, event fields),
  its listing and classification reads, and all of `sources/vci.py`, `dnse.py`,
  `vndirect.py` but for what a failure becomes: stateless conversions, a source at a time.
  That two of them turn a failure into "no rows" is `Hollow` in DailyFeed.
* The other order of sections and the single library call of `VCISource.get_statements`:
  the sections of StatementArchive are Vietcap's, which the default chain has and VCI is not in.
* A host's own connection factory (`set_connection_factory`), which takes over `init_schema`.
* What SQLite itself does: a commit is atomic and durable, a write waits for the lock.
* `sources/http.py`, `sources/registry.py`: I/O and a lookup table.
* `get_index_live`, `get_market_turnover`, `get_foreign_archive` of `adapter.py` keep no
  state beyond the chain they call; `newest_board` and the other pure reads change none.
* Examples, benchmarks, tests.

## 9. The plan

Done, in this order, most important first: the clock, the feeds and the daily-bar cache
with its repairs; the statements archive; pacing; the two paging crawls; the chain and its
bill; the board; the abstract daily-bar service and period archive with their refinements;
the sections of a statement answer; the batches of a board; the row caches over the
migration of their file.

Next:

**Composition.** The chain under the daily-bar cache, so that a bill and a repair are
seen together; Pacer under the sections of a statement answer, where the time one answer
takes grows with the threads that share the pacer.
