----------------------------- MODULE OhlcvCache -----------------------------
(***************************************************************************)
(* The daily-bar cache of one symbol: get_ohlcv, rescan_rescale and        *)
(* adjudicate_ohlcv of adapter.py, run by concurrent Callers over one      *)
(* SQLite store.                                                           *)
(*                                                                         *)
(* A step of a caller ends where other callers can see something of it or  *)
(* the world can move on: at a committed write, or at a request to a       *)
(* source.  The reads since the last such point belong to the step; what   *)
(* the code keeps of them in local variables is the caller's job record.   *)
(* Committed writes survive Crash, the job record does not.                *)
(***************************************************************************)
EXTENDS BarStore

CONSTANTS
  Callers,         \* threads or processes, each running one call at a time
  Kinds,           \* which of the three entry points they call
  Lookbacks,       \* lookback_days of the get_ohlcv calls
  RescanLookback,  \* lookback_days of rescan_rescale
  IsIndex,         \* is the symbol an index?
  TTL,             \* OHLCV_TTL_S
  WithheldRetry,   \* OHLCV_WITHHELD_RETRY
  Lead,            \* SEAM_REPAIR_LEAD_DAYS
  ResolveMax,      \* STUB_RESOLVE_MAX
  UtcLag,          \* how long after ICT midnight the UTC date rolls
  AdjudicateAge,   \* the age of the youngest bar a caller has adjudicated
  MaxDates,        \* the most dates one adjudicate_ohlcv is given
  Start, End,      \* the instants the model runs between
  MaxCallTicks,    \* the ticks a call may outlive (its HTTP timeouts)
  CanCrash         \* may a caller die in the middle of a call?

VARIABLES
  bars,     \* md_ohlcv
  meta,     \* the symbol's "ohlcv" row of md_fetch_meta, or None
  rulings,  \* md_ohlcv_stubs
  ledger,   \* md_ohlcv_seams: seam date -> when it was repaired, or None
  job       \* the call each caller is in the middle of

storeVars == <<bars, meta, rulings, ledger>>
vars == <<feedVars, storeVars, job>>

Meta == [fetched : Int, floor : Int, withheld : Int \cup {None}]

Pending == [day : Days, by : Sources]
Case == [day : Days, by : Sources, thin : BOOLEAN,
         alt : Row \cup {None}, against : Sources \cup {None}]

ASSUME CacheAssumption ==
  /\ Callers # {} /\ None \notin Callers
  /\ Kinds \subseteq {"get", "rescan", "adjudicate"}
  /\ Lookbacks \subseteq Nat /\ RescanLookback \in Nat
  /\ IsIndex \in BOOLEAN /\ CanCrash \in BOOLEAN
  /\ TTL \in Nat /\ WithheldRetry \in Nat /\ Lead \in Nat
  /\ ResolveMax \in Nat \ {0} /\ UtcLag \in Nat /\ AdjudicateAge \in Nat
  /\ MaxDates \in Nat
  /\ Start \in Int /\ End \in Int /\ MaxCallTicks \in Nat
  /\ None \notin Case /\ None \notin Meta

PCs == {"idle", "asked", "answered", "resolving", "asking", "rebanking",
        "recording", "stamping", "ledger"}

Job == [pc : PCs, kind : {"get", "rescan", "adjudicate"},
        start : Int, end : Int, from : Int, lo : Int, floor : Int \cup {None},
        tail : BOOLEAN, repair : SUBSET Days, began : Int,
        rows : Rows, src : Sources \cup {None},
        todo : SUBSET Pending, case : Case \cup {None}]

NoJob == [pc |-> "idle", kind |-> "get", start |-> 0, end |-> 0, from |-> 0,
          lo |-> 0, floor |-> None, tail |-> FALSE, repair |-> {}, began |-> 0,
          rows |-> NoRows, src |-> None, todo |-> {}, case |-> None]

TypeOK ==
  /\ now \in Int
  /\ frag \in [Sources -> SUBSET Days] /\ adjusted \in [Sources -> BOOLEAN]
  /\ bars \in Bars /\ meta \in Meta \cup {None} /\ rulings \in Rulings
  /\ ledger \in [Days -> Int \cup {None}]
  /\ job \in [Callers -> Job]

Init ==
  /\ FeedInit(Start)
  /\ bars = NoBars /\ meta = None /\ rulings = NoRulings
  /\ ledger = [d \in Days |-> None]
  /\ job = [c \in Callers |-> NoJob]

-----------------------------------------------------------------------------
\* What get_ohlcv decides from the store.

Session == LastClosedDay(now)

Fresh == meta # None /\ now - meta.fetched < TTL

\* Mutated: the one catch-up is spent even when its bar was withheld.
MissedCloseOnce ==
  meta # None /\ Hi(bars) < Session /\ now >= Published(Session)
  /\ meta.fetched < Published(Session)

MissedClose ==
  /\ meta # None
  /\ Hi(bars) < Session /\ now >= Published(Session)
  /\ \/ meta.fetched < Published(Session)
     \/ meta.withheld = Session /\ now - meta.fetched >= WithheldRetry

Floor == IF meta = None THEN Lo(bars) ELSE meta.floor

Deeper(lookback) == Today - lookback < Floor
Due == MissedClose \/ ~Fresh
Behind == Today > Hi(bars) /\ (Weekday(Today) < 5 \/ MissedClose)
NewSeams == {d \in Seams(bars, Today) : ledger[d] = None}
BrokenScale == ~IsIndex /\ NewSeams # {}

\* A get_ohlcv answered from the store: it changes nothing.
ServesStored(lookback) ==
  /\ Banked(bars) # {}
  /\ ~Deeper(lookback)
  /\ Due => ~Behind /\ ~BrokenScale

LeastOf(a, b) == IF a <= b THEN a ELSE b

Ask(c, kind, start, from, floor, tail, repair) ==
  /\ job[c].pc = "idle" /\ kind \in Kinds
  /\ job' = [job EXCEPT ![c] = [NoJob EXCEPT
       !.pc = "asked", !.kind = kind, !.start = start, !.end = Today, !.from = from,
       !.lo = IF Banked(bars) = {} THEN 0 ELSE Lo(bars),
       !.floor = floor, !.tail = tail, !.repair = repair, !.began = now]]

ColdFetch(c, lookback) ==
  /\ Banked(bars) = {}
  /\ Ask(c, "get", Today - lookback, Today - lookback, None, FALSE, {})
  /\ UNCHANGED <<feedVars, storeVars>>

DeeperFetch(c, lookback) ==
  /\ Banked(bars) # {} /\ Deeper(lookback)
  /\ Ask(c, "get", Today - lookback, Today - lookback, Floor, FALSE, {})
  /\ UNCHANGED <<feedVars, storeVars>>

\* Mutated: a top-up without the overlap, and one of today alone.
TopUpFromNext == Hi(bars) + 1
TopUpFromToday == Today

\* The overlap: a top-up re-reads the last banked bar and the one before it.
TopUpFrom ==
  IF Before(bars, Hi(bars)) = {} THEN Hi(bars) ELSE Max(Before(bars, Hi(bars)))

TopUp(c, lookback) ==
  /\ Banked(bars) # {} /\ ~Deeper(lookback)
  /\ Due /\ Behind /\ ~BrokenScale
  /\ Ask(c, "get", Today - lookback, TopUpFrom, Floor, TRUE, {})
  /\ UNCHANGED <<feedVars, storeVars>>

SeamRepair(c, lookback) ==
  /\ Banked(bars) # {} /\ ~Deeper(lookback)
  /\ Due /\ BrokenScale
  /\ Ask(c, "get", Today - lookback, LeastOf(Today - lookback, Lo(bars) - Lead),
         Floor, Behind, NewSeams)
  /\ rulings' = NoRulings
  /\ UNCHANGED <<feedVars, bars, meta, ledger>>

Rescan(c) ==
  /\ Banked(bars) # {}
  /\ LET start == IF Lo(bars) > Today - RescanLookback THEN Lo(bars)
                  ELSE Today - RescanLookback
     IN Ask(c, "rescan", start, start, None, FALSE, {})
  /\ UNCHANGED <<feedVars, storeVars>>

\* Some banked bars nobody ruled on; at most MaxDates of them, to bound the model.
Adjudicate(c, dates) ==
  /\ job[c].pc = "idle" /\ "adjudicate" \in Kinds
  /\ dates # {} /\ Cardinality(dates) <= MaxDates
  /\ \A d \in dates : bars[d] # None /\ rulings[d] = None
                      /\ d <= Today - AdjudicateAge
  /\ job' = [job EXCEPT ![c] = [NoJob EXCEPT
       !.pc = "resolving", !.kind = "adjudicate", !.began = now,
       !.todo = {[day |-> d, by |-> bars[d].src] : d \in dates}]]
  /\ UNCHANGED <<feedVars, storeVars>>
-----------------------------------------------------------------------------
\* _query: a source answers, and what is done with the answer.

Answer(c, s) ==
  /\ job[c].pc = "asked"
  /\ \E rows \in {ServedRange(s, job[c].from, job[c].end)}
                   \cup (IF s \in Hollow THEN {NoRows} ELSE {}) :
       job' = [job EXCEPT ![c] = [@ EXCEPT
         !.pc = "answered", !.rows = rows, !.src = s]]
  /\ UNCHANGED <<feedVars, storeVars>>

\* Every source is unavailable: the call serves the store, or raises.
Unavailable(c) ==
  /\ job[c].pc = "asked"
  /\ job' = [job EXCEPT ![c] = NoJob]
  /\ UNCHANGED <<feedVars, storeVars>>

\* Mutated: a repair of the window the caller asked for.
RepairFromWindow(c) == IF job[c].kind = "get" THEN job[c].start ELSE job[c].lo - Lead

RepairFrom(c) ==
  IF job[c].kind = "get" THEN LeastOf(job[c].start, job[c].lo - Lead)
  ELSE job[c].lo - Lead

\* The tail overlap came back on another scale: bank nothing of it.
ScaleMoved(c) ==
  /\ job[c].kind = "get" /\ job[c].tail /\ job[c].repair = {} /\ ~IsIndex
  /\ Rescaled(bars, job[c].rows) # {}

\* Mutated: the rulings made on the old scale are kept.
RefetchKeepingRulings(c, day) ==
  /\ job' = [job EXCEPT ![c] = [@ EXCEPT
       !.pc = "asked", !.from = RepairFrom(c), !.repair = {day}, !.rows = NoRows,
       !.src = None]]
  /\ UNCHANGED <<feedVars, storeVars>>

Refetch(c, day) ==
  /\ job' = [job EXCEPT ![c] = [@ EXCEPT
       !.pc = "asked", !.from = RepairFrom(c), !.repair = {day},
       !.rows = NoRows, !.src = None]]
  /\ rulings' = NoRulings
  /\ UNCHANGED <<feedVars, bars, meta, ledger>>

RefetchTail(c) ==
  /\ job[c].pc = "answered" /\ ScaleMoved(c)
  /\ Refetch(c, Max(Rescaled(bars, job[c].rows)))

Probing(c) == job[c].kind = "rescan" /\ job[c].repair = {}

\* Only settled days can prove a rescale to rescan_rescale.
RescanHits(c) == {d \in Rescaled(bars, job[c].rows) : d < job[c].end}

RescanSeam(c) ==
  LET last == Max(RescanHits(c))
  IN  IF After(bars, last) = {} THEN last ELSE Min(After(bars, last))

UtcDay(t) == (t - UtcLag) \div SlotsPerDay

RepairedToday(d) == ledger[d] # None /\ UtcDay(ledger[d]) = UtcDay(now)

RescanAgrees(c) ==
  /\ job[c].pc = "answered" /\ Probing(c)
  /\ RescanHits(c) # {} => RepairedToday(RescanSeam(c))
  /\ job' = [job EXCEPT ![c] = NoJob]
  /\ UNCHANGED <<feedVars, storeVars>>

RescanRepair(c) ==
  /\ job[c].pc = "answered" /\ Probing(c)
  /\ RescanHits(c) # {} /\ ~RepairedToday(RescanSeam(c))
  /\ Refetch(c, RescanSeam(c))

\* upsert_ohlcv; at most ResolveMax suspects go to a second source.
Bank(c) ==
  /\ job[c].pc = "answered" /\ ~ScaleMoved(c) /\ ~Probing(c)
  /\ LET j == job[c]
         suspects == Newest(ResolveMax, Suspects(bars, rulings, j.rows, j.src, Today))
     IN /\ bars' = Upsert(bars, rulings, j.rows, j.src, Today)
        /\ job' = [job EXCEPT ![c] = [j EXCEPT
             !.pc = IF suspects = {} THEN "stamping" ELSE "resolving",
             !.todo = {[day |-> d, by |-> j.src] : d \in suspects}]]
  /\ UNCHANGED <<feedVars, meta, rulings, ledger>>
-----------------------------------------------------------------------------
\* _resolve_stubs: the suspects of one source, oldest first.

PickSuspect(c) ==
  /\ job[c].pc = "resolving"
  /\ \E p \in job[c].todo :
       /\ \A q \in job[c].todo : q.by = p.by => p.day <= q.day
       /\ job' = [job EXCEPT ![c] = [@ EXCEPT
            !.pc = "asking", !.todo = job[c].todo \ {p},
            !.case = [day |-> p.day, by |-> p.by, alt |-> None, against |-> None,
                      thin |-> bars[p.day] # None /\ bars[p.day].thin]]]
  /\ UNCHANGED <<feedVars, storeVars>>

\* The volume of the second reading is more than STUB_FRAGMENT_FACTOR times the
\* banked one.
IsFragment(case) == case.thin /\ ~case.alt.thin

SecondOpinion(c, s) ==
  /\ job[c].pc = "asking" /\ s # job[c].case.by
  /\ Served(s, job[c].case.day) # None
  /\ LET case == [job[c].case EXCEPT !.alt = Served(s, job[c].case.day), !.against = s]
     IN job' = [job EXCEPT ![c] = [@ EXCEPT
          !.pc = IF IsFragment(case) THEN "rebanking" ELSE "recording",
          !.case = case]]
  /\ UNCHANGED <<feedVars, storeVars>>

AfterCase(j) == [j EXCEPT !.case = None,
  !.pc = IF j.todo # {} THEN "resolving"
         ELSE IF j.kind = "adjudicate" THEN "idle" ELSE "stamping"]

Close(j) == IF AfterCase(j).pc = "idle" THEN NoJob ELSE AfterCase(j)

\* No other source has the bar: the ruling waits.
PassOver(c) ==
  /\ job[c].pc = "asking"
  /\ job' = [job EXCEPT ![c] = Close(job[c])]
  /\ UNCHANGED <<feedVars, storeVars>>

Rebank(c) ==
  /\ job[c].pc = "rebanking"
  /\ LET case == job[c].case
         alt == [NoRows EXCEPT ![case.day] = case.alt]
     IN bars' = Upsert(bars, rulings, alt, case.against, Today)
  /\ job' = [job EXCEPT ![c] = [@ EXCEPT !.pc = "recording"]]
  /\ UNCHANGED <<feedVars, meta, rulings, ledger>>

Record(c) ==
  /\ job[c].pc = "recording"
  /\ LET case == job[c].case
     IN rulings' = [rulings EXCEPT
                      ![case.day] = [src |-> case.by, frag |-> IsFragment(case)]]
  /\ job' = [job EXCEPT ![c] = Close(job[c])]
  /\ UNCHANGED <<feedVars, bars, meta, ledger>>
-----------------------------------------------------------------------------
\* _withheld_today, set_meta and mark_seams_repaired.

Withheld(c) ==
  IF /\ Today \in Days /\ job[c].rows[Today] # None
     /\ Banked(bars) = {} \/ Hi(bars) < Today
  THEN Today ELSE None

\* Mutated: the floor of the last fetch; no floor after a cold one.
NewFloorOfFetch(c) == job[c].from
NewFloorUnset(c) ==
  IF job[c].floor = None THEN None ELSE LeastOf(job[c].from, job[c].floor)

NewFloor(c) ==
  LET known == IF job[c].kind = "get" THEN job[c].floor
               ELSE IF meta = None THEN None ELSE meta.floor
  IN  IF known = None THEN job[c].from ELSE LeastOf(job[c].from, known)

Stamp(c) ==
  /\ job[c].pc = "stamping"
  /\ meta' = [fetched |-> now, floor |-> NewFloor(c), withheld |-> Withheld(c)]
  /\ job' = [job EXCEPT ![c] = IF @.repair = {} THEN NoJob ELSE [@ EXCEPT !.pc = "ledger"]]
  /\ UNCHANGED <<feedVars, bars, rulings, ledger>>

MarkRepaired(c) ==
  /\ job[c].pc = "ledger"
  /\ ledger' = [d \in Days |-> IF d \in job[c].repair THEN now ELSE ledger[d]]
  /\ job' = [job EXCEPT ![c] = NoJob]
  /\ UNCHANGED <<feedVars, bars, meta, rulings>>

Crash(c) ==
  /\ CanCrash /\ job[c].pc # "idle"
  /\ job' = [job EXCEPT ![c] = NoJob]
  /\ UNCHANGED <<feedVars, storeVars>>
-----------------------------------------------------------------------------
Tick ==
  /\ now < End /\ MayPass
  /\ \A c \in Callers : job[c].pc # "idle" => now - job[c].began < MaxCallTicks
  /\ now' = now + 1
  /\ UNCHANGED <<frag, adjusted, storeVars, job>>

Environment == FeedStep /\ UNCHANGED <<storeVars, job>>

GetStep(c) ==
  \E lookback \in Lookbacks :
    \/ ColdFetch(c, lookback) \/ DeeperFetch(c, lookback)
    \/ TopUp(c, lookback)     \/ SeamRepair(c, lookback)

CallStep(c) ==
  \/ \E s \in Sources : Answer(c, s)
  \/ Unavailable(c)
  \/ RefetchTail(c) \/ RescanAgrees(c) \/ RescanRepair(c) \/ Bank(c)
  \/ PickSuspect(c)
  \/ \E s \in Sources : SecondOpinion(c, s)
  \/ PassOver(c) \/ Rebank(c) \/ Record(c)
  \/ Stamp(c) \/ MarkRepaired(c)

Next ==
  \/ Tick
  \/ Environment
  \/ \E c \in Callers :
       \/ GetStep(c)
       \/ Rescan(c)
       \/ \E dates \in SUBSET Days : Adjudicate(c, dates)
       \/ CallStep(c)
       \/ Crash(c)

Spec == Init /\ [][Next]_vars

\* The clock runs, a caller keeps calling and finishes what it started, and the
\* sources are not all unavailable for ever.
FairSpec ==
  /\ Spec
  /\ WF_vars(Tick)
  /\ \A c \in Callers : /\ WF_vars(GetStep(c)) /\ WF_vars(CallStep(c))
                        /\ SF_vars(\E s \in Sources : Answer(c, s))
-----------------------------------------------------------------------------
\* Properties.

\* The abstract cache this one is an implementation of: only what its floor
\* vouches for is held.
Service == INSTANCE BarService WITH
  Sessions <- {d \in Days : Traded(d)},
  floor <- IF meta = None THEN None ELSE meta.floor,
  held <- IF meta = None THEN {} ELSE {d \in Banked(bars) : meta.floor <= d}

\* To the readers of one symbol the cache is an unbroken series that only grows: no
\* top-up, deeper fetch, repair, ruling or crash opens a hole behind the newest bar,
\* loses a bar, or forgets how deep a window was asked for (the order of upsert_ohlcv
\* and set_meta, the overlap of a top-up, the floor set_meta is given).
ServiceSpec == Service!Spec

\* The banked series has no hole: between the oldest date ever asked for and the
\* newest bar, every session the symbol traded is banked, whatever was withheld,
\* refused, refetched or interleaved on the way there (the overlap of the tail
\* top-up and the "withheld only while it is today" rule of upsert_ohlcv).
NoHoles ==
  meta # None =>
    \A d \in Days : /\ Traded(d) /\ meta.floor <= d
                    /\ \E e \in Banked(bars) : e > d
                    => bars[d] # None

\* Every bar behind the newest one is the whole session, or a fragment the
\* volume test saw: a bar banked in the middle of its session is re-read settled
\* before a younger one is banked in front of it (the overlap of get_ohlcv).
SettledBehindTip ==
  \A d \in Banked(bars) : After(bars, d) # {} => bars[d].settled \/ bars[d].thin

\* A source ruled to have served a fragment of a date is not the source of that
\* date's bar: its fragment was replaced before the ruling was recorded and no
\* later fetch, repair or adjudication banked it again (md_ohlcv_stubs).
RefusedNotBanked ==
  \A d \in Days : rulings[d] # None /\ rulings[d].frag =>
    bars[d] # None /\ bars[d].src # rulings[d].src

\* A date is ruled on once: a ruling is dropped by a repair, never overruled
\* (record_stub_check and the "never adjudicated" filter of upsert_ohlcv).
RulingStands ==
  [][\A d \in Days : rulings[d] # None => rulings'[d] \in {rulings[d], None}]_vars

\* The recorded floor only ever goes down: no top-up or repair forgets that a
\* deeper window was asked for (the floor set_meta is given).  A cold fetch, which
\* reads no floor, starts the record anew.
FloorNeverRises ==
  [][meta # None /\ (\A c \in Callers : job[c].pc = "stamping" /\ job[c].kind = "get" =>
                                       job[c].floor # None)
     => meta' # None /\ meta'.floor <= meta.floor]_vars

\* The bars the store has from one source are on one scale: those before the ex-date
\* are all adjusted or all not, and once a bar from the ex-date on is banked they are
\* all adjusted (find_rescale before upsert_ohlcv in get_ohlcv).  Neighbouring fragments
\* leave nothing to compare (OhlcvBlindOverlap.cfg), a late second opinion on an old one
\* compares nothing, and a death between bars and marker makes a later fetch shallow.
OneScale ==
  \A d, e \in Banked(bars) : bars[d].src = bars[e].src => bars[d].adj = bars[e].adj

\* A repair rewrites every settled bar the store holds: it reaches back past the
\* oldest one, and no ruling made on the old scale keeps its source away
\* (clear_stub_checks, SEAM_REPAIR_LEAD_DAYS).
RepairRewritesAll ==
  [][\A c \in Callers :
       /\ job[c].pc = "answered" /\ job'[c].pc \in {"stamping", "resolving"}
       /\ job[c].repair # {} /\ job[c].rows # NoRows
       => \A d \in Banked(bars) : d < Today => bars'[d].src = job[c].src]_vars

\* A fragment never takes a date over from another source unseen: where no ruling
\* stands, as after a repair dropped them all, and the bars before it are enough to
\* tell, the date is on its way to a second reading (clear_stub_checks, then the
\* volume test of upsert_ohlcv).
FragmentIsReread ==
  [][\A d \in Days :
       /\ bars[d] # None /\ bars'[d].src # bars[d].src
       /\ bars'[d].thin /\ ~bars'[d].settled /\ rulings'[d] = None
       /\ Cardinality(Before(bars, d)) >= MinBaseline
       => \E c \in Callers : \E p \in job'[c].todo : p.day = d]_vars

\* A read after a session's bar is published is not answered from a store that
\* stops short of it, unless the feed withheld it within the retry interval
\* (_missed_close).
CaughtUp ==
  \A lookback \in Lookbacks :
    /\ ServesStored(lookback)
    /\ now >= Published(Session) /\ Traded(Session) /\ Session \in Days
    /\ \A s \in Sources : Session \notin frag[s]
    /\ meta # None => ~(meta.withheld = Session /\ now - meta.fetched < WithheldRetry)
    => bars[Session] # None

\* A bar withheld while its session was unsettled is banked in the end, even from
\* a feed that never settles it (set_meta's withheld marker and the settled-date
\* branch of upsert_ohlcv).
WithheldIsBanked ==
  \A d \in Days : (meta # None /\ meta.withheld = d) ~> (bars[d] # None)

-----------------------------------------------------------------------------
\* What the documentation says and the code does not keep (README.md, known
\* disagreements), each with a configuration that shows it.

\* On a closed day nothing is fetched for a symbol that has the last session
\* (OhlcvHoliday.cfg).
NothingFetchedWhenClosed ==
  (Banked(bars) # {} /\ ~IsTradingDay(Today) /\ Hi(bars) = Session) =>
    \A lookback \in Lookbacks : Deeper(lookback) \/ ServesStored(lookback)

\* A fresh marker serves the store, whether the last answer had rows or not
\* (OhlcvNegative.cfg).
FreshMarkerServes ==
  Fresh => \A lookback \in Lookbacks :
             Today - lookback < meta.floor \/ ServesStored(lookback)

\* A repair, which dropped the rulings, tests every fragment it banks again
\* (OhlcvOldRuling.cfg).
RepairRetests ==
  [][\A c \in Callers :
       /\ job[c].pc = "answered" /\ job'[c].pc \in {"stamping", "resolving"}
       /\ job[c].repair # {}
       => \A d \in Days : /\ job[c].rows[d] # None /\ d < Today
                          /\ job[c].rows[d].thin /\ ~job[c].rows[d].settled
                          /\ Cardinality(Before(bars, d)) >= MinBaseline
                          => \E p \in job'[c].todo : p.day = d]_vars

\* A rescale the sources have all adopted is caught on the next top-up at the
\* latest (OhlcvLateRescale.cfg).
CaughtByNextTopUp ==
  \A c \in Callers : job[c].pc = "stamping" /\ job[c].tail /\ job[c].began > AdoptBy =>
    \A d \in Banked(bars) : bars[d].adj

\* A seam that survives its repair was really traded (OhlcvLateSeam.cfg).
SurvivingSeamWasTraded ==
  \A d \in Days : ledger[d] # None /\ d \in Seams(bars, LastDay) => d \in Jumps
=============================================================================
