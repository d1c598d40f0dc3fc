-------------------------------- MODULE OhlcvProofs -------------------------
(***************************************************************************)
(* Theorems about OhlcvCache, for every value of its constants: types and  *)
(* the rulings of a lone caller first, then the unbroken series that       *)
(* callers who race, die and repair keep between them, the service the     *)
(* cache is to its readers, that these see the newest session, and that a  *)
(* corporate action leaves them one scale.                                 *)
(***************************************************************************)
EXTENDS OhlcvCache, FiniteSetTheorems, WellFoundedInduction, TLAPS

\* A nonempty finite set of integers has a least element, which Min picks.
LEMMA MinOfFinite ==
  ASSUME NEW S, S \subseteq Int, IsFiniteSet(S), S # {}
  PROVE  Min(S) \in S /\ \A y \in S : Min(S) <= y
<1> DEFINE below(x) == {y \in S : y < x}
           T == {below(x) : x \in S}
<1>1. IsWellFoundedOn(StrictSubsetOrdering(S), FiniteSubsetsOf(S))
  BY FS_StrictSubsetOrderingWellFounded
<1>2. T \subseteq FiniteSubsetsOf(S) /\ T # {}
  <2>1. \A x \in S : below(x) \subseteq S /\ IsFiniteSet(below(x))
    BY FS_Subset
  <2> QED BY <2>1 DEF FiniteSubsetsOf
<1>3. PICK U \in T : \A V \in T : <<V, U>> \notin StrictSubsetOrdering(S)
  BY <1>1, <1>2, WFMin
<1>4. PICK x \in S : U = below(x)
  OBVIOUS
<1>5. \A y \in S : x <= y
  <2> SUFFICES ASSUME NEW y \in S, y < x PROVE FALSE
    OBVIOUS
  <2>1. below(y) \subseteq U /\ below(y) # U
    <3>1. \A z \in below(y) : z \in S /\ z < x
      OBVIOUS
    <3>2. y \in U /\ y \notin below(y)
      BY <1>4
    <3> QED BY <1>4, <3>1, <3>2
  <2>2. below(y) \in T
    OBVIOUS
  <2> QED BY <1>3, <2>1, <2>2 DEF StrictSubsetOrdering
<1> QED BY <1>5 DEF Min

\* ... and a greatest one, which Max picks.
LEMMA MaxOfFinite ==
  ASSUME NEW S, S \subseteq Int, IsFiniteSet(S), S # {}
  PROVE  Max(S) \in S /\ \A y \in S : Max(S) >= y
<1> DEFINE above(x) == {y \in S : x < y}
           T == {above(x) : x \in S}
<1>1. IsWellFoundedOn(StrictSubsetOrdering(S), FiniteSubsetsOf(S))
  BY FS_StrictSubsetOrderingWellFounded
<1>2. T \subseteq FiniteSubsetsOf(S) /\ T # {}
  <2>1. \A x \in S : above(x) \subseteq S /\ IsFiniteSet(above(x))
    BY FS_Subset
  <2> QED BY <2>1 DEF FiniteSubsetsOf
<1>3. PICK U \in T : \A V \in T : <<V, U>> \notin StrictSubsetOrdering(S)
  BY <1>1, <1>2, WFMin
<1>4. PICK x \in S : U = above(x)
  OBVIOUS
<1>5. \A y \in S : x >= y
  <2> SUFFICES ASSUME NEW y \in S, x < y PROVE FALSE
    OBVIOUS
  <2>1. above(y) \subseteq U /\ above(y) # U
    <3>1. \A z \in above(y) : z \in S /\ x < z
      OBVIOUS
    <3>2. y \in U /\ y \notin above(y)
      BY <1>4
    <3> QED BY <1>4, <3>1, <3>2
  <2>2. above(y) \in T
    OBVIOUS
  <2> QED BY <1>3, <2>1, <2>2 DEF StrictSubsetOrdering
<1> QED BY <1>5 DEF Max
-----------------------------------------------------------------------------
\* The operators the actions are built from, typed.

LEMMA DaysFinite == Days \subseteq Int /\ \A S \in SUBSET Days : IsFiniteSet(S)
<1>1. IsFiniteSet(Days)
  BY FS_Interval, FeedAssumption DEF Days
<1>2. Days \subseteq Int
  BY FeedAssumption DEF Days
<1>3. \A S \in SUBSET Days : IsFiniteSet(S)
  BY <1>1, FS_Subset
<1> QED BY <1>2, <1>3

LEMMA DayOfInstant == \A t \in Int : Day(t) \in Int
BY ClockAssumption DEF Day

\* The oldest and the newest bar, and where a top-up starts, are days.
LEMMA BoundsTyped ==
  ASSUME bars \in Bars, Banked(bars) # {}
  PROVE  Lo(bars) \in Days /\ Hi(bars) \in Days /\ TopUpFrom \in Days
<1>1. Banked(bars) \subseteq Days /\ \A d : Before(bars, d) \subseteq Days
  BY DEF Banked, Before
<1>2. Lo(bars) \in Days /\ Hi(bars) \in Days
  BY <1>1, DaysFinite, MinOfFinite, MaxOfFinite DEF Lo, Hi
<1>3. CASE Before(bars, Hi(bars)) = {}
  BY <1>2, <1>3 DEF TopUpFrom
<1>4. CASE Before(bars, Hi(bars)) # {}
  BY <1>1, <1>2, <1>4, DaysFinite, MaxOfFinite DEF TopUpFrom
<1> QED BY <1>2, <1>3, <1>4

LEMMA ServedTyped ==
  ASSUME now \in Int, frag \in [Sources -> SUBSET Days],
         adjusted \in [Sources -> BOOLEAN], NEW s \in Sources
  PROVE  /\ \A d \in Days : Served(s, d) \in Row \cup {None}
         /\ \A from, to : ServedRange(s, from, to) \in Rows
<1>1. ASSUME NEW d \in Days PROVE Served(s, d) \in Row \cup {None}
  <2>1. (d >= Ex \/ adjusted[s]) \in BOOLEAN
    OBVIOUS
  <2> QED BY <2>1 DEF Served, Row
<1> QED BY <1>1 DEF ServedRange, Rows

\* An upsert keeps the table a table, changes no date but those it keeps, and
\* banks those from the source that answered.
LEMMA UpsertTyped ==
  ASSUME NEW table \in Bars, NEW ruled, NEW rows \in Rows, NEW s \in Sources,
         NEW today
  PROVE  Upsert(table, ruled, rows, s, today) \in Bars
<1>1. \A d \in Kept(table, ruled, rows, s, today) : rows[d] \in Row
  BY DEF Kept, Rows
<1> QED BY <1>1 DEF Upsert, Bars, Bar, Row, Rows

LEMMA UpsertEffect ==
  ASSUME NEW table \in Bars, NEW ruled, NEW rows \in Rows, NEW s \in Sources,
         NEW today, NEW d \in Days
  PROVE  LET after == Upsert(table, ruled, rows, s, today)
         IN  /\ d \notin Kept(table, ruled, rows, s, today) => after[d] = table[d]
             /\ d \in Kept(table, ruled, rows, s, today) =>
                   after[d] # None /\ after[d].src = s
<1> DEFINE after == Upsert(table, ruled, rows, s, today)
           kept == Kept(table, ruled, rows, s, today)
<1>1. after[d] \in Bar \cup {None}
  BY UpsertTyped DEF Bars
<1>2. d \notin kept => after[d] = table[d]
  BY DEF Upsert
<1>3. ASSUME d \in kept PROVE after[d] # None /\ after[d].src = s
  <2>1. after[d] = [adj |-> rows[d].adj, thin |-> rows[d].thin,
                    settled |-> rows[d].settled, src |-> s]
    BY <1>3 DEF Upsert
  <2>2. rows[d] \in Row
    BY <1>3 DEF Kept, Rows
  <2>3. after[d] \in Bar
    BY <2>1, <2>2 DEF Row, Bar
  <2> QED BY <2>1, <2>3, StoreAssumption
<1> QED BY <1>2, <1>3
-----------------------------------------------------------------------------
\* Typing.  What a job record holds depends on where the call is.

JobOK(j) ==
  /\ j \in Job
  /\ j.pc = "answered" => j.src \in Sources
  /\ j.pc \in {"asking", "rebanking", "recording"} => j.case \in Case
  /\ j.pc \in {"rebanking", "recording"} => j.case.alt \in Row /\ j.case.against \in Sources

TypeInv == TypeOK /\ \A c \in Callers : JobOK(job[c])

LEMMA NoJobTyped == JobOK(NoJob) /\ NoRows \in Rows /\ NoBars \in Bars /\ NoRulings \in Rulings
BY DEF NoJob, JobOK, Job, PCs, NoRows, Rows, NoBars, Bars, NoRulings, Rulings

\* A step that moves one caller's job to a sound record leaves all of them sound.
LEMMA JobsStayTyped ==
  ASSUME TypeInv, NEW c \in Callers, NEW j, JobOK(j), job' = [job EXCEPT ![c] = j]
  PROVE  job' \in [Callers -> Job] /\ \A o \in Callers : JobOK(job'[o])
BY DEF TypeInv, TypeOK, JobOK

LEMMA InitTyped == Init => TypeInv
<1> SUFFICES ASSUME Init PROVE TypeInv
  OBVIOUS
<1>1. job \in [Callers -> Job] /\ \A c \in Callers : JobOK(job[c])
  BY NoJobTyped DEF Init, JobOK
<1>2. now \in Int /\ frag \in [Sources -> SUBSET Days] /\ adjusted \in [Sources -> BOOLEAN]
  BY CacheAssumption DEF Init, FeedInit
<1>3. bars \in Bars /\ rulings \in Rulings /\ ledger \in [Days -> Int \cup {None}]
  BY NoJobTyped DEF Init
<1>4. meta \in Meta \cup {None}
  BY DEF Init
<1> QED BY <1>1, <1>2, <1>3, <1>4 DEF TypeInv, TypeOK

LEMMA FloorTyped ==
  ASSUME TypeInv, Banked(bars) # {}
  PROVE  Floor \in Int
BY BoundsTyped, DaysFinite DEF TypeInv, TypeOK, Floor, Meta

LEMMA AskArguments ==
  /\ {} \in SUBSET Days /\ TRUE \in BOOLEAN /\ FALSE \in BOOLEAN
  /\ "get" \in {"get", "rescan"} /\ "rescan" \in {"get", "rescan"}
  /\ None \in Int \cup {None} /\ \A n \in Int : n \in Int \cup {None}
OBVIOUS

LEMMA AskTyped ==
  ASSUME TypeInv, NEW c \in Callers, NEW kind \in {"get", "rescan"},
         NEW start \in Int, NEW from \in Int, NEW floor \in Int \cup {None},
         NEW tail \in BOOLEAN, NEW repair \in SUBSET Days,
         Ask(c, kind, start, from, floor, tail, repair)
  PROVE  job' \in [Callers -> Job] /\ \A o \in Callers : JobOK(job'[o])
<1> DEFINE lo == IF Banked(bars) = {} THEN 0 ELSE Lo(bars)
           j == [NoJob EXCEPT
       !.pc = "asked", !.kind = kind, !.start = start, !.end = Today, !.from = from,
       !.lo = lo, !.floor = floor, !.tail = tail, !.repair = repair, !.began = now]
<1>1. now \in Int /\ Today \in Int
  BY DayOfInstant DEF TypeInv, TypeOK, Today
<1>2. lo \in Int
  <2>1. CASE Banked(bars) = {}
    BY <2>1
  <2>2. CASE Banked(bars) # {}
    <3>1. Lo(bars) \in Days
      BY <2>2, BoundsTyped DEF TypeInv, TypeOK
    <3> QED BY <2>2, <3>1, DaysFinite
  <2> QED BY <2>1, <2>2
<1>3. JobOK(j)
  <2> HIDE DEF lo
  <2>1. NoJob \in Job
    BY NoJobTyped DEF JobOK
  <2>2. j \in Job
    BY <1>1, <1>2, <2>1 DEF Job, PCs
  <2>3. j.pc = "asked"
    BY <2>1 DEF Job
  <2> QED BY <2>2, <2>3 DEF JobOK
<1>4. job' = [job EXCEPT ![c] = j]
  BY DEF Ask
<1> QED BY <1>3, <1>4, JobsStayTyped

\* A call that starts leaves the types of the store alone: one step per way in.
LEMMA StartTyped ==
  ASSUME TypeInv, NEW c \in Callers,
         \/ GetStep(c)
         \/ Rescan(c)
         \/ \E dates \in SUBSET Days : Adjudicate(c, dates)
  PROVE  TypeInv'
<1> USE DEF storeVars, feedVars
<1>0. Today \in Int /\ \A lookback \in Lookbacks : Today - lookback \in Int
  BY DayOfInstant, CacheAssumption DEF TypeInv, TypeOK, Today
<1>1. ASSUME NEW lookback \in Lookbacks,
             ColdFetch(c, lookback) \/ DeeperFetch(c, lookback) \/ TopUp(c, lookback)
      PROVE  TypeInv'
  <2>1. UNCHANGED <<feedVars, storeVars>>
    BY <1>1 DEF ColdFetch, DeeperFetch, TopUp
  <2>2. job' \in [Callers -> Job] /\ \A o \in Callers : JobOK(job'[o])
    <3>1. CASE ColdFetch(c, lookback)
      BY <1>0, <3>1, AskTyped DEF ColdFetch
    <3>2. CASE DeeperFetch(c, lookback)
      <4>1. Floor \in Int
        BY <3>2, FloorTyped DEF DeeperFetch
      <4>2. Ask(c, "get", Today - lookback, Today - lookback, Floor, FALSE, {})
        BY <3>2 DEF DeeperFetch
      <4> QED BY <1>0, <4>1, <4>2, AskTyped, AskArguments, Zenon
    <3>3. CASE TopUp(c, lookback)
      <4>1. TopUpFrom \in Int /\ Floor \in Int
        BY <3>3, BoundsTyped, FloorTyped, DaysFinite DEF TopUp, TypeInv, TypeOK
      <4>2. Ask(c, "get", Today - lookback, TopUpFrom, Floor, TRUE, {})
        BY <3>3 DEF TopUp
      <4> QED BY <1>0, <4>1, <4>2, AskTyped, AskArguments, Zenon
    <3> QED BY <1>1, <3>1, <3>2, <3>3
  <2> QED BY <2>1, <2>2 DEF TypeInv, TypeOK
<1>2. ASSUME NEW lookback \in Lookbacks, SeamRepair(c, lookback)
      PROVE  TypeInv'
  <2>1. Lo(bars) \in Int /\ Floor \in Int
    BY <1>2, BoundsTyped, FloorTyped, DaysFinite DEF SeamRepair, TypeInv, TypeOK
  <2>2. LeastOf(Today - lookback, Lo(bars) - Lead) \in Int
    BY <1>0, <2>1, CacheAssumption DEF LeastOf
  <2>3. Behind \in BOOLEAN /\ NewSeams \in SUBSET Days
    BY DEF Behind, MissedClose, NewSeams, Seams, Banked
  <2>4. job' \in [Callers -> Job] /\ \A o \in Callers : JobOK(job'[o])
    BY <1>0, <1>2, <2>1, <2>2, <2>3, AskTyped DEF SeamRepair
  <2>5. rulings' \in Rulings /\ UNCHANGED <<feedVars, bars, meta, ledger>>
    BY <1>2, NoJobTyped DEF SeamRepair
  <2> QED BY <2>4, <2>5 DEF TypeInv, TypeOK
<1>3. ASSUME Rescan(c) PROVE TypeInv'
  <2> DEFINE start == IF Lo(bars) > Today - RescanLookback THEN Lo(bars)
                      ELSE Today - RescanLookback
  <2>1. start \in Int
    <3>1. Lo(bars) \in Int
      BY <1>3, BoundsTyped, DaysFinite DEF Rescan, TypeInv, TypeOK
    <3> QED BY <1>0, <3>1, CacheAssumption
  <2>2. Ask(c, "rescan", start, start, None, FALSE, {})
    BY <1>3 DEF Rescan
  <2>3. job' \in [Callers -> Job] /\ \A o \in Callers : JobOK(job'[o])
    <3> HIDE DEF start
    <3> QED BY <2>1, <2>2, AskTyped, AskArguments, Zenon
  <2>4. UNCHANGED <<feedVars, storeVars>>
    BY <1>3 DEF Rescan
  <2> QED BY <2>3, <2>4 DEF TypeInv, TypeOK
<1>4. ASSUME NEW dates \in SUBSET Days, Adjudicate(c, dates) PROVE TypeInv'
  <2> DEFINE todo == {[day |-> d, by |-> bars[d].src] : d \in dates}
             j == [NoJob EXCEPT !.pc = "resolving", !.kind = "adjudicate",
                                !.began = now, !.todo = todo]
  <2>1. todo \in SUBSET Pending
    <3>1. \A d \in dates : d \in Days /\ bars[d] \in Bar
      BY <1>4 DEF Adjudicate, TypeInv, TypeOK, Bars
    <3>2. \A d \in dates : [day |-> d, by |-> bars[d].src] \in Pending
      BY <3>1 DEF Bar, Pending
    <3> QED BY <3>2
  <2>2. NoJob \in Job /\ now \in Int
    BY NoJobTyped DEF JobOK, TypeInv, TypeOK
  <2>3. job' = [job EXCEPT ![c] = j] /\ UNCHANGED <<feedVars, storeVars>>
    BY <1>4 DEF Adjudicate
  <2>4. j \in Job /\ j.pc = "resolving"
    <3> HIDE DEF todo
    <3> QED BY <2>1, <2>2 DEF Job, PCs
  <2>5. JobOK(j)
    BY <2>4 DEF JobOK
  <2> HIDE DEF j
  <2>6. job' \in [Callers -> Job] /\ \A o \in Callers : JobOK(job'[o])
    BY <2>3, <2>5, JobsStayTyped
  <2> QED BY <2>3, <2>6 DEF TypeInv, TypeOK
<1> QED BY <1>1, <1>2, <1>3, <1>4 DEF GetStep

\* A call that ends leaves an idle caller.
LEMMA EndTyped ==
  ASSUME TypeInv, NEW c \in Callers, job' = [job EXCEPT ![c] = NoJob],
         UNCHANGED <<feedVars, storeVars>>
  PROVE  TypeInv'
<1>1. job' \in [Callers -> Job] /\ \A o \in Callers : JobOK(job'[o])
  BY NoJobTyped, JobsStayTyped
<1> QED BY <1>1 DEF TypeInv, TypeOK, feedVars, storeVars

\* One step per action of the request itself.
LEMMA AnswerTyped ==
  ASSUME TypeInv, NEW c \in Callers, NEW s \in Sources, Answer(c, s)
  PROVE  TypeInv'
<1>1. PICK rows \in {ServedRange(s, job[c].from, job[c].end)}
                      \cup (IF s \in Hollow THEN {NoRows} ELSE {}) :
        job' = [job EXCEPT ![c] = [@ EXCEPT !.pc = "answered", !.rows = rows, !.src = s]]
  BY DEF Answer
<1>2. rows \in Rows
  BY <1>1, ServedTyped, NoJobTyped DEF TypeInv, TypeOK
<1> DEFINE j == [job[c] EXCEPT !.pc = "answered", !.rows = rows, !.src = s]
<1>3. job[c] \in Job
  BY DEF TypeInv, TypeOK
<1>4. j \in Job /\ j.pc = "answered" /\ j.src = s
  BY <1>2, <1>3 DEF Job, PCs
<1>5. JobOK(j)
  BY <1>4 DEF JobOK
<1>6. job' = [job EXCEPT ![c] = j]
  BY <1>1
<1>7. job' \in [Callers -> Job] /\ \A o \in Callers : JobOK(job'[o])
  <2> HIDE DEF j
  <2> QED BY <1>5, <1>6, JobsStayTyped
<1>8. UNCHANGED <<feedVars, storeVars>>
  BY DEF Answer
<1> QED BY <1>7, <1>8 DEF TypeInv, TypeOK, feedVars, storeVars

LEMMA RefetchTyped ==
  ASSUME TypeInv, NEW c \in Callers, NEW day \in Days, Refetch(c, day)
  PROVE  TypeInv'
<1> DEFINE j == [job[c] EXCEPT !.pc = "asked", !.from = RepairFrom(c), !.repair = {day},
                               !.rows = NoRows, !.src = None]
<1>1. job[c] \in Job
  BY DEF TypeInv, TypeOK
<1>2. RepairFrom(c) \in Int
  BY <1>1, CacheAssumption DEF RepairFrom, LeastOf, Job
<1>3. j \in Job /\ j.pc = "asked"
  BY <1>1, <1>2, NoJobTyped DEF Job, PCs
<1>4. JobOK(j)
  BY <1>3 DEF JobOK
<1>5. job' = [job EXCEPT ![c] = j]
  BY DEF Refetch
<1>6. job' \in [Callers -> Job] /\ \A o \in Callers : JobOK(job'[o])
  <2> HIDE DEF j
  <2> QED BY <1>4, <1>5, JobsStayTyped
<1>7. rulings' \in Rulings /\ UNCHANGED <<feedVars, bars, meta, ledger>>
  BY NoJobTyped DEF Refetch
<1> QED BY <1>6, <1>7 DEF TypeInv, TypeOK, feedVars

\* The date a repair is recorded against is a day.
LEMMA RefetchTailTyped ==
  ASSUME TypeInv, NEW c \in Callers, RefetchTail(c)
  PROVE  TypeInv'
<1>1. Rescaled(bars, job[c].rows) \subseteq Days
  BY DEF Rescaled, Banked
<1>2. Max(Rescaled(bars, job[c].rows)) \in Days
  BY <1>1, DaysFinite, MaxOfFinite DEF RefetchTail, ScaleMoved
<1> QED BY <1>2, RefetchTyped DEF RefetchTail

LEMMA RescanRepairTyped ==
  ASSUME TypeInv, NEW c \in Callers, RescanRepair(c)
  PROVE  TypeInv'
<1> DEFINE last == Max(RescanHits(c))
<1>1. RescanHits(c) \subseteq Days /\ After(bars, last) \subseteq Days
  BY DEF RescanHits, Rescaled, Banked, After
<1>2. last \in Days
  BY <1>1, DaysFinite, MaxOfFinite DEF RescanRepair
<1>3. CASE After(bars, last) = {}
  BY <1>2, <1>3, RefetchTyped DEF RescanSeam, RescanRepair
<1>4. CASE After(bars, last) # {}
  <2>1. RescanSeam(c) = Min(After(bars, last))
    BY <1>4 DEF RescanSeam
  <2>2. RescanSeam(c) \in Days
    BY <1>1, <1>4, <2>1, DaysFinite, MinOfFinite
  <2> QED BY <2>2, RefetchTyped DEF RescanRepair
<1> QED BY <1>3, <1>4

LEMMA BankTyped ==
  ASSUME TypeInv, NEW c \in Callers, Bank(c)
  PROVE  TypeInv'
<1> DEFINE suspects == Newest(ResolveMax,
             Suspects(bars, rulings, job[c].rows, job[c].src, Today))
           todo == {[day |-> d, by |-> job[c].src] : d \in suspects}
           pc == IF suspects = {} THEN "stamping" ELSE "resolving"
           j == [job[c] EXCEPT !.pc = pc, !.todo = todo]
<1>1. job[c] \in Job /\ job[c].rows \in Rows /\ job[c].src \in Sources
  BY DEF TypeInv, TypeOK, JobOK, Bank, Job
<1>2. Upsert(bars, rulings, job[c].rows, job[c].src, Today) \in Bars
  BY <1>1, UpsertTyped DEF TypeInv, TypeOK
<1>3. todo \in SUBSET Pending
  <2>1. suspects \subseteq Days
    BY DEF Newest, Suspects, Kept
  <2>2. \A d \in Days : [day |-> d, by |-> job[c].src] \in Pending
    BY <1>1 DEF Pending
  <2> HIDE DEF suspects
  <2> QED BY <2>1, <2>2
<1>4. j \in Job /\ j.pc \in {"stamping", "resolving"}
  <2> HIDE DEF todo, suspects
  <2> QED BY <1>1, <1>3 DEF Job, PCs
<1>5. JobOK(j)
  BY <1>4 DEF JobOK
<1>6. job' = [job EXCEPT ![c] = j]
  BY DEF Bank
<1>7. job' \in [Callers -> Job] /\ \A o \in Callers : JobOK(job'[o])
  <2> HIDE DEF j
  <2> QED BY <1>5, <1>6, JobsStayTyped
<1>8. bars' \in Bars /\ UNCHANGED <<feedVars, meta, rulings, ledger>>
  BY <1>2 DEF Bank
<1> QED BY <1>7, <1>8 DEF TypeInv, TypeOK, feedVars

LEMMA PickSuspectTyped ==
  ASSUME TypeInv, NEW c \in Callers, PickSuspect(c)
  PROVE  TypeInv'
<1>1. PICK p \in job[c].todo :
        job' = [job EXCEPT ![c] = [@ EXCEPT
            !.pc = "asking", !.todo = job[c].todo \ {p},
            !.case = [day |-> p.day, by |-> p.by, alt |-> None, against |-> None,
                      thin |-> bars[p.day] # None /\ bars[p.day].thin]]]
  BY DEF PickSuspect
<1> DEFINE case == [day |-> p.day, by |-> p.by, alt |-> None, against |-> None,
                    thin |-> bars[p.day] # None /\ bars[p.day].thin]
           j == [job[c] EXCEPT !.pc = "asking", !.todo = job[c].todo \ {p}, !.case = case]
<1>2. job[c] \in Job /\ p \in Pending
  BY DEF TypeInv, TypeOK, Job
<1>3. case \in Case
  <2>1. p.day \in Days /\ p.by \in Sources
    BY <1>2 DEF Pending
  <2>2. (bars[p.day] # None /\ bars[p.day].thin) \in BOOLEAN
    BY <2>1 DEF TypeInv, TypeOK, Bars, Bar
  <2> QED BY <2>1, <2>2 DEF Case
<1>4. j \in Job /\ j.pc = "asking" /\ j.case = case
  <2> HIDE DEF case
  <2> QED BY <1>2, <1>3 DEF Job, PCs
<1>5. JobOK(j)
  <2> HIDE DEF case
  <2> QED BY <1>3, <1>4 DEF JobOK
<1>6. job' = [job EXCEPT ![c] = j]
  BY <1>1
<1>7. job' \in [Callers -> Job] /\ \A o \in Callers : JobOK(job'[o])
  <2> HIDE DEF j
  <2> QED BY <1>5, <1>6, JobsStayTyped
<1>8. UNCHANGED <<feedVars, storeVars>>
  BY DEF PickSuspect
<1> QED BY <1>7, <1>8 DEF TypeInv, TypeOK, feedVars, storeVars

LEMMA SecondOpinionTyped ==
  ASSUME TypeInv, NEW c \in Callers, NEW s \in Sources, SecondOpinion(c, s)
  PROVE  TypeInv'
<1> DEFINE case == [job[c].case EXCEPT !.alt = Served(s, job[c].case.day), !.against = s]
           pc == IF IsFragment(case) THEN "rebanking" ELSE "recording"
           j == [job[c] EXCEPT !.pc = pc, !.case = case]
<1>1. job[c] \in Job /\ job[c].case \in Case /\ job[c].case.day \in Days
  BY DEF TypeInv, TypeOK, JobOK, SecondOpinion, Case
<1>2. Served(s, job[c].case.day) \in Row
  BY <1>1, ServedTyped DEF TypeInv, TypeOK, SecondOpinion
<1>3. case \in Case /\ case.alt \in Row /\ case.against = s
  BY <1>1, <1>2 DEF Case
<1> HIDE DEF case
<1>4. j \in Job /\ j.pc \in {"rebanking", "recording"} /\ j.case = case
  BY <1>1, <1>3 DEF Job, PCs
<1>5. JobOK(j)
  BY <1>3, <1>4 DEF JobOK
<1>6. job' = [job EXCEPT ![c] = j]
  BY DEF SecondOpinion, case
<1>7. job' \in [Callers -> Job] /\ \A o \in Callers : JobOK(job'[o])
  <2> HIDE DEF j
  <2> QED BY <1>5, <1>6, JobsStayTyped
<1>8. UNCHANGED <<feedVars, storeVars>>
  BY DEF SecondOpinion
<1> QED BY <1>7, <1>8 DEF TypeInv, TypeOK, feedVars, storeVars

\* A case that closes leaves a sound job.
LEMMA CloseTyped ==
  ASSUME NEW j \in Job
  PROVE  JobOK(Close(j))
<1> DEFINE pc == IF j.todo # {} THEN "resolving"
                 ELSE IF j.kind = "adjudicate" THEN "idle" ELSE "stamping"
<1>1. AfterCase(j) \in Job /\ AfterCase(j).pc = pc
  <2>1. AfterCase(j) = [j EXCEPT !.case = None, !.pc = pc]
    BY DEF AfterCase
  <2>2. pc \in {"resolving", "idle", "stamping"}
    OBVIOUS
  <2> HIDE DEF pc
  <2> QED BY <2>1, <2>2 DEF Job, PCs
<1>2. JobOK(AfterCase(j))
  BY <1>1 DEF JobOK
<1> QED BY <1>2, NoJobTyped DEF Close

LEMMA PassOverTyped ==
  ASSUME TypeInv, NEW c \in Callers, PassOver(c)
  PROVE  TypeInv'
<1>1. job[c] \in Job /\ job' = [job EXCEPT ![c] = Close(job[c])]
  BY DEF TypeInv, TypeOK, PassOver
<1>2. job' \in [Callers -> Job] /\ \A o \in Callers : JobOK(job'[o])
  BY <1>1, CloseTyped, JobsStayTyped
<1>3. UNCHANGED <<feedVars, storeVars>>
  BY DEF PassOver
<1> QED BY <1>2, <1>3 DEF TypeInv, TypeOK, feedVars, storeVars

LEMMA RebankTyped ==
  ASSUME TypeInv, NEW c \in Callers, Rebank(c)
  PROVE  TypeInv'
<1> DEFINE case == job[c].case
           alt == [NoRows EXCEPT ![case.day] = case.alt]
           j == [job[c] EXCEPT !.pc = "recording"]
<1>1. job[c] \in Job /\ case \in Case /\ case.alt \in Row /\ case.against \in Sources
  BY DEF TypeInv, TypeOK, JobOK, Rebank
<1>2. alt \in Rows
  BY <1>1, NoJobTyped DEF Rows
<1>3. bars' \in Bars
  <2>1. bars' = Upsert(bars, rulings, alt, case.against, Today)
    BY DEF Rebank
  <2> HIDE DEF alt, case
  <2> QED BY <1>1, <1>2, <2>1, UpsertTyped DEF TypeInv, TypeOK
<1>4. j \in Job /\ j.pc = "recording" /\ j.case = case
  BY <1>1 DEF Job, PCs
<1>5. JobOK(j)
  BY <1>1, <1>4 DEF JobOK
<1>6. job' = [job EXCEPT ![c] = j]
  BY DEF Rebank
<1>7. job' \in [Callers -> Job] /\ \A o \in Callers : JobOK(job'[o])
  <2> HIDE DEF j
  <2> QED BY <1>5, <1>6, JobsStayTyped
<1>8. UNCHANGED <<feedVars, meta, rulings, ledger>>
  BY DEF Rebank
<1> QED BY <1>3, <1>7, <1>8 DEF TypeInv, TypeOK, feedVars

LEMMA RecordTyped ==
  ASSUME TypeInv, NEW c \in Callers, Record(c)
  PROVE  TypeInv'
<1> DEFINE case == job[c].case
<1>1. job[c] \in Job /\ case \in Case /\ case.alt \in Row
  BY DEF TypeInv, TypeOK, JobOK, Record
<1>2. [src |-> case.by, frag |-> IsFragment(case)] \in Ruling
  BY <1>1 DEF Case, Row, Ruling, IsFragment
<1>3. rulings' \in Rulings
  BY <1>2 DEF Record, TypeInv, TypeOK, Rulings
<1>4. job' \in [Callers -> Job] /\ \A o \in Callers : JobOK(job'[o])
  BY <1>1, CloseTyped, JobsStayTyped DEF Record
<1>5. UNCHANGED <<feedVars, bars, meta, ledger>>
  BY DEF Record
<1> QED BY <1>3, <1>4, <1>5 DEF TypeInv, TypeOK, feedVars

\* set_meta records integers: a floor is always known by then.
LEMMA StampTyped ==
  ASSUME TypeInv, NEW c \in Callers, Stamp(c)
  PROVE  TypeInv'
<1> DEFINE j == [job[c] EXCEPT !.pc = "ledger"]
<1>1. job[c] \in Job
  BY DEF TypeInv, TypeOK
<1>2. NewFloor(c) \in Int
  BY <1>1 DEF NewFloor, LeastOf, Job, TypeInv, TypeOK, Meta
<1>3. Withheld(c) \in Int \cup {None}
  BY DaysFinite DEF Withheld
<1>4. meta' \in Meta
  BY <1>2, <1>3 DEF Stamp, TypeInv, TypeOK, Meta
<1>5. JobOK(j)
  BY <1>1 DEF JobOK, Job, PCs
<1>6. job' \in [Callers -> Job] /\ \A o \in Callers : JobOK(job'[o])
  <2>1. CASE job[c].repair = {}
    BY <2>1, NoJobTyped, JobsStayTyped DEF Stamp
  <2>2. CASE job[c].repair # {}
    <3>1. job' = [job EXCEPT ![c] = j]
      BY <2>2 DEF Stamp
    <3> HIDE DEF j
    <3> QED BY <1>5, <3>1, JobsStayTyped
  <2> QED BY <2>1, <2>2
<1>7. UNCHANGED <<feedVars, bars, rulings, ledger>>
  BY DEF Stamp
<1> QED BY <1>4, <1>6, <1>7 DEF TypeInv, TypeOK, feedVars

LEMMA MarkRepairedTyped ==
  ASSUME TypeInv, NEW c \in Callers, MarkRepaired(c)
  PROVE  TypeInv'
<1>1. ledger' \in [Days -> Int \cup {None}]
  BY DEF MarkRepaired, TypeInv, TypeOK
<1>2. job' \in [Callers -> Job] /\ \A o \in Callers : JobOK(job'[o])
  BY NoJobTyped, JobsStayTyped DEF MarkRepaired
<1>3. UNCHANGED <<feedVars, bars, meta, rulings>>
  BY DEF MarkRepaired
<1> QED BY <1>1, <1>2, <1>3 DEF TypeInv, TypeOK, feedVars

\* The clock and the feeds.
LEMMA WorldTyped ==
  ASSUME TypeInv, Tick \/ Environment
  PROVE  TypeInv'
<1>1. CASE Tick
  BY <1>1 DEF Tick, storeVars, TypeInv, TypeOK
<1>2. CASE Environment
  <2>1. UNCHANGED <<storeVars, job>>
    BY <1>2 DEF Environment
  <2>2. now' \in Int /\ frag' \in [Sources -> SUBSET Days]
                     /\ adjusted' \in [Sources -> BOOLEAN]
    <3>1. ASSUME NEW s \in Sources, Truncate(s) \/ \E d \in Days : Settle(s, d)
          PROVE  now' \in Int /\ frag' \in [Sources -> SUBSET Days]
                            /\ adjusted' \in [Sources -> BOOLEAN]
      <4>1. FragDays \subseteq Days
        BY FeedAssumption
      <4> QED BY <3>1, <4>1 DEF Truncate, Settle, TypeInv, TypeOK
    <3>2. ASSUME NEW s \in Sources, Adjust(s)
          PROVE  now' \in Int /\ frag' \in [Sources -> SUBSET Days]
                            /\ adjusted' \in [Sources -> BOOLEAN]
      BY <3>2 DEF Adjust, TypeInv, TypeOK
    <3> QED BY <1>2, <3>1, <3>2 DEF Environment, FeedStep
  <2> QED BY <2>1, <2>2 DEF storeVars, TypeInv, TypeOK
<1> QED BY <1>1, <1>2

LEMMA NextTyped == TypeInv /\ [Next]_vars => TypeInv'
<1> SUFFICES ASSUME TypeInv, [Next]_vars PROVE TypeInv'
  OBVIOUS
<1>1. CASE Tick \/ Environment
  BY <1>1, WorldTyped
<1>2. ASSUME NEW c \in Callers,
             GetStep(c) \/ Rescan(c) \/ \E dates \in SUBSET Days : Adjudicate(c, dates)
      PROVE  TypeInv'
  BY <1>2, StartTyped
<1>3. ASSUME NEW c \in Callers, CallStep(c) PROVE TypeInv'
  <2>1. ASSUME NEW s \in Sources, Answer(c, s) \/ SecondOpinion(c, s) PROVE TypeInv'
    BY <2>1, AnswerTyped, SecondOpinionTyped
  <2>2. CASE Unavailable(c) \/ RescanAgrees(c)
    BY <2>2, EndTyped DEF Unavailable, RescanAgrees
  <2>3. CASE RefetchTail(c) \/ RescanRepair(c) \/ Bank(c)
    BY <2>3, RefetchTailTyped, RescanRepairTyped, BankTyped
  <2>4. CASE PickSuspect(c) \/ PassOver(c) \/ Rebank(c) \/ Record(c)
    BY <2>4, PickSuspectTyped, PassOverTyped, RebankTyped, RecordTyped
  <2>5. CASE Stamp(c) \/ MarkRepaired(c)
    BY <2>5, StampTyped, MarkRepairedTyped
  <2> QED BY <1>3, <2>1, <2>2, <2>3, <2>4, <2>5 DEF CallStep
<1>4. ASSUME NEW c \in Callers, Crash(c) PROVE TypeInv'
  BY <1>4, EndTyped DEF Crash
<1>5. CASE UNCHANGED vars
  BY <1>5 DEF vars, feedVars, storeVars, TypeInv, TypeOK
<1> QED BY <1>1, <1>2, <1>3, <1>4, <1>5 DEF Next

\* Whatever the callers, the sources and the clock do, every table holds what its
\* schema says and every job record what its place in the code says.
THEOREM TypeCorrect == Spec => []TypeOK
<1>1. TypeInv => TypeOK
  BY DEF TypeInv
<1> QED BY <1>1, InitTyped, NextTyped, PTL DEF Spec
-----------------------------------------------------------------------------
(***************************************************************************)
(* The rulings, when one caller at a time uses the store.                  *)
(*                                                                         *)
(* That a refused source stays out, and that a ruling stands, are not      *)
(* inductive: when a ruling is recorded, what makes it right was decided   *)
(* at the upsert that called the date suspect, two or three committed      *)
(* steps before, and other dates were ruled on in between.  CaseSound      *)
(* carries it from there to here.                                          *)
(***************************************************************************)

\* The date has a bar and nobody ruled on it.
Unruled(day) == bars[day] # None /\ rulings[day] = None

Resolving(j) == j.pc \in {"resolving", "asking", "rebanking", "recording"}
InCase(j) == j.pc \in {"asking", "rebanking", "recording"}

CaseSound(j) ==
  /\ Resolving(j) => \A p \in j.todo : Unruled(p.day)
  /\ Resolving(j) => \A p, q \in j.todo : p.day = q.day => p = q
  /\ InCase(j) => Unruled(j.case.day) /\ \A p \in j.todo : p.day # j.case.day
  /\ j.pc = "rebanking" => j.case.against # j.case.by /\ IsFragment(j.case)
  /\ j.pc = "recording" /\ IsFragment(j.case) => bars[j.case.day].src # j.case.by

RulingsInv(c) == TypeInv /\ RefusedNotBanked /\ CaseSound(job[c])

\* What every step keeps: no refused source banked, the case sound, and each ruling
\* as it was or dropped.
StepSound(c) ==
  /\ RefusedNotBanked' /\ CaseSound(job[c])'
  /\ \A d \in Days : rulings[d] # None => rulings'[d] \in {rulings[d], None}

-----------------------------------------------------------------------------
\* A job outside the resolution of its suspects has no case to be sound about.
LEMMA NoCaseIsSound ==
  ASSUME NEW c \in Callers, ~Resolving(job[c])'
  PROVE  CaseSound(job[c])'
BY DEF CaseSound, Resolving, InCase

\* A step that leaves the bars and the rulings alone keeps what is said of them.
LEMMA StoreLeftAlone ==
  ASSUME NEW c \in Callers, RefusedNotBanked, UNCHANGED <<bars, rulings>>,
         CaseSound(job[c])'
  PROVE  StepSound(c)
BY DEF RefusedNotBanked, StepSound

\* A step that drops every ruling leaves none to break.
LEMMA RulingsDropped ==
  ASSUME NEW c \in Callers, rulings' = NoRulings, CaseSound(job[c])'
  PROVE  StepSound(c)
BY DEF RefusedNotBanked, StepSound, NoRulings

\* An update of a caller's job is the caller's job afterwards.
LEMMA JobMoved ==
  ASSUME TypeInv, NEW c \in Callers, NEW j, job' = [job EXCEPT ![c] = j]
  PROVE  job'[c] = j
BY DEF TypeInv, TypeOK

\* A call that is asked of the sources, or over, resolves nothing.
LEMMA AskSound ==
  ASSUME TypeInv, NEW c \in Callers, NEW kind, NEW start, NEW from, NEW floor,
         NEW tail, NEW repair, Ask(c, kind, start, from, floor, tail, repair)
  PROVE  CaseSound(job[c])'
<1> DEFINE lo == IF Banked(bars) = {} THEN 0 ELSE Lo(bars)
           j == [NoJob EXCEPT
       !.pc = "asked", !.kind = kind, !.start = start, !.end = Today, !.from = from,
       !.lo = lo, !.floor = floor, !.tail = tail, !.repair = repair, !.began = now]
<1>1. job' = [job EXCEPT ![c] = j]
  BY DEF Ask
<1>2. j.pc = "asked"
  <2> HIDE DEF lo
  <2>1. NoJob \in Job
    BY NoJobTyped DEF JobOK
  <2> QED BY <2>1 DEF Job
<1>3. job'[c] = j
  <2> HIDE DEF j
  <2> QED BY <1>1, JobMoved
<1>4. ~Resolving(job[c])'
  <2> HIDE DEF j
  <2> QED BY <1>2, <1>3 DEF Resolving
<1> QED BY <1>4, NoCaseIsSound

LEMMA EndSound ==
  ASSUME TypeInv, NEW c \in Callers, job' = [job EXCEPT ![c] = NoJob]
  PROVE  CaseSound(job[c])'
<1>1. job'[c] = NoJob /\ NoJob.pc = "idle"
  BY JobMoved DEF NoJob
<1> QED BY <1>1, NoCaseIsSound DEF Resolving
-----------------------------------------------------------------------------
\* The ways in.

LEMMA GetSound ==
  ASSUME NEW c \in Callers, RulingsInv(c), GetStep(c)
  PROVE  StepSound(c)
<1>1. TypeInv /\ RefusedNotBanked
  BY DEF RulingsInv
<1>2. PICK lookback \in Lookbacks :
        \/ ColdFetch(c, lookback) \/ DeeperFetch(c, lookback)
        \/ TopUp(c, lookback)     \/ SeamRepair(c, lookback)
  BY DEF GetStep
<1>3. CaseSound(job[c])'
  BY <1>1, <1>2, AskSound DEF ColdFetch, DeeperFetch, TopUp, SeamRepair
<1>4. CASE SeamRepair(c, lookback)
  BY <1>3, <1>4, RulingsDropped DEF SeamRepair
<1>5. CASE ~SeamRepair(c, lookback)
  <2>1. UNCHANGED <<bars, rulings>>
    BY <1>2, <1>5 DEF ColdFetch, DeeperFetch, TopUp, storeVars
  <2> QED BY <1>1, <1>3, <2>1, StoreLeftAlone
<1> QED BY <1>4, <1>5

LEMMA RescanSound ==
  ASSUME NEW c \in Callers, RulingsInv(c), Rescan(c)
  PROVE  StepSound(c)
<1>1. TypeInv /\ RefusedNotBanked /\ UNCHANGED <<bars, rulings>>
  BY DEF RulingsInv, Rescan, storeVars
<1>2. CaseSound(job[c])'
  BY <1>1, AskSound DEF Rescan
<1> QED BY <1>1, <1>2, StoreLeftAlone

\* adjudicate_ohlcv takes banked dates nobody ruled on, each once.
LEMMA AdjudicateSound ==
  ASSUME NEW c \in Callers, RulingsInv(c), NEW dates \in SUBSET Days,
         Adjudicate(c, dates)
  PROVE  StepSound(c)
<1> DEFINE todo == {[day |-> d, by |-> bars[d].src] : d \in dates}
           j == [NoJob EXCEPT !.pc = "resolving", !.kind = "adjudicate",
                              !.began = now, !.todo = todo]
<1>1. TypeInv /\ RefusedNotBanked /\ UNCHANGED <<bars, rulings>>
  BY DEF RulingsInv, Adjudicate, storeVars
<1>2. job'[c] = j
  <2>1. job' = [job EXCEPT ![c] = j]
    BY DEF Adjudicate
  <2> HIDE DEF j
  <2> QED BY <1>1, <2>1, JobMoved
<1>3. j.pc = "resolving" /\ j.todo = todo
  <2> HIDE DEF todo
  <2>1. NoJob \in Job
    BY NoJobTyped DEF JobOK
  <2> QED BY <2>1 DEF Job
<1>4. \A p \in todo : Unruled(p.day)
  BY DEF Adjudicate, Unruled
<1>5. \A p, q \in todo : p.day = q.day => p = q
  OBVIOUS
<1>6. CaseSound(job[c])'
  <2>1. \A p \in job'[c].todo : Unruled(p.day)'
    <3> HIDE DEF todo, j
    <3> QED BY <1>1, <1>2, <1>3, <1>4 DEF Unruled
  <2>2. \A p, q \in job'[c].todo : p.day = q.day => p = q
    <3> HIDE DEF todo, j
    <3> QED BY <1>2, <1>3, <1>5
  <2>3. job'[c].pc = "resolving"
    <3> HIDE DEF todo, j
    <3> QED BY <1>2, <1>3
  <2> QED BY <2>1, <2>2, <2>3 DEF CaseSound, InCase
<1> QED BY <1>1, <1>6, StoreLeftAlone
-----------------------------------------------------------------------------
\* The request itself.

LEMMA AnswerSound ==
  ASSUME NEW c \in Callers, RulingsInv(c), NEW s \in Sources, Answer(c, s)
  PROVE  StepSound(c)
<1>1. TypeInv /\ RefusedNotBanked /\ UNCHANGED <<bars, rulings>>
  BY DEF RulingsInv, Answer, storeVars
<1>2. PICK rows :
        job' = [job EXCEPT ![c] = [@ EXCEPT !.pc = "answered", !.rows = rows, !.src = s]]
  BY DEF Answer
<1> DEFINE j == [job[c] EXCEPT !.pc = "answered", !.rows = rows, !.src = s]
<1>3. job[c] \in Job /\ j.pc = "answered"
  BY <1>1 DEF TypeInv, TypeOK, Job
<1>4. job'[c] = j
  <2>1. job' = [job EXCEPT ![c] = j]
    BY <1>2
  <2> HIDE DEF j
  <2> QED BY <1>1, <2>1, JobMoved
<1>5. CaseSound(job[c])'
  <2> HIDE DEF j
  <2> QED BY <1>3, <1>4, NoCaseIsSound DEF Resolving
<1> QED BY <1>1, <1>5, StoreLeftAlone

LEMMA RefetchSound ==
  ASSUME NEW c \in Callers, RulingsInv(c), NEW day, Refetch(c, day)
  PROVE  StepSound(c)
<1> DEFINE j == [job[c] EXCEPT !.pc = "asked", !.from = RepairFrom(c), !.repair = {day},
                               !.rows = NoRows, !.src = None]
<1>1. TypeInv
  BY DEF RulingsInv
<1>2. job[c] \in Job /\ j.pc = "asked"
  BY <1>1 DEF TypeInv, TypeOK, Job
<1>3. job'[c] = j
  <2>1. job' = [job EXCEPT ![c] = j]
    BY DEF Refetch
  <2> HIDE DEF j
  <2> QED BY <1>1, <2>1, JobMoved
<1>4. CaseSound(job[c])'
  <2> HIDE DEF j
  <2> QED BY <1>2, <1>3, NoCaseIsSound DEF Resolving
<1>5. rulings' = NoRulings
  BY DEF Refetch
<1> QED BY <1>4, <1>5, RulingsDropped

\* A date whose bar is not the refused source's keeps it so through an upsert.
LEMMA UpsertKeepsOut ==
  ASSUME NEW table \in Bars, NEW ruled, NEW rows \in Rows, NEW s \in Sources,
         NEW today, NEW d \in Days, ruled[d] # None, ruled[d].frag,
         table[d] # None, table[d].src # ruled[d].src
  PROVE  LET after == Upsert(table, ruled, rows, s, today)
         IN  after[d] # None /\ after[d].src # ruled[d].src
<1> DEFINE kept == Kept(table, ruled, rows, s, today)
           after == Upsert(table, ruled, rows, s, today)
<1>1. d \in kept => after[d] # None /\ after[d].src = s
  BY UpsertEffect
<1>2. d \notin kept => after[d] = table[d]
  BY UpsertEffect
<1>3. d \in kept => ruled[d].src # s
  BY DEF Kept, Refused
<1>4. after[d] # None /\ after[d].src # ruled[d].src
  <2> HIDE DEF kept, after
  <2> QED BY <1>1, <1>2, <1>3
<1> QED BY <1>4

\* An upsert banks no refused source, and the suspects it hands back are banked
\* dates nobody ruled on.
LEMMA BankSound ==
  ASSUME NEW c \in Callers, RulingsInv(c), Bank(c)
  PROVE  StepSound(c)
<1> DEFINE rows == job[c].rows
           s == job[c].src
           kept == Kept(bars, rulings, rows, s, Today)
           suspects == Newest(ResolveMax, Suspects(bars, rulings, rows, s, Today))
           todo == {[day |-> d, by |-> s] : d \in suspects}
           pc == IF suspects = {} THEN "stamping" ELSE "resolving"
           j == [job[c] EXCEPT !.pc = pc, !.todo = todo]
<1>1. TypeInv /\ RefusedNotBanked /\ rulings' = rulings
  BY DEF RulingsInv, Bank
<1>2. bars \in Bars /\ job[c] \in Job /\ rows \in Rows /\ s \in Sources
  BY <1>1 DEF TypeInv, TypeOK, JobOK, Bank, Job
<1>3. bars' = Upsert(bars, rulings, rows, s, Today)
  BY DEF Bank
<1>4. \A d \in Days : /\ d \notin kept => bars'[d] = bars[d]
                      /\ d \in kept => bars'[d] # None /\ bars'[d].src = s
  <2> HIDE DEF rows, s
  <2> QED BY <1>2, <1>3, UpsertEffect
<1>5. RefusedNotBanked'
  <2> SUFFICES ASSUME NEW d \in Days, rulings[d] # None, rulings[d].frag
               PROVE  bars'[d] # None /\ bars'[d].src # rulings[d].src
    BY <1>1 DEF RefusedNotBanked
  <2>1. bars[d] # None /\ bars[d].src # rulings[d].src
    BY <1>1 DEF RefusedNotBanked
  <2> HIDE DEF rows, s
  <2> QED BY <1>2, <1>3, <2>1, UpsertKeepsOut
<1>6. \A d \in suspects : d \in Days /\ d \in kept /\ rulings[d] = None
  BY DEF Newest, Suspects, Kept
<1>7. j.pc = pc /\ j.todo = todo
  <2> HIDE DEF todo, pc
  <2> QED BY <1>2 DEF Job
<1>8. job'[c] = j
  <2>1. job' = [job EXCEPT ![c] = j]
    BY DEF Bank
  <2> HIDE DEF j
  <2> QED BY <1>1, <2>1, JobMoved
<1>9. CaseSound(job[c])'
  <2>1. \A p \in todo : Unruled(p.day)'
    <3>1. \A d \in suspects : bars'[d] # None /\ rulings'[d] = None
      <4> HIDE DEF suspects, kept
      <4> QED BY <1>1, <1>4, <1>6
    <3> HIDE DEF suspects
    <3> QED BY <3>1 DEF Unruled
  <2>2. \A p, q \in todo : p.day = q.day => p = q
    <3>1. \A p \in todo : p = [day |-> p.day, by |-> s]
      <4> HIDE DEF suspects, s
      <4> QED OBVIOUS
    <3> HIDE DEF todo, s
    <3> QED BY <3>1
  <2>3. job'[c].todo = todo /\ job'[c].pc \in {"stamping", "resolving"}
    <3> HIDE DEF todo, suspects, j
    <3> QED BY <1>7, <1>8
  <2> HIDE DEF todo
  <2> QED BY <2>1, <2>2, <2>3 DEF CaseSound, InCase
<1> QED BY <1>1, <1>5, <1>9 DEF StepSound
-----------------------------------------------------------------------------
\* The suspects, one by one.

\* The date that is picked leaves the others, each of another date, to wait.
LEMMA PickSuspectSound ==
  ASSUME NEW c \in Callers, RulingsInv(c), PickSuspect(c)
  PROVE  StepSound(c)
<1>1. TypeInv /\ RefusedNotBanked /\ CaseSound(job[c]) /\ UNCHANGED <<bars, rulings>>
  BY DEF RulingsInv, PickSuspect, storeVars
<1>2. PICK p \in job[c].todo :
        job' = [job EXCEPT ![c] = [@ EXCEPT
            !.pc = "asking", !.todo = job[c].todo \ {p},
            !.case = [day |-> p.day, by |-> p.by, alt |-> None, against |-> None,
                      thin |-> bars[p.day] # None /\ bars[p.day].thin]]]
  BY DEF PickSuspect
<1> DEFINE case == [day |-> p.day, by |-> p.by, alt |-> None, against |-> None,
                    thin |-> bars[p.day] # None /\ bars[p.day].thin]
           j == [job[c] EXCEPT !.pc = "asking", !.todo = job[c].todo \ {p}, !.case = case]
<1>3. job[c] \in Job
  BY <1>1 DEF TypeInv, TypeOK
<1>4. j.pc = "asking" /\ j.todo = job[c].todo \ {p} /\ j.case = case
  <2> HIDE DEF case
  <2> QED BY <1>3 DEF Job
<1>5. job'[c] = j
  <2>1. job' = [job EXCEPT ![c] = j]
    BY <1>2
  <2> HIDE DEF j
  <2> QED BY <1>1, <2>1, JobMoved
<1>6. /\ \A q \in job[c].todo : Unruled(q.day)
      /\ \A q, r \in job[c].todo : q.day = r.day => q = r
  BY <1>1 DEF CaseSound, Resolving, PickSuspect
<1>7. case.day = p.day
  OBVIOUS
<1>8. CaseSound(job[c])'
  <2> HIDE DEF j, case
  <2>1. /\ job'[c].pc = "asking" /\ job'[c].todo = job[c].todo \ {p}
        /\ job'[c].case.day = p.day
    BY <1>4, <1>5, <1>7
  <2>2. \A day : Unruled(day) => Unruled(day)'
    BY <1>1 DEF Unruled
  <2> QED BY <1>2, <1>6, <2>1, <2>2 DEF CaseSound
<1> QED BY <1>1, <1>8, StoreLeftAlone

\* The second reading is another source's.
LEMMA SecondOpinionSound ==
  ASSUME NEW c \in Callers, RulingsInv(c), NEW s \in Sources, SecondOpinion(c, s)
  PROVE  StepSound(c)
<1> DEFINE case == [job[c].case EXCEPT !.alt = Served(s, job[c].case.day), !.against = s]
           pc == IF IsFragment(case) THEN "rebanking" ELSE "recording"
           j == [job[c] EXCEPT !.pc = pc, !.case = case]
<1>1. TypeInv /\ RefusedNotBanked /\ CaseSound(job[c]) /\ UNCHANGED <<bars, rulings>>
  BY DEF RulingsInv, SecondOpinion, storeVars
<1>2. job[c] \in Job /\ job[c].pc = "asking" /\ job[c].case \in Case
      /\ s # job[c].case.by
  BY <1>1 DEF TypeInv, TypeOK, JobOK, SecondOpinion
<1>3. case.day = job[c].case.day /\ case.by = job[c].case.by /\ case.against = s
  BY <1>2 DEF Case
<1>4. j.pc = pc /\ j.todo = job[c].todo /\ j.case = case
  <2> HIDE DEF case, pc
  <2> QED BY <1>2 DEF Job
<1>5. job'[c] = j
  <2>1. job' = [job EXCEPT ![c] = j]
    BY DEF SecondOpinion
  <2> HIDE DEF j
  <2> QED BY <1>1, <2>1, JobMoved
<1>6. CaseSound(job[c])'
  <2> HIDE DEF j, case
  <2>1. /\ job'[c].todo = job[c].todo /\ job'[c].case = case
        /\ job'[c].pc = IF IsFragment(case) THEN "rebanking" ELSE "recording"
    BY <1>4, <1>5
  <2>2. \A day : Unruled(day) => Unruled(day)'
    BY <1>1 DEF Unruled
  <2>3. /\ \A q \in job[c].todo : Unruled(q.day) /\ q.day # case.day
        /\ \A q, r \in job[c].todo : q.day = r.day => q = r
        /\ Unruled(case.day)
    BY <1>1, <1>2, <1>3 DEF CaseSound, Resolving, InCase
  <2>4. case.against # case.by
    BY <1>2, <1>3
  <2>5. CASE IsFragment(case)
    BY <2>1, <2>2, <2>3, <2>4, <2>5 DEF CaseSound
  <2>6. CASE ~IsFragment(case)
    BY <2>1, <2>2, <2>3, <2>6 DEF CaseSound
  <2> QED BY <2>5, <2>6
<1> QED BY <1>1, <1>6, StoreLeftAlone

\* A case that closes leaves the suspects that wait as they were.
LEMMA CloseLeavesTodo ==
  ASSUME NEW j \in Job
  PROVE  /\ ~InCase(Close(j))
         /\ Resolving(Close(j)) => Close(j).todo = j.todo
<1> DEFINE pc == IF j.todo # {} THEN "resolving"
                 ELSE IF j.kind = "adjudicate" THEN "idle" ELSE "stamping"
<1>1. AfterCase(j).pc = pc /\ AfterCase(j).todo = j.todo
  <2>1. AfterCase(j) = [j EXCEPT !.case = None, !.pc = pc]
    BY DEF AfterCase
  <2> HIDE DEF pc
  <2> QED BY <2>1 DEF Job
<1>2. pc \in {"resolving", "idle", "stamping"}
  OBVIOUS
<1>3. NoJob.pc = "idle"
  BY DEF NoJob
<1>4. CASE AfterCase(j).pc = "idle"
  <2>1. Close(j) = NoJob
    BY <1>4 DEF Close
  <2> QED BY <1>3, <2>1 DEF InCase, Resolving
<1>5. CASE AfterCase(j).pc # "idle"
  <2>1. Close(j) = AfterCase(j)
    BY <1>5 DEF Close
  <2> HIDE DEF pc
  <2> QED BY <1>1, <1>2, <2>1 DEF InCase, Resolving
<1> QED BY <1>4, <1>5

LEMMA PassOverSound ==
  ASSUME NEW c \in Callers, RulingsInv(c), PassOver(c)
  PROVE  StepSound(c)
<1>1. TypeInv /\ RefusedNotBanked /\ CaseSound(job[c]) /\ UNCHANGED <<bars, rulings>>
  BY DEF RulingsInv, PassOver, storeVars
<1>2. job[c] \in Job /\ job[c].pc = "asking"
  BY <1>1 DEF TypeInv, TypeOK, PassOver
<1>3. job'[c] = Close(job[c])
  BY <1>1, JobMoved DEF PassOver
<1>4. CaseSound(job[c])'
  <2>1. ~InCase(job'[c]) /\ (Resolving(job'[c]) => job'[c].todo = job[c].todo)
    BY <1>2, <1>3, CloseLeavesTodo
  <2>2. \A day : Unruled(day) => Unruled(day)'
    BY <1>1 DEF Unruled
  <2>3. /\ \A q \in job[c].todo : Unruled(q.day)
        /\ \A q, r \in job[c].todo : q.day = r.day => q = r
    BY <1>1, <1>2 DEF CaseSound, Resolving
  <2> QED BY <2>1, <2>2, <2>3 DEF CaseSound, InCase
<1> QED BY <1>1, <1>4, StoreLeftAlone

\* The bar of a fragment is replaced before the ruling is recorded: the other
\* source is not refused, and its row passes the volume test.
LEMMA RebankSound ==
  ASSUME NEW c \in Callers, RulingsInv(c), Rebank(c)
  PROVE  StepSound(c)
<1> DEFINE case == job[c].case
           alt == [NoRows EXCEPT ![case.day] = case.alt]
           kept == Kept(bars, rulings, alt, case.against, Today)
           j == [job[c] EXCEPT !.pc = "recording"]
<1>1. TypeInv /\ RefusedNotBanked /\ CaseSound(job[c]) /\ rulings' = rulings
  BY DEF RulingsInv, Rebank
<1>2. /\ bars \in Bars /\ job[c] \in Job /\ job[c].pc = "rebanking"
      /\ case \in Case /\ case.alt \in Row /\ case.against \in Sources
  BY <1>1 DEF TypeInv, TypeOK, JobOK, Rebank
<1>3. /\ Unruled(case.day) /\ IsFragment(case) /\ case.against # case.by
      /\ \A q \in job[c].todo : Unruled(q.day) /\ q.day # case.day
      /\ \A q, r \in job[c].todo : q.day = r.day => q = r
  BY <1>1, <1>2 DEF CaseSound, Resolving, InCase
<1>4. alt \in Rows /\ case.day \in Days /\ alt[case.day] = case.alt
  BY <1>2, NoJobTyped DEF Rows, Case
<1>5. \A d \in Days \ {case.day} : alt[d] = None
  BY <1>4 DEF NoRows
<1>6. bars' = Upsert(bars, rulings, alt, case.against, Today)
  BY DEF Rebank
<1>7. case.day \in kept
  <2>1. alt[case.day] # None
    BY <1>2, <1>4, FeedAssumption
  <2>2. ~Refused(rulings, case.day, case.against)
    BY <1>3 DEF Refused, Unruled
  <2>3. ~LooksTruncated(bars, alt, case.day)
    BY <1>3, <1>4 DEF LooksTruncated, IsFragment
  <2> HIDE DEF alt, case
  <2> QED BY <1>4, <2>1, <2>2, <2>3 DEF Kept
<1>8. bars'[case.day] # None /\ bars'[case.day].src = case.against
  <2> HIDE DEF alt, case
  <2> QED BY <1>2, <1>4, <1>6, <1>7, UpsertEffect
<1>9. ASSUME NEW d \in Days \ {case.day} PROVE bars'[d] = bars[d]
  <2>1. d \notin kept
    <3> HIDE DEF alt, case
    <3> QED BY <1>5 DEF Kept
  <2> HIDE DEF alt, case
  <2> QED BY <1>2, <1>4, <1>6, <2>1, UpsertEffect
<1>10. RefusedNotBanked'
  <2> HIDE DEF case
  <2> QED BY <1>1, <1>3, <1>9 DEF RefusedNotBanked, Unruled
<1>11. j.pc = "recording" /\ j.todo = job[c].todo /\ j.case = case
  BY <1>2 DEF Job
<1>12. job'[c] = j
  <2>1. job' = [job EXCEPT ![c] = j]
    BY DEF Rebank
  <2> HIDE DEF j
  <2> QED BY <1>1, <2>1, JobMoved
<1>13. CaseSound(job[c])'
  <2>1. /\ job'[c].pc = "recording" /\ job'[c].todo = job[c].todo
        /\ job'[c].case = case
    <3> HIDE DEF j, case
    <3> QED BY <1>11, <1>12
  <2>2. \A q \in job[c].todo : q.day \in Days
    BY <1>2 DEF Job, Pending
  <2>3. \A q \in job[c].todo : Unruled(q.day)'
    <3> HIDE DEF case
    <3> QED BY <1>1, <1>3, <1>9, <2>2 DEF Unruled
  <2>4. rulings[case.day] = None
    BY <1>3 DEF Unruled
  <2> DEFINE day == job'[c].case.day
  <2>5. bars'[day] # None /\ rulings'[day] = None /\ bars'[day].src # job'[c].case.by
    <3> HIDE DEF case
    <3> QED BY <1>1, <1>3, <1>8, <2>1, <2>4
  <2>6. \A q \in job'[c].todo : Unruled(q.day)' /\ q.day # day
    <3> HIDE DEF case
    <3> QED BY <1>3, <2>1, <2>3
  <2>7. \A q, r \in job'[c].todo : q.day = r.day => q = r
    BY <1>3, <2>1
  <2> QED BY <2>1, <2>5, <2>6, <2>7 DEF CaseSound, Unruled
<1> QED BY <1>1, <1>10, <1>13 DEF StepSound

\* A ruling is recorded of a date without one, and a fragment's when its bar is
\* another source's by then.
LEMMA RecordSound ==
  ASSUME NEW c \in Callers, RulingsInv(c), Record(c)
  PROVE  StepSound(c)
<1> DEFINE case == job[c].case
           ruling == [src |-> case.by, frag |-> IsFragment(case)]
<1>1. TypeInv /\ RefusedNotBanked /\ CaseSound(job[c]) /\ bars' = bars
  BY DEF RulingsInv, Record
<1>2. /\ rulings \in Rulings /\ job[c] \in Job /\ job[c].pc = "recording"
      /\ case \in Case
  BY <1>1 DEF TypeInv, TypeOK, JobOK, Record
<1>3. case.day \in Days
  BY <1>2 DEF Case
<1>4. /\ Unruled(case.day)
      /\ IsFragment(case) => bars[case.day].src # case.by
      /\ \A q \in job[c].todo : Unruled(q.day) /\ q.day # case.day
      /\ \A q, r \in job[c].todo : q.day = r.day => q = r
  BY <1>1, <1>2 DEF CaseSound, Resolving, InCase
<1>5. rulings' = [rulings EXCEPT ![case.day] = ruling]
  BY DEF Record
<1>6. /\ rulings'[case.day] = ruling
      /\ \A d \in Days \ {case.day} : rulings'[d] = rulings[d]
  <2> HIDE DEF case, ruling
  <2> QED BY <1>2, <1>3, <1>5 DEF Rulings
<1>7. /\ ruling.src = case.by /\ (ruling.frag => IsFragment(case))
      /\ bars[case.day] # None /\ rulings[case.day] = None
  <2>1. bars[case.day] # None /\ rulings[case.day] = None
    BY <1>4 DEF Unruled
  <2>2. ruling.src = case.by
    OBVIOUS
  <2>3. ruling.frag = IsFragment(case)
    <3> HIDE DEF case
    <3> QED BY Zenon
  <2>4. ruling.frag => IsFragment(case)
    <3> HIDE DEF case, ruling
    <3> QED BY <2>3, Zenon
  <2> HIDE DEF case, ruling
  <2> QED BY <2>1, <2>2, <2>4, Zenon
<1>8. RefusedNotBanked'
  <2> SUFFICES ASSUME NEW d \in Days, rulings'[d] # None, rulings'[d].frag
               PROVE  bars[d] # None /\ bars[d].src # rulings'[d].src
    BY <1>1 DEF RefusedNotBanked
  <2> HIDE DEF case, ruling
  <2>1. CASE d = case.day
    <3>1. rulings'[d] = ruling
      BY <1>6, <2>1
    <3>2. IsFragment(case)
      BY <1>7, <3>1, Zenon
    <3>3. bars[case.day].src # case.by
      BY <1>4, <3>2, Zenon
    <3> QED BY <1>7, <2>1, <3>1, <3>3
  <2>2. CASE d # case.day
    <3>1. rulings'[d] = rulings[d]
      BY <1>6, <2>2
    <3> QED BY <1>1, <3>1 DEF RefusedNotBanked
  <2> QED BY <2>1, <2>2
<1>9. \A d \in Days : rulings[d] # None => rulings'[d] \in {rulings[d], None}
  <2> HIDE DEF case, ruling
  <2> QED BY <1>6, <1>7
<1>10. job'[c] = Close(job[c])
  BY <1>1, JobMoved DEF Record
<1>11. CaseSound(job[c])'
  <2>1. ~InCase(job'[c]) /\ (Resolving(job'[c]) => job'[c].todo = job[c].todo)
    BY <1>2, <1>10, CloseLeavesTodo
  <2>2. \A q \in job[c].todo : q.day \in Days
    BY <1>2 DEF Job, Pending
  <2>3. \A q \in job[c].todo : Unruled(q.day)'
    <3> HIDE DEF case, ruling
    <3> QED BY <1>1, <1>4, <1>6, <2>2 DEF Unruled
  <2> QED BY <1>4, <2>1, <2>3 DEF CaseSound, InCase
<1> QED BY <1>8, <1>9, <1>11 DEF StepSound

LEMMA StampSound ==
  ASSUME NEW c \in Callers, RulingsInv(c), Stamp(c) \/ MarkRepaired(c)
  PROVE  StepSound(c)
<1> DEFINE j == [job[c] EXCEPT !.pc = "ledger"]
<1>1. TypeInv /\ RefusedNotBanked /\ UNCHANGED <<bars, rulings>>
  BY DEF RulingsInv, Stamp, MarkRepaired
<1>2. job[c] \in Job
  BY <1>1 DEF TypeInv, TypeOK
<1>3. CASE job' = [job EXCEPT ![c] = NoJob]
  BY <1>1, <1>3, EndSound, StoreLeftAlone
<1>4. CASE job' = [job EXCEPT ![c] = j]
  <2>1. j.pc = "ledger"
    BY <1>2 DEF Job
  <2>2. job'[c] = j
    <3> HIDE DEF j
    <3> QED BY <1>1, <1>4, JobMoved
  <2>3. ~Resolving(job[c])'
    <3> HIDE DEF j
    <3> QED BY <2>1, <2>2 DEF Resolving
  <2> QED BY <1>1, <2>3, NoCaseIsSound, StoreLeftAlone
<1> QED BY <1>3, <1>4 DEF Stamp, MarkRepaired
-----------------------------------------------------------------------------
\* The clock, the feeds and a step of nothing.
LEMMA WorldSound ==
  ASSUME NEW c \in Callers, RulingsInv(c), Tick \/ Environment \/ UNCHANGED vars
  PROVE  StepSound(c)
<1>1. RefusedNotBanked /\ CaseSound(job[c]) /\ UNCHANGED <<bars, rulings, job>>
  BY DEF RulingsInv, Tick, Environment, vars, storeVars
<1>2. CaseSound(job[c])'
  BY <1>1 DEF CaseSound, Unruled
<1> QED BY <1>1, <1>2, StoreLeftAlone

LEMMA InitSound == \A c \in Callers : Init => RulingsInv(c)
<1> SUFFICES ASSUME NEW c \in Callers, Init PROVE RulingsInv(c)
  OBVIOUS
<1>1. RefusedNotBanked
  BY DEF Init, RefusedNotBanked, NoRulings
<1>2. job[c].pc = "idle"
  BY DEF Init, NoJob
<1>3. CaseSound(job[c])
  BY <1>2 DEF CaseSound, Resolving, InCase
<1> QED BY <1>1, <1>3, InitTyped DEF RulingsInv

LEMMA NextSound ==
  ASSUME NEW c \in Callers, Callers = {c}, RulingsInv(c), [Next]_vars
  PROVE  StepSound(c)
<1>1. CASE Tick \/ Environment \/ UNCHANGED vars
  BY <1>1, WorldSound
<1>2. CASE GetStep(c) \/ Rescan(c) \/ \E dates \in SUBSET Days : Adjudicate(c, dates)
  BY <1>2, GetSound, RescanSound, AdjudicateSound
<1>3. CASE CallStep(c)
  <2>1. ASSUME NEW s \in Sources, Answer(c, s) \/ SecondOpinion(c, s)
        PROVE  StepSound(c)
    BY <2>1, AnswerSound, SecondOpinionSound
  <2>2. CASE Unavailable(c) \/ RescanAgrees(c)
    <3>1. TypeInv /\ RefusedNotBanked /\ UNCHANGED <<bars, rulings>>
      BY <2>2 DEF RulingsInv, Unavailable, RescanAgrees, storeVars
    <3> QED BY <2>2, <3>1, EndSound, StoreLeftAlone DEF Unavailable, RescanAgrees
  <2>3. CASE RefetchTail(c) \/ RescanRepair(c)
    BY <2>3, RefetchSound DEF RefetchTail, RescanRepair
  <2>4. CASE Bank(c) \/ Rebank(c) \/ Record(c)
    BY <2>4, BankSound, RebankSound, RecordSound
  <2>5. CASE PickSuspect(c) \/ PassOver(c) \/ Stamp(c) \/ MarkRepaired(c)
    BY <2>5, PickSuspectSound, PassOverSound, StampSound
  <2> QED BY <1>3, <2>1, <2>2, <2>3, <2>4, <2>5 DEF CallStep
<1>4. CASE Crash(c)
  <2>1. TypeInv /\ RefusedNotBanked /\ UNCHANGED <<bars, rulings>>
    BY <1>4 DEF RulingsInv, Crash, storeVars
  <2> QED BY <1>4, <2>1, EndSound, StoreLeftAlone DEF Crash
<1> QED BY <1>1, <1>2, <1>3, <1>4 DEF Next

\* The inductive invariant of the rulings.
LEMMA RulingsInvariant ==
  ASSUME NEW c \in Callers, Callers = {c}
  PROVE  Spec => []RulingsInv(c)
<1>1. Init => RulingsInv(c)
  BY InitSound
<1>2. RulingsInv(c) /\ [Next]_vars => RulingsInv(c)'
  BY NextSound, NextTyped DEF RulingsInv, StepSound
<1> QED BY <1>1, <1>2, PTL DEF Spec

\* Whatever the feeds truncate, settle and rescale, in whatever order one caller
\* fetches, repairs, adjudicates and dies, a source ruled to have served a fragment
\* is not the source of that date's bar (md_ohlcv_stubs, upsert_ohlcv).
THEOREM RefusedStaysOut ==
  ASSUME NEW c, Callers = {c}
  PROVE  Spec => []RefusedNotBanked
<1>1. RulingsInv(c) => RefusedNotBanked
  BY DEF RulingsInv
<1>2. Spec => []RulingsInv(c)
  BY RulingsInvariant
<1> QED BY <1>1, <1>2, PTL

\* With one caller no ruling is ever overruled: a step drops it or leaves it
\* (record_stub_check, clear_stub_checks).
THEOREM RulingsStand ==
  ASSUME NEW c, Callers = {c}
  PROVE  Spec => RulingStands
<1>1. Spec => []RulingsInv(c)
  BY RulingsInvariant
<1>2. RulingsInv(c) /\ [Next]_vars =>
        [\A d \in Days : rulings[d] # None => rulings'[d] \in {rulings[d], None}]_vars
  BY NextSound DEF StepSound
<1> QED BY <1>1, <1>2, PTL DEF Spec, RulingStands

-----------------------------------------------------------------------------
(***************************************************************************)
(* The daily-bar cache keeps an unbroken series, for any number of callers *)
(* that race, die and repair.                                              *)
(*                                                                         *)
(* NoHoles is not inductive.  What a fetch banks is decided by the store   *)
(* it read when it was asked for, and others have written since; so the    *)
(* invariant says of each call under way that its window still meets the   *)
(* bars there are (Joined), of its answer that it is complete up to the    *)
(* sessions published when the call began (AnswerHolds), and of each floor *)
(* somebody holds that it could be recorded now (Sound).  A hole would     *)
(* open behind a bar of the day in progress that nobody re-reads, so every *)
(* session behind the newest bar is banked whole, or as a fragment the     *)
(* volume test saw (Contiguous).                                           *)
(***************************************************************************)

\* What the series rests on.  No source answers a failure with "no rows"; a call begun
\* before a session's bar is published is over by midnight; nobody asks for today
\* alone, nor for a window in which no session was published yet; and
\* adjudicate_ohlcv is given dates that are over.
Supported ==
  /\ Hollow = {}
  /\ CloseSlot + PublishLag + MaxCallTicks <= SlotsPerDay
  /\ Start <= End
  /\ \A t \in Start .. End : \A lookback \in Lookbacks :
       \E d \in Days : Traded(d) /\ Day(t) - lookback <= d /\ Published(d) <= t
  /\ 0 \notin Lookbacks
  /\ AdjudicateAge # 0

-----------------------------------------------------------------------------
\* The date holds a whole session, or a fragment the volume test saw.
Good(table, d) == table[d] # None /\ (table[d].settled \/ table[d].thin)

\* Every session from the day from up to the day to, that one left out, is good.
Filled(table, from, to) ==
  \A d \in Days : Traded(d) /\ from <= d /\ d < to => Good(table, d)

Contiguous(table) == \A d, e \in Banked(table) : Filled(table, d, e)

\* A floor that may be recorded: no hole between it and the newest bar, and none
\* between it and some bar, should all of them be older.
Sound(table, today, x) ==
  /\ x <= today
  /\ \A e \in Banked(table) : Filled(table, x, e)
  /\ \E e \in Banked(table) : Filled(table, e, x)

StoreSound(table, today) ==
  /\ \A d \in Banked(table) : Traded(d) /\ d <= today
  /\ Contiguous(table)

RulingsPast(table, today, ruled) ==
  \A d \in Days : ruled[d] # None =>
    table[d] # None /\ d < today /\ (ruled[d].frag => Good(table, d))

-----------------------------------------------------------------------------
\* What is known of a call under way.

Fetching(j) == j.pc # "idle" /\ j.kind # "adjudicate"
Requested(j) == j.pc \in {"asked", "answered"}
Probe(j) == j.kind = "rescan" /\ j.repair = {}

Timely(j, t) ==
  Fetching(j) => /\ j.began <= t /\ t <= j.began + MaxCallTicks
                 /\ j.end = Day(j.began)

\* The window leaves no gap to the bars there are, whichever were banked since it was
\* chosen, and the answer will have a bar.
Joined(table, j) ==
  /\ \A e \in Banked(table) : Filled(table, e, j.from) /\ Filled(table, j.end, e)
  /\ j.from < j.end \/ \E e \in Banked(table) : j.from <= e /\ e <= j.end
  /\ \/ Banked(table) # {}
     \/ \E d \in Days : /\ Traded(d) /\ j.from <= d /\ d <= j.end
                        /\ Published(d) <= j.began

\* A call whose answer may yet send it back for a repair remembers a bar to reach
\* past.
Asked(table, j) ==
  Requested(j) =>
    /\ j.kind # "adjudicate"
    /\ ~Probe(j) => Joined(table, j)
    /\ j.tail \/ j.kind = "rescan" =>
         j.lo \in Days /\ table[j.lo] # None /\ j.lo <= j.end

\* The answer has every session of the window published when the call began, whole or
\* as a fragment; only the last day's may be of a session in progress.
Complete(j) ==
  \A d \in Days : /\ Traded(d) /\ j.from <= d /\ d <= j.end
                  /\ d < j.end \/ Published(d) <= j.began
                  => j.rows[d] # None
Proper(j) ==
  \A d \in Days : j.rows[d] # None =>
    /\ Traded(d) /\ j.from <= d /\ d <= j.end
    /\ ~j.rows[d].settled /\ ~j.rows[d].thin => d = j.end /\ j.began < Published(d)
AnswerHolds(j) == j.pc = "answered" => Complete(j) /\ Proper(j)

\* Only days that are over are read again, and a fragment is replaced by another
\* one or by a whole session.
CasePast(table, today, j) ==
  /\ Resolving(j) => \A p \in j.todo : table[p.day] # None /\ p.day < today
  /\ InCase(j) => /\ table[j.case.day] # None /\ j.case.day < today
                  /\ j.case.thin => Good(table, j.case.day)
  /\ j.pc = "rebanking" => j.case.alt.settled \/ j.case.alt.thin

\* The floors a call may yet record.
FloorSound(table, today, j) ==
  /\ Fetching(j) /\ j.floor # None => Sound(table, today, j.floor)
  /\ Fetching(j) /\ (Resolving(j) \/ j.pc = "stamping") => Sound(table, today, j.from)
  /\ j.pc = "stamping" => Fetching(j)

JobSound(table, t, j) ==
  /\ Timely(j, t) /\ Asked(table, j) /\ AnswerHolds(j)
  /\ CasePast(table, Day(t), j) /\ FloorSound(table, Day(t), j)

SeriesInv ==
  /\ TypeInv
  /\ Start <= now /\ now <= End
  /\ StoreSound(bars, Today)
  /\ RulingsPast(bars, Today, rulings)
  /\ meta # None => Sound(bars, Today, meta.floor)
  /\ \A c \in Callers : JobSound(bars, now, job[c])

-----------------------------------------------------------------------------
\* The clock.

LEMMA DayBounds ==
  ASSUME NEW t \in Int
  PROVE  /\ Day(t) \in Int
         /\ Day(t) * SlotsPerDay <= t /\ t < Day(t) * SlotsPerDay + SlotsPerDay
BY ClockAssumption DEF Day

LEMMA DaysApart ==
  ASSUME NEW d \in Int, NEW e \in Int, d < e
  PROVE  d * SlotsPerDay + SlotsPerDay <= e * SlotsPerDay
<1> DEFINE S == SlotsPerDay
<1>1. S \in Nat \ {0}
  BY ClockAssumption
<1>2. (e - d - 1) * S >= 0
  BY <1>1
<1>3. (e - d - 1) * S = e * S - d * S - S
  BY <1>1
<1> QED BY <1>1, <1>2, <1>3

LEMMA DayMonotone ==
  ASSUME NEW t \in Int, NEW u \in Int, t <= u
  PROVE  Day(t) <= Day(u)
<1> SUFFICES ASSUME Day(u) < Day(t) PROVE FALSE
  BY DayBounds
<1>1. Day(u) * SlotsPerDay + SlotsPerDay <= Day(t) * SlotsPerDay
  BY DayBounds, DaysApart
<1>2. Day(t) * SlotsPerDay \in Int /\ Day(u) * SlotsPerDay \in Int /\ SlotsPerDay \in Int
  BY DayBounds, ClockAssumption
<1> QED BY <1>1, <1>2, DayBounds

\* A day that is over has been published.
LEMMA PastIsPublished ==
  ASSUME Supported, NEW t \in Int, NEW d \in Int, d < Day(t)
  PROVE  Published(d) <= t
<1>1. d * SlotsPerDay + SlotsPerDay <= Day(t) * SlotsPerDay
  BY DayBounds, DaysApart
<1>2. /\ d * SlotsPerDay \in Int /\ Day(t) * SlotsPerDay \in Int
      /\ SlotsPerDay \in Int /\ CloseSlot \in Int
      /\ PublishLag \in Nat /\ MaxCallTicks \in Nat
  BY DayBounds, ClockAssumption, FeedAssumption, CacheAssumption
<1>3. CloseSlot + PublishLag + MaxCallTicks <= SlotsPerDay
  BY DEF Supported
<1> QED BY <1>1, <1>2, <1>3, DayBounds DEF Published

\* A call is over by the end of the next day, and one that began before the bar of
\* its day was published is over by the end of its own.
LEMMA CallIsShort ==
  ASSUME Supported, NEW b \in Int, NEW t \in Int, b <= t, t <= b + MaxCallTicks
  PROVE  /\ Day(b) <= Day(t) /\ Day(t) <= Day(b) + 1
         /\ b < Published(Day(b)) => Day(t) = Day(b)
<1> DEFINE d == Day(b)
           e == Day(t)
           S == SlotsPerDay
<1>1. /\ d \in Int /\ e \in Int /\ d * S \in Int /\ e * S \in Int /\ S \in Nat
      /\ d * S <= b /\ b < d * S + S /\ e * S <= t
      /\ CloseSlot \in Nat /\ PublishLag \in Nat /\ MaxCallTicks \in Nat
  BY DayBounds, ClockAssumption, FeedAssumption, CacheAssumption
<1>2. CloseSlot + PublishLag + MaxCallTicks <= S
  BY DEF Supported
<1>3. d <= e
  BY DayMonotone
<1>4. e <= d + 1
  <2> SUFFICES ASSUME d + 1 < e PROVE FALSE
    BY <1>1
  <2>1. (d + 1) * S + S <= e * S
    BY <1>1, DaysApart
  <2>2. (d + 1) * S = d * S + S
    BY <1>1
  <2> HIDE DEF d, e, S
  <2> QED BY <1>1, <1>2, <2>1, <2>2
<1>5. ASSUME b < Published(d) PROVE e = d
  <2> SUFFICES ASSUME d < e PROVE FALSE
    BY <1>1, <1>3
  <2>1. d * S + S <= e * S
    BY <1>1, DaysApart
  <2>2. b < d * S + CloseSlot + PublishLag
    BY <1>5 DEF Published
  <2> HIDE DEF d, e, S
  <2> QED BY <1>1, <1>2, <2>1, <2>2
<1> QED BY <1>3, <1>4, <1>5

-----------------------------------------------------------------------------
\* What a write to the table may do, and what survives it.

\* No bar is lost, and none of a day that is over gets worse.
Keeps(old, new, today) ==
  /\ \A d \in Days : old[d] # None => new[d] # None
  /\ \A d \in Days : d < today /\ Good(old, d) => Good(new, d)

LEMMA FilledKept ==
  ASSUME NEW old, NEW new, NEW today \in Int, Keeps(old, new, today),
         NEW from \in Int, NEW to \in Int, to <= today, Filled(old, from, to)
  PROVE  Filled(new, from, to)
BY DaysFinite DEF Keeps, Filled

\* Where no date joins, what was sound stays sound as the days pass.
LEMMA SoundKept ==
  ASSUME NEW old, NEW new, NEW today \in Int, NEW later \in Int, today <= later,
         Keeps(old, new, today), Banked(new) = Banked(old), StoreSound(old, today),
         NEW x \in Int, Sound(old, today, x)
  PROVE  Sound(new, later, x)
<1>1. x <= today /\ x <= later
  BY DEF Sound
<1>2. ASSUME NEW e \in Banked(new) PROVE Filled(new, x, e)
  <2>1. e \in Int /\ e <= today /\ Filled(old, x, e)
    BY <1>2, DaysFinite DEF StoreSound, Sound, Banked
  <2> QED BY <2>1, FilledKept
<1>3. \E e \in Banked(new) : Filled(new, e, x)
  <2>1. PICK e \in Banked(old) : Filled(old, e, x)
    BY DEF Sound
  <2>2. e \in Int
    BY DaysFinite DEF Banked
  <2>3. Filled(new, e, x)
    BY <1>1, <2>1, <2>2, FilledKept
  <2> QED BY <2>1, <2>3
<1> QED BY <1>1, <1>2, <1>3 DEF Sound

LEMMA StoreKept ==
  ASSUME NEW old, NEW new, NEW today \in Int, NEW later \in Int, today <= later,
         Keeps(old, new, today), Banked(new) = Banked(old), StoreSound(old, today)
  PROVE  StoreSound(new, later)
<1>1. \A d \in Banked(new) : d \in Int /\ Traded(d) /\ d <= today /\ d <= later
  BY DaysFinite DEF StoreSound, Banked
<1>2. ASSUME NEW d \in Banked(new), NEW e \in Banked(new) PROVE Filled(new, d, e)
  BY <1>1, FilledKept DEF StoreSound, Contiguous
<1> QED BY <1>1, <1>2 DEF StoreSound, Contiguous

LEMMA RulingsKept ==
  ASSUME NEW old, NEW new, NEW today \in Int, NEW later \in Int, today <= later,
         Keeps(old, new, today), NEW ruled, RulingsPast(old, today, ruled)
  PROVE  RulingsPast(new, later, ruled)
BY DaysFinite DEF RulingsPast, Keeps

\* The window of a call that is not answered yet.
LEMMA JoinedKept ==
  ASSUME NEW old, NEW new, NEW today \in Int,
         Keeps(old, new, today), Banked(new) = Banked(old), StoreSound(old, today),
         NEW j \in Job, j.end <= today, Joined(old, j)
  PROVE  Joined(new, j)
<1>1. j.from \in Int /\ j.end \in Int
  BY DEF Job
<1>2. \A e \in Banked(old) : e \in Int /\ e <= today
  BY DaysFinite DEF StoreSound, Banked
<1>3. j.from <= j.end
  BY <1>1, <1>2 DEF Joined
<1>4. ASSUME NEW e \in Banked(new) PROVE Filled(new, e, j.from) /\ Filled(new, j.end, e)
  <2>1. Filled(old, e, j.from) /\ Filled(old, j.end, e)
    BY DEF Joined
  <2>2. j.from <= today
    BY <1>1, <1>3
  <2> QED BY <1>1, <1>2, <2>1, <2>2, FilledKept
<1> QED BY <1>4 DEF Joined

\* A fetch that is banked leaves the series unbroken.
LEMMA WidenedStore ==
  ASSUME NEW old, NEW new, NEW today \in Int, NEW from \in Int, NEW end \in Int,
         end <= today, Keeps(old, new, today), StoreSound(old, today),
         \A e \in Banked(new) : Traded(e) /\ (e \in Banked(old) \/ (from <= e /\ e <= end)),
         \A e \in Banked(old) : Filled(old, e, from) /\ Filled(old, end, e),
         from < end \/ \E e \in Banked(old) : from <= e /\ e <= end,
         Filled(new, from, end)
  PROVE  StoreSound(new, today)
<1>1. \A e \in Banked(new) : e \in Days /\ e \in Int /\ e <= today
  BY DaysFinite DEF StoreSound, Banked
<1>2. ASSUME NEW e \in Banked(new), NEW f \in Banked(new),
             NEW d \in Days, Traded(d), e <= d, d < f
      PROVE  Good(new, d)
  <2>1. d \in Int /\ d < today
    BY <1>1, <1>2, DaysFinite
  <2>2. CASE from <= d /\ d < end
    BY <1>2, <2>2 DEF Filled
  <2>3. CASE d < from
    <3>1. e \in Banked(old)
      BY <1>1, <1>2, <2>1, <2>3
    <3>2. Good(old, d)
      BY <1>2, <2>3, <3>1 DEF Filled
    <3> QED BY <2>1, <3>2 DEF Keeps
  <2>4. CASE end <= d
    <3>1. f \in Banked(old)
      BY <1>1, <1>2, <2>1, <2>4
    <3>2. Good(old, d)
      BY <1>2, <2>4, <3>1 DEF Filled
    <3> QED BY <2>1, <3>2 DEF Keeps
  <2> QED BY <2>1, <2>2, <2>3, <2>4
<1> QED BY <1>1, <1>2 DEF StoreSound, Contiguous, Filled

\* ... every floor as sound as it was ...
LEMMA WidenedSound ==
  ASSUME NEW old, NEW new, NEW today \in Int, NEW from \in Int, NEW end \in Int,
         end <= today, Keeps(old, new, today), StoreSound(old, today),
         \A e \in Banked(new) : e \in Banked(old) \/ (from <= e /\ e <= end),
         \A e \in Banked(old) : Filled(old, e, from) /\ Filled(old, end, e),
         Filled(new, from, end),
         NEW x \in Int, Sound(old, today, x)
  PROVE  Sound(new, today, x)
<1>1. x <= today /\ \A e \in Banked(old) : Filled(old, x, e)
  BY DEF Sound
<1>2. PICK b \in Banked(old) : Filled(old, b, x)
  BY DEF Sound
<1>3. /\ b \in Days /\ b \in Int /\ b \in Banked(new)
      /\ \A e \in Banked(new) : e \in Days /\ e \in Int /\ e <= today
  BY DaysFinite DEF StoreSound, Banked, Keeps
<1>4. Filled(new, b, x)
  BY <1>1, <1>2, <1>3, FilledKept
<1>5. ASSUME NEW f \in Banked(new), NEW d \in Days, Traded(d), x <= d, d < f
      PROVE  Good(new, d)
  <2>1. d \in Int /\ d < today
    BY <1>3, <1>5, DaysFinite
  <2>2. CASE f \in Banked(old)
    <3>1. Good(old, d)
      BY <1>1, <1>5, <2>2 DEF Filled
    <3> QED BY <2>1, <3>1 DEF Keeps
  <2>3. CASE f \notin Banked(old) /\ from <= d
    BY <1>3, <1>5, <2>1, <2>3 DEF Filled
  <2>4. CASE d < from /\ b <= d
    <3>1. Good(old, d)
      BY <1>5, <2>4 DEF Filled
    <3> QED BY <2>1, <3>1 DEF Keeps
  <2>5. CASE d < b
    <3>1. Good(old, d)
      BY <1>1, <1>5, <2>5 DEF Filled
    <3> QED BY <2>1, <3>1 DEF Keeps
  <2> QED BY <1>3, <2>1, <2>2, <2>3, <2>4, <2>5
<1>6. \A f \in Banked(new) : Filled(new, x, f)
  BY <1>5 DEF Filled
<1> QED BY <1>1, <1>3, <1>4, <1>6 DEF Sound

\* ... and the window of another call still joined to the bars: the two were chosen
\* on the same day or on consecutive ones.
LEMMA WidenedJoined ==
  ASSUME NEW old, NEW new, NEW today \in Int, NEW i \in Job, NEW j \in Job,
         Keeps(old, new, today), StoreSound(old, today),
         \A e \in Banked(new) : e \in Banked(old) \/ (i.from <= e /\ e <= i.end),
         Filled(new, i.from, i.end), Joined(old, i), Joined(old, j),
         i.end <= today, today <= i.end + 1, j.end <= today, today <= j.end + 1
  PROVE  Joined(new, j)
<1>1. i.from \in Int /\ i.end \in Int /\ j.from \in Int /\ j.end \in Int
  BY DEF Job
<1>2. /\ \A e \in Banked(new) : e \in Days /\ e \in Int
      /\ \A e \in Banked(old) : e \in Banked(new)
  BY DaysFinite DEF Banked, Keeps
<1>3. /\ \A e \in Banked(old) : /\ Filled(old, e, i.from) /\ Filled(old, i.end, e)
                                /\ Filled(old, e, j.from) /\ Filled(old, j.end, e)
      /\ i.from < i.end \/ \E e \in Banked(old) : i.from <= e /\ e <= i.end
      /\ j.from < j.end \/ \E e \in Banked(old) : j.from <= e /\ e <= j.end
  BY DEF Joined
<1>4. i.from <= i.end /\ j.from <= j.end
  BY <1>1, <1>2, <1>3
<1>5. \A d \in Days : d < today /\ Good(old, d) => Good(new, d)
  BY DEF Keeps
<1>6. ASSUME NEW e \in Banked(new), NEW d \in Days, Traded(d), e <= d, d < j.from
      PROVE  Good(new, d)
  <2>1. d \in Int /\ d < today
    BY <1>1, <1>4, <1>6, DaysFinite
  <2>2. CASE e \in Banked(old)
    BY <1>3, <1>5, <1>6, <2>1, <2>2 DEF Filled
  <2>3. CASE e \notin Banked(old) /\ d < i.end
    BY <1>2, <1>1, <1>6, <2>1, <2>3 DEF Filled
  <2>4. CASE e \notin Banked(old) /\ i.end <= d
    <3>1. j.from = j.end
      BY <1>1, <1>4, <1>6, <2>1, <2>4
    <3>2. PICK a \in Banked(old) : a = j.from
      BY <1>1, <1>2, <1>3, <3>1
    <3>3. Good(old, d)
      BY <1>3, <1>6, <2>4, <3>2 DEF Filled
    <3> QED BY <1>5, <2>1, <3>3
  <2> QED BY <1>1, <2>1, <2>2, <2>3, <2>4
<1>7. ASSUME NEW e \in Banked(new), NEW d \in Days, Traded(d), j.end <= d, d < e
      PROVE  Good(new, d)
  <2>1. d \in Int
    BY DaysFinite
  <2>2. CASE e \in Banked(old)
    <3>1. d < today
      BY <1>2, <1>7, <2>1, <2>2 DEF StoreSound
    <3> QED BY <1>3, <1>5, <1>7, <2>2, <3>1 DEF Filled
  <2>3. CASE e \notin Banked(old)
    <3>1. e <= i.end /\ i.from <= e /\ d < i.end /\ d < today
      BY <1>1, <1>2, <1>7, <2>1, <2>3
    <3>2. CASE i.from <= d
      BY <1>7, <3>1, <3>2 DEF Filled
    <3>3. CASE d < i.from
      <4>1. i.from = i.end
        BY <1>1, <1>4, <1>7, <2>1, <3>1, <3>3
      <4>2. PICK a \in Banked(old) : a = i.end
        BY <1>1, <1>2, <1>3, <4>1
      <4>3. Good(old, d)
        BY <1>3, <1>7, <3>1, <4>2 DEF Filled
      <4> QED BY <1>5, <3>1, <4>3
    <3> QED BY <1>1, <2>1, <3>2, <3>3
  <2> QED BY <2>2, <2>3
<1>8. \A e \in Banked(new) : Filled(new, e, j.from) /\ Filled(new, j.end, e)
  BY <1>6, <1>7 DEF Filled
<1>9. j.from < j.end \/ \E e \in Banked(new) : j.from <= e /\ e <= j.end
  BY <1>2, <1>3
<1>10. \/ Banked(new) # {}
       \/ \E d \in Days : /\ Traded(d) /\ j.from <= d /\ d <= j.end
                          /\ Published(d) <= j.began
  BY <1>2 DEF Joined
<1> QED BY <1>8, <1>9, <1>10 DEF Joined

-----------------------------------------------------------------------------
\* What a write to the table leaves of the calls under way.

\* The last day of a call's window, in the course of the call.
LEMMA EndOfCall ==
  ASSUME Supported, NEW t \in Int, NEW j \in Job, Timely(j, t), Fetching(j)
  PROVE  /\ j.end <= Day(t) /\ Day(t) <= j.end + 1
         /\ j.began < Published(j.end) => Day(t) = j.end
BY CallIsShort DEF Timely, Job

LEMMA CaseKept ==
  ASSUME NEW old, NEW new, NEW today \in Int, NEW later \in Int, today <= later,
         Keeps(old, new, today), NEW j \in Job, JobOK(j), CasePast(old, today, j)
  PROVE  CasePast(new, later, j)
<1>1. \A p \in j.todo : p.day \in Days /\ p.day \in Int
  BY DaysFinite DEF Job, Pending
<1>2. InCase(j) => j.case.day \in Days /\ j.case.day \in Int
  BY DaysFinite DEF JobOK, InCase, Case
<1>3. Resolving(j) => \A p \in j.todo : new[p.day] # None /\ p.day < later
  BY <1>1 DEF CasePast, Keeps
<1>4. InCase(j) => /\ new[j.case.day] # None /\ j.case.day < later
                   /\ j.case.thin => Good(new, j.case.day)
  BY <1>2 DEF CasePast, Keeps
<1> QED BY <1>3, <1>4 DEF CasePast

\* A write that adds no date, or none at all, and time.
LEMMA JobKept ==
  ASSUME Supported, NEW old, NEW new, NEW t \in Int, NEW u \in Int, t <= u,
         Keeps(old, new, Day(t)), Banked(new) = Banked(old), StoreSound(old, Day(t)),
         NEW j, JobOK(j), JobSound(old, t, j), Timely(j, u)
  PROVE  JobSound(new, u, j)
<1>1. j \in Job /\ Day(t) \in Int /\ Day(u) \in Int /\ Day(t) <= Day(u)
  BY DayBounds, DayMonotone DEF JobOK
<1>2. CasePast(new, Day(u), j)
  BY <1>1, CaseKept DEF JobSound
<1>3. FloorSound(new, Day(u), j)
  <2>1. j.from \in Int /\ (j.floor # None => j.floor \in Int)
    BY <1>1 DEF Job
  <2>2. \A x \in Int : Sound(old, Day(t), x) => Sound(new, Day(u), x)
    BY <1>1, SoundKept
  <2> QED BY <2>1, <2>2 DEF JobSound, FloorSound
<1>4. Asked(new, j)
  <2> SUFFICES ASSUME Requested(j) PROVE Asked(new, j)
    BY DEF Asked
  <2>1. Asked(old, j) /\ j.kind # "adjudicate" /\ j.end <= Day(t)
    <3>1. Asked(old, j) /\ j.kind # "adjudicate" /\ Timely(j, t)
      BY DEF JobSound, Asked
    <3>2. Fetching(j)
      BY <3>1 DEF Requested, Fetching
    <3> QED BY <1>1, <3>1, <3>2, EndOfCall
  <2>2. Joined(old, j) => Joined(new, j)
    BY <1>1, <2>1, JoinedKept
  <2> QED BY <2>1, <2>2 DEF Asked, Keeps
<1> QED BY <1>2, <1>3, <1>4 DEF JobSound

\* What the table of a fetch that is banked is to the one before it.
Widens(old, new, today, i) ==
  /\ Keeps(old, new, today)
  /\ \A e \in Banked(new) : Traded(e) /\ (e \in Banked(old) \/ (i.from <= e /\ e <= i.end))
  /\ Filled(new, i.from, i.end)

LEMMA JobWidened ==
  ASSUME Supported, NEW old, NEW new, NEW t \in Int, StoreSound(old, Day(t)),
         NEW i, JobOK(i), Timely(i, t), Fetching(i), Joined(old, i),
         Widens(old, new, Day(t), i),
         NEW j, JobOK(j), JobSound(old, t, j)
  PROVE  JobSound(new, t, j)
<1>1. i \in Job /\ j \in Job /\ Day(t) \in Int /\ Keeps(old, new, Day(t))
  BY DayBounds DEF JobOK, Widens
<1>2. i.end <= Day(t) /\ Day(t) <= i.end + 1 /\ i.from \in Int /\ i.end \in Int
  BY <1>1, EndOfCall DEF Job
<1>3. CasePast(new, Day(t), j)
  BY <1>1, CaseKept DEF JobSound
<1>4. FloorSound(new, Day(t), j)
  <2>1. j.from \in Int /\ (j.floor # None => j.floor \in Int)
    BY <1>1 DEF Job
  <2>2. \A x \in Int : Sound(old, Day(t), x) => Sound(new, Day(t), x)
    BY <1>1, <1>2, WidenedSound DEF Widens, Joined
  <2> QED BY <2>1, <2>2 DEF JobSound, FloorSound
<1>5. Asked(new, j)
  <2> SUFFICES ASSUME Requested(j) PROVE Asked(new, j)
    BY DEF Asked
  <2>1. Asked(old, j) /\ j.kind # "adjudicate" /\ Timely(j, t)
    BY DEF JobSound, Asked
  <2>2. j.end <= Day(t) /\ Day(t) <= j.end + 1
    <3>1. Fetching(j)
      BY <2>1 DEF Requested, Fetching
    <3> QED BY <1>1, <2>1, <3>1, EndOfCall
  <2>3. Joined(old, j) => Joined(new, j)
    BY <1>1, <1>2, <2>2, WidenedJoined DEF Widens
  <2> QED BY <1>1, <2>1, <2>3 DEF Asked, Keeps
<1> QED BY <1>3, <1>4, <1>5 DEF JobSound
-----------------------------------------------------------------------------
\* The two shapes a caller's step has: it writes the bars, or leaves them.

LEMMA OneMoves ==
  ASSUME SeriesInv, TypeInv', now' = now,
         NEW c \in Callers, NEW j, job' = [job EXCEPT ![c] = j],
         JobSound(bars', now, j),
         \A o \in Callers \ {c} : JobSound(bars', now, job[o]),
         StoreSound(bars', Today), RulingsPast(bars', Today, rulings'),
         meta' # None => Sound(bars', Today, meta'.floor)
  PROVE  SeriesInv'
<1>1. \A o \in Callers : job'[o] = IF o = c THEN j ELSE job[o]
  BY DEF SeriesInv, TypeInv, TypeOK
<1>2. \A o \in Callers : JobSound(bars', now', job'[o])
  BY <1>1
<1>3. Today' = Today
  BY DEF Today
<1>4. Start <= now' /\ now' <= End
  BY DEF SeriesInv
<1> QED BY <1>2, <1>3, <1>4 DEF SeriesInv

LEMMA JobMoves ==
  ASSUME SeriesInv, TypeInv', UNCHANGED <<now, bars>>,
         NEW c \in Callers, NEW j, job' = [job EXCEPT ![c] = j],
         JobSound(bars, now, j),
         rulings' \in {rulings, NoRulings}, meta' = meta
  PROVE  SeriesInv'
<1>1. RulingsPast(bars, Today, rulings')
  BY DEF SeriesInv, RulingsPast, NoRulings
<1>2. bars' = bars
  OBVIOUS
<1>3. \A o \in Callers \ {c} : JobSound(bars', now, job[o])
  BY <1>2 DEF SeriesInv
<1>4. StoreSound(bars', Today) /\ (meta' # None => Sound(bars', Today, meta'.floor))
  BY <1>2 DEF SeriesInv
<1> QED BY <1>1, <1>2, <1>3, <1>4, OneMoves

\* A job record that is over promises nothing.
LEMMA IdleSound ==
  ASSUME NEW j, j.pc = "idle", NEW table, NEW t
  PROVE  JobSound(table, t, j)
BY DEF JobSound, Timely, Fetching, Asked, Requested, AnswerHolds, CasePast, Resolving,
       InCase, FloorSound

LEMMA CallEnds ==
  ASSUME SeriesInv, TypeInv', NEW c \in Callers, job' = [job EXCEPT ![c] = NoJob],
         UNCHANGED <<feedVars, storeVars>>
  PROVE  SeriesInv'
<1>1. JobSound(bars, now, NoJob)
  BY IdleSound DEF NoJob
<1> QED BY <1>1, JobMoves DEF feedVars, storeVars

-----------------------------------------------------------------------------
\* A call is asked of the sources.

LEMMA AskedJob ==
  ASSUME TypeInv, NEW c \in Callers, NEW kind, NEW start, NEW from, NEW floor,
         NEW tail, NEW repair, Ask(c, kind, start, from, floor, tail, repair)
  PROVE  \E j : /\ job' = [job EXCEPT ![c] = j]
                /\ j.pc = "asked" /\ j.kind = kind /\ j.start = start /\ j.end = Today
                /\ j.from = from /\ j.floor = floor /\ j.tail = tail
                /\ j.repair = repair /\ j.began = now
                /\ Banked(bars) # {} => j.lo = Lo(bars)
<1> DEFINE lo == IF Banked(bars) = {} THEN 0 ELSE Lo(bars)
           j == [NoJob EXCEPT
       !.pc = "asked", !.kind = kind, !.start = start, !.end = Today, !.from = from,
       !.lo = lo, !.floor = floor, !.tail = tail, !.repair = repair, !.began = now]
<1>1. job' = [job EXCEPT ![c] = j]
  BY DEF Ask
<1>2. NoJob \in Job
  BY NoJobTyped DEF JobOK
<1>3. /\ j.pc = "asked" /\ j.kind = kind /\ j.start = start /\ j.end = Today
      /\ j.from = from /\ j.floor = floor /\ j.tail = tail
      /\ j.repair = repair /\ j.began = now /\ j.lo = lo
  <2> HIDE DEF lo
  <2> QED BY <1>2 DEF Job
<1> HIDE DEF j
<1> QED BY <1>1, <1>3

\* A window that may be asked for: the bars there are reach it or lie inside it, and
\* it will have an answer.
Meets(from) ==
  /\ \A e \in Banked(bars) : Filled(bars, e, from)
  /\ from < Today \/ \E e \in Banked(bars) : from <= e
  /\ \/ Banked(bars) # {}
     \/ \E d \in Days : Traded(d) /\ from <= d /\ d <= Today /\ Published(d) <= now

LEMMA AskSeries ==
  ASSUME SeriesInv, TypeInv', UNCHANGED <<now, bars>>, NEW c \in Callers,
         NEW kind \in {"get", "rescan"}, NEW start, NEW from, NEW floor, NEW tail,
         NEW repair, Ask(c, kind, start, from, floor, tail, repair),
         floor # None => Sound(bars, Today, floor),
         kind = "get" => Meets(from),
         kind = "rescan" => repair = {},
         tail \/ kind = "rescan" => Banked(bars) # {},
         rulings' \in {rulings, NoRulings}, meta' = meta
  PROVE  SeriesInv'
<1>1. PICK j : /\ job' = [job EXCEPT ![c] = j]
               /\ j.pc = "asked" /\ j.kind = kind /\ j.end = Today
               /\ j.from = from /\ j.floor = floor /\ j.tail = tail
               /\ j.repair = repair /\ j.began = now
               /\ Banked(bars) # {} => j.lo = Lo(bars)
  BY AskedJob DEF SeriesInv
<1>2. /\ now \in Int /\ Today \in Int /\ MaxCallTicks \in Nat
      /\ \A e \in Banked(bars) : e \in Days /\ e \in Int /\ e <= Today
  BY DayBounds, DaysFinite, CacheAssumption
     DEF SeriesInv, TypeInv, TypeOK, Today, StoreSound, Banked
<1>3. Timely(j, now)
  BY <1>1, <1>2 DEF Timely, Today
<1>4. \A e \in Banked(bars) : Filled(bars, Today, e)
  BY <1>2, DaysFinite DEF Filled
<1>5. kind = "get" => Joined(bars, j)
  BY <1>1, <1>2, <1>4 DEF Meets, Joined
<1>6. tail \/ kind = "rescan" => j.lo \in Days /\ bars[j.lo] # None /\ j.lo <= j.end
  <2> SUFFICES ASSUME tail \/ kind = "rescan"
               PROVE  j.lo \in Days /\ bars[j.lo] # None /\ j.lo <= j.end
    OBVIOUS
  <2>1. Lo(bars) \in Banked(bars)
    <3>1. Banked(bars) \subseteq Days /\ Banked(bars) # {}
      BY DEF Banked
    <3> QED BY <3>1, DaysFinite, MinOfFinite DEF Lo
  <2> QED BY <1>1, <1>2, <2>1 DEF Banked
<1>7. Asked(bars, j)
  BY <1>1, <1>5, <1>6 DEF Asked, Probe
<1>8. AnswerHolds(j) /\ CasePast(bars, Today, j)
  BY <1>1 DEF AnswerHolds, CasePast, Resolving, InCase
<1>9. FloorSound(bars, Today, j)
  BY <1>1 DEF FloorSound, Resolving
<1>10. JobSound(bars, now, j)
  BY <1>3, <1>7, <1>8, <1>9 DEF JobSound, Today
<1> QED BY <1>1, <1>10, JobMoves

\* The oldest bar bounds them all, and may be recorded as a floor.
LEMMA LoSound ==
  ASSUME SeriesInv, Banked(bars) # {}
  PROVE  /\ Lo(bars) \in Banked(bars) /\ \A e \in Banked(bars) : Lo(bars) <= e
         /\ Sound(bars, Today, Lo(bars))
<1>1. Lo(bars) \in Banked(bars) /\ \A e \in Banked(bars) : Lo(bars) <= e
  <2>1. Banked(bars) \subseteq Days
    BY DEF Banked
  <2> QED BY <2>1, DaysFinite, MinOfFinite DEF Lo
<1> QED BY <1>1 DEF SeriesInv, StoreSound, Contiguous, Sound

LEMMA FloorIsSound ==
  ASSUME SeriesInv, Banked(bars) # {}
  PROVE  Floor \in Int /\ Sound(bars, Today, Floor)
<1>1. Floor \in Int
  BY FloorTyped DEF SeriesInv
<1> QED BY <1>1, LoSound DEF SeriesInv, Floor

\* A window from a bar, or from before all of them.
LEMMA MeetsFromBar ==
  ASSUME SeriesInv, Banked(bars) # {}, NEW from \in Int,
         from \in Banked(bars) \/ from <= Lo(bars)
  PROVE  Meets(from)
<1>1. \A e \in Banked(bars) : e \in Int
  BY DaysFinite DEF Banked
<1>2. Lo(bars) \in Banked(bars) /\ \A e \in Banked(bars) : Lo(bars) <= e
  BY LoSound
<1>3. ASSUME NEW e \in Banked(bars) PROVE Filled(bars, e, from)
  <2>1. CASE from \in Banked(bars)
    BY <2>1 DEF SeriesInv, StoreSound, Contiguous
  <2>2. CASE from <= Lo(bars)
    BY <1>1, <1>2, <2>2, DaysFinite DEF Filled
  <2> QED BY <2>1, <2>2
<1>4. \E e \in Banked(bars) : from <= e
  BY <1>1, <1>2
<1> QED BY <1>3, <1>4 DEF Meets

\* A deeper window, from before the floor.
LEMMA MeetsDeeper ==
  ASSUME SeriesInv, Banked(bars) # {}, NEW from \in Int, from < Floor, from < Today
  PROVE  Meets(from)
<1>1. Floor \in Int /\ Sound(bars, Today, Floor)
  BY FloorIsSound
<1>2. PICK b \in Banked(bars) : Filled(bars, b, Floor)
  BY <1>1 DEF Sound
<1>3. ASSUME NEW e \in Banked(bars), NEW d \in Days, Traded(d), e <= d, d < from
      PROVE  Good(bars, d)
  <2>1. d \in Int /\ b \in Int
    BY DaysFinite DEF Banked
  <2>2. CASE b <= d
    BY <1>1, <1>2, <1>3, <2>1, <2>2 DEF Filled
  <2>3. CASE d < b
    BY <1>3, <2>3 DEF SeriesInv, StoreSound, Contiguous, Filled
  <2> QED BY <2>1, <2>2, <2>3
<1> QED BY <1>3 DEF Meets, Filled

\* The overlap of a top-up starts at a bar.
LEMMA TopUpFromBar ==
  ASSUME TypeInv, Banked(bars) # {}
  PROVE  TopUpFrom \in Banked(bars)
<1>1. Banked(bars) \subseteq Days /\ Before(bars, Hi(bars)) \subseteq Days
  BY DEF Banked, Before
<1>2. Hi(bars) \in Banked(bars)
  BY <1>1, DaysFinite, MaxOfFinite DEF Hi
<1>3. Before(bars, Hi(bars)) # {} => Max(Before(bars, Hi(bars))) \in Before(bars, Hi(bars))
  BY <1>1, DaysFinite, MaxOfFinite
<1> QED BY <1>2, <1>3 DEF TopUpFrom, Before

LEMMA GetSeries ==
  ASSUME Supported, SeriesInv, TypeInv', NEW c \in Callers, GetStep(c)
  PROVE  SeriesInv'
<1> USE DEF storeVars, feedVars
<1>1. TypeInv /\ now \in Int /\ Today \in Int
  BY DayBounds DEF SeriesInv, TypeInv, TypeOK, Today
<1>2. ASSUME NEW lookback \in Lookbacks
      PROVE  Today - lookback \in Int /\ Today - lookback < Today
  BY <1>1, CacheAssumption DEF Supported
<1>3. ASSUME NEW lookback \in Lookbacks, ColdFetch(c, lookback) PROVE SeriesInv'
  <2>1. now \in Start .. End
    BY <1>1, CacheAssumption DEF SeriesInv
  <2>2. PICK d \in Days : Traded(d) /\ Day(now) - lookback <= d /\ Published(d) <= now
    BY <2>1 DEF Supported
  <2>3. d <= Today
    <3>1. d \in Int /\ (Today < d => Today * SlotsPerDay + SlotsPerDay <= d * SlotsPerDay)
      BY <1>1, DaysApart, DaysFinite
    <3>2. /\ now < Today * SlotsPerDay + SlotsPerDay /\ d * SlotsPerDay \in Int
          /\ Today * SlotsPerDay + SlotsPerDay \in Int /\ CloseSlot + PublishLag \in Nat
          /\ d * SlotsPerDay + (CloseSlot + PublishLag) <= now
      BY <1>1, <2>2, <3>1, DayBounds, ClockAssumption, FeedAssumption DEF Today, Published
    <3> QED BY <1>1, <3>1, <3>2
  <2>4. Meets(Today - lookback)
    BY <1>2, <1>3, <2>2, <2>3 DEF ColdFetch, Meets, Today
  <2>5. Ask(c, "get", Today - lookback, Today - lookback, None, FALSE, {})
    BY <1>3 DEF ColdFetch
  <2>6. UNCHANGED <<now, bars>> /\ rulings' = rulings /\ meta' = meta
    BY <1>3 DEF ColdFetch
  <2> QED BY <2>4, <2>5, <2>6, AskSeries
<1>4. ASSUME NEW lookback \in Lookbacks, DeeperFetch(c, lookback) PROVE SeriesInv'
  <2>1. Floor \in Int /\ Sound(bars, Today, Floor)
    BY <1>4, FloorIsSound DEF DeeperFetch
  <2>2. Meets(Today - lookback)
    BY <1>2, <1>4, MeetsDeeper DEF DeeperFetch, Deeper
  <2>3. Ask(c, "get", Today - lookback, Today - lookback, Floor, FALSE, {})
    BY <1>4 DEF DeeperFetch
  <2>4. UNCHANGED <<now, bars>> /\ rulings' = rulings /\ meta' = meta
    BY <1>4 DEF DeeperFetch
  <2> QED BY <2>1, <2>2, <2>3, <2>4, AskSeries
<1>5. ASSUME NEW lookback \in Lookbacks, TopUp(c, lookback) PROVE SeriesInv'
  <2>1. Banked(bars) # {} /\ Sound(bars, Today, Floor)
    BY <1>5, FloorIsSound DEF TopUp
  <2>2. Meets(TopUpFrom)
    <3>1. TopUpFrom \in Banked(bars) /\ TopUpFrom \in Int
      BY <1>1, <2>1, TopUpFromBar, DaysFinite DEF Banked
    <3> QED BY <2>1, <3>1, MeetsFromBar
  <2>3. Ask(c, "get", Today - lookback, TopUpFrom, Floor, TRUE, {})
    BY <1>5 DEF TopUp
  <2>4. UNCHANGED <<now, bars>> /\ rulings' = rulings /\ meta' = meta
    BY <1>5 DEF TopUp
  <2> QED BY <2>1, <2>2, <2>3, <2>4, AskSeries
<1>6. ASSUME NEW lookback \in Lookbacks, SeamRepair(c, lookback) PROVE SeriesInv'
  <2> DEFINE from == LeastOf(Today - lookback, Lo(bars) - Lead)
  <2>1. Banked(bars) # {} /\ Sound(bars, Today, Floor)
    BY <1>6, FloorIsSound DEF SeamRepair
  <2>2. Meets(from)
    <3>1. Lo(bars) \in Int
      BY <2>1, LoSound, DaysFinite DEF Banked
    <3>2. from \in Int /\ from <= Lo(bars)
      BY <1>2, <3>1, CacheAssumption DEF LeastOf
    <3> HIDE DEF from
    <3> QED BY <2>1, <3>2, MeetsFromBar
  <2>3. Ask(c, "get", Today - lookback, from, Floor, Behind, NewSeams)
    BY <1>6 DEF SeamRepair
  <2>4. UNCHANGED <<now, bars>> /\ rulings' = NoRulings /\ meta' = meta
    BY <1>6 DEF SeamRepair
  <2> HIDE DEF from
  <2> QED BY <2>1, <2>2, <2>3, <2>4, AskSeries
<1> QED BY <1>3, <1>4, <1>5, <1>6 DEF GetStep

\* rescan_rescale looks at a window of the bars; nothing is banked of it.
LEMMA RescanSeries ==
  ASSUME SeriesInv, TypeInv', NEW c \in Callers, Rescan(c)
  PROVE  SeriesInv'
<1> DEFINE start == IF Lo(bars) > Today - RescanLookback THEN Lo(bars)
                    ELSE Today - RescanLookback
<1>1. Ask(c, "rescan", start, start, None, FALSE, {}) /\ Banked(bars) # {}
  BY DEF Rescan
<1>2. UNCHANGED <<now, bars>> /\ rulings' = rulings /\ meta' = meta
  BY DEF Rescan, feedVars, storeVars
<1> HIDE DEF start
<1> QED BY <1>1, <1>2, AskSeries

\* adjudicate_ohlcv is given bars of days that are over.
LEMMA AdjudicateSeries ==
  ASSUME Supported, SeriesInv, TypeInv', NEW c \in Callers, NEW dates \in SUBSET Days,
         Adjudicate(c, dates)
  PROVE  SeriesInv'
<1> DEFINE todo == {[day |-> d, by |-> bars[d].src] : d \in dates}
           j == [NoJob EXCEPT !.pc = "resolving", !.kind = "adjudicate",
                              !.began = now, !.todo = todo]
<1>1. job' = [job EXCEPT ![c] = j]
  BY DEF Adjudicate
<1>2. j.pc = "resolving" /\ j.kind = "adjudicate" /\ j.todo = todo
  <2> HIDE DEF todo
  <2>1. NoJob \in Job
    BY NoJobTyped DEF JobOK
  <2> QED BY <2>1 DEF Job
<1>3. \A p \in todo : bars[p.day] # None /\ p.day < Today
  <2>1. Today \in Int
    BY DayBounds DEF SeriesInv, TypeInv, TypeOK, Today
  <2>2. \A d \in dates : bars[d] # None /\ d < Today
    BY <2>1, DaysFinite, CacheAssumption DEF Adjudicate, Supported
  <2> QED BY <2>2
<1>4. JobSound(bars, now, j)
  <2> HIDE DEF j, todo
  <2>1. CasePast(bars, Today, j)
    BY <1>2, <1>3 DEF CasePast, InCase
  <2>2. FloorSound(bars, Today, j) /\ Timely(j, now) /\ Asked(bars, j) /\ AnswerHolds(j)
    BY <1>2 DEF FloorSound, Timely, Fetching, Asked, Requested, AnswerHolds
  <2> QED BY <2>1, <2>2 DEF JobSound, Today
<1>5. UNCHANGED <<now, bars>> /\ rulings' = rulings /\ meta' = meta
  BY DEF Adjudicate, feedVars, storeVars
<1> HIDE DEF j
<1> QED BY <1>1, <1>4, <1>5, JobMoves

-----------------------------------------------------------------------------
\* The answer, and what sends a call back for another.

\* A feed has every session that was published; what it serves of one that was not is
\* a fragment or the session so far.
LEMMA ServedSound ==
  ASSUME TypeInv, NEW s \in Sources, NEW d \in Days
  PROVE  /\ Traded(d) /\ d <= Today /\ Published(d) <= now => Served(s, d) # None
         /\ Served(s, d) # None =>
              /\ Traded(d) /\ d <= Today
              /\ ~Served(s, d).settled /\ ~Served(s, d).thin => now < Published(d)
<1> DEFINE scale == d >= Ex \/ adjusted[s]
           thin == d \in Quiet
           Of(thn, set) == [adj |-> scale, thin |-> thn, settled |-> set]
<1>1. \A a, b \in BOOLEAN : Of(a, b) # None
  <2>1. scale \in BOOLEAN
    OBVIOUS
  <2>2. \A a, b \in BOOLEAN : Of(a, b) \in Row
    <3> HIDE DEF scale
    <3> QED BY <2>1 DEF Row
  <2> QED BY <2>2, FeedAssumption
<1>2. now \in Int /\ Today \in Int /\ d \in Int /\ Published(d) \in Int
  <2>1. now \in Int /\ d \in Int
    BY DaysFinite DEF TypeInv, TypeOK
  <2>2. d * SlotsPerDay \in Int
    BY <2>1, ClockAssumption
  <2> QED BY <2>1, <2>2, DayBounds, ClockAssumption, FeedAssumption DEF Today, Published
<1>3. CASE ~Traded(d) \/ d > Today
  BY <1>2, <1>3 DEF Served
<1>4. CASE Traded(d) /\ d <= Today /\ d \in frag[s]
  <2>1. Served(s, d) = Of(TRUE, FALSE)
    BY <1>2, <1>4 DEF Served
  <2>2. Served(s, d) # None
    BY <1>1, <2>1
  <2>3. Served(s, d).thin
    BY <2>1
  <2> QED BY <1>4, <2>2, <2>3
<1>5. CASE Traded(d) /\ d <= Today /\ d \notin frag[s] /\ now >= Published(d)
  <2>1. Served(s, d) = Of(thin, TRUE)
    BY <1>2, <1>5 DEF Served
  <2>2. Served(s, d) # None
    <3>1. thin \in BOOLEAN
      OBVIOUS
    <3> HIDE DEF thin
    <3> QED BY <1>1, <2>1, <3>1
  <2>3. Served(s, d).settled
    BY <2>1
  <2> QED BY <1>5, <2>2, <2>3
<1>6. CASE Traded(d) /\ d <= Today /\ ~(now >= Published(d))
  BY <1>2, <1>6
<1> QED BY <1>2, <1>3, <1>4, <1>5, <1>6

LEMMA AnswerSeries ==
  ASSUME Supported, SeriesInv, TypeInv', NEW c \in Callers, NEW s \in Sources,
         Answer(c, s)
  PROVE  SeriesInv'
<1> DEFINE rows == ServedRange(s, job[c].from, job[c].end)
           j == [job[c] EXCEPT !.pc = "answered", !.rows = rows, !.src = s]
<1>1. job' = [job EXCEPT ![c] = j]
  BY DEF Answer, Supported
<1>2. job[c] \in Job /\ job[c].pc = "asked" /\ TypeInv /\ JobSound(bars, now, job[c])
  BY DEF SeriesInv, TypeInv, TypeOK, Answer
<1>3. /\ j.pc = "answered" /\ j.rows = rows
      /\ \A f \in {"kind", "end", "from", "lo", "floor", "tail", "repair", "began"} :
           j[f] = job[c][f]
  <2> HIDE DEF rows
  <2> QED BY <1>2 DEF Job
<1>4. /\ j.kind = job[c].kind /\ j.end = job[c].end /\ j.from = job[c].from
      /\ j.lo = job[c].lo /\ j.floor = job[c].floor /\ j.tail = job[c].tail
      /\ j.repair = job[c].repair /\ j.began = job[c].began
  <2> HIDE DEF j
  <2> QED BY <1>3
<1>5. Fetching(job[c]) /\ Timely(job[c], now) /\ Asked(bars, job[c])
  BY <1>2 DEF JobSound, Asked, Requested, Fetching
<1>6. /\ now \in Int /\ Today \in Int /\ j.began \in Int /\ j.end \in Int
      /\ j.began <= now /\ j.end = Day(j.began)
      /\ j.end <= Today /\ (j.began < Published(j.end) => Today = j.end)
      /\ \A d \in Days : d \in Int /\ Published(d) \in Int
  <2>1. now \in Int /\ job[c].began \in Int /\ job[c].end \in Int
    BY <1>2 DEF TypeInv, TypeOK, Job
  <2>2. \A d \in Days : d \in Int /\ Published(d) \in Int
    <3>1. \A d \in Days : d \in Int /\ d * SlotsPerDay \in Int
      BY DaysFinite, ClockAssumption
    <3> QED BY <3>1, ClockAssumption, FeedAssumption DEF Published
  <2>3. Timely(j, now) /\ Fetching(j)
    <3> HIDE DEF j
    <3> QED BY <1>3, <1>4, <1>5 DEF Timely, Fetching
  <2> HIDE DEF j
  <2> QED BY <1>2, <1>4, <1>5, <2>1, <2>2, <2>3, DayBounds, EndOfCall DEF Timely, Today
<1>7. \A d \in Days : /\ j.from <= d /\ d <= j.end => rows[d] = Served(s, d)
                      /\ ~(j.from <= d /\ d <= j.end) => rows[d] = None
  <2> HIDE DEF j
  <2> QED BY <1>4 DEF ServedRange
<1> HIDE DEF j, rows
<1>8. Complete(j)
  <2> SUFFICES ASSUME NEW d \in Days, Traded(d), j.from <= d, d <= j.end,
                      d < j.end \/ Published(d) <= j.began
               PROVE  rows[d] # None
    BY <1>3 DEF Complete
  <2>1. Published(d) <= now
    <3>1. CASE d < j.end
      BY <1>6, <3>1, PastIsPublished DEF Today
    <3>2. CASE Published(d) <= j.began
      BY <1>6, <3>2
    <3> QED BY <3>1, <3>2
  <2> QED BY <1>2, <1>6, <1>7, <2>1, ServedSound
<1>9. Proper(j)
  <2> SUFFICES ASSUME NEW d \in Days, rows[d] # None
               PROVE  /\ Traded(d) /\ j.from <= d /\ d <= j.end
                      /\ ~rows[d].settled /\ ~rows[d].thin =>
                           d = j.end /\ j.began < Published(d)
    BY <1>3 DEF Proper
  <2>1. j.from <= d /\ d <= j.end /\ rows[d] = Served(s, d)
    BY <1>7
  <2>2. /\ Traded(d) /\ d <= Today
        /\ ~rows[d].settled /\ ~rows[d].thin => now < Published(d)
    BY <1>2, <2>1, ServedSound
  <2>3. now < Published(d) => d = j.end /\ j.began < Published(d)
    <3> SUFFICES ASSUME now < Published(d) PROVE d = j.end /\ j.began < Published(d)
      OBVIOUS
    <3>1. j.began < Published(d)
      BY <1>6
    <3>2. ~(d < Day(now))
      BY <1>6, PastIsPublished
    <3> QED BY <1>6, <2>1, <3>1, <3>2 DEF Today
  <2> QED BY <2>1, <2>2, <2>3
<1>10. JobSound(bars, now, j)
  <2>1. Timely(j, now)
    BY <1>3, <1>4, <1>5 DEF Timely, Fetching
  <2>2. Asked(bars, j)
    BY <1>2, <1>3, <1>4, <1>5 DEF Asked, Requested, Probe, Joined
  <2>3. AnswerHolds(j)
    BY <1>8, <1>9 DEF AnswerHolds
  <2>4. CasePast(bars, Today, j)
    BY <1>3 DEF CasePast, Resolving, InCase
  <2>5. FloorSound(bars, Today, j)
    <3>1. FloorSound(bars, Today, job[c])
      BY <1>2 DEF JobSound, Today
    <3> QED BY <1>2, <1>3, <1>4, <1>5, <3>1 DEF FloorSound, Resolving, Fetching
  <2> QED BY <2>1, <2>2, <2>3, <2>4, <2>5 DEF JobSound, Today
<1>11. UNCHANGED <<now, bars>> /\ rulings' = rulings /\ meta' = meta
  BY DEF Answer, feedVars, storeVars
<1> QED BY <1>1, <1>10, <1>11, JobMoves

\* A repair reaches back past a bar it knows, and so past all that were there before
\* it: its window meets the bars whatever was banked meanwhile.
LEMMA RefetchSeries ==
  ASSUME Supported, SeriesInv, TypeInv', NEW c \in Callers, NEW day, Refetch(c, day),
         job[c].pc = "answered", job[c].tail \/ job[c].kind = "rescan"
  PROVE  SeriesInv'
<1> DEFINE j == [job[c] EXCEPT !.pc = "asked", !.from = RepairFrom(c), !.repair = {day},
                               !.rows = NoRows, !.src = None]
<1>1. job' = [job EXCEPT ![c] = j]
  BY DEF Refetch
<1>2. job[c] \in Job /\ TypeInv /\ JobSound(bars, now, job[c])
  BY DEF SeriesInv, TypeInv, TypeOK
<1>3. /\ j.pc = "asked" /\ j.from = RepairFrom(c) /\ j.repair = {day}
      /\ j.kind = job[c].kind /\ j.end = job[c].end /\ j.lo = job[c].lo
      /\ j.floor = job[c].floor /\ j.tail = job[c].tail /\ j.began = job[c].began
  BY <1>2 DEF Job
<1>4. Fetching(job[c]) /\ Timely(job[c], now) /\ Asked(bars, job[c])
  BY <1>2 DEF JobSound, Asked, Requested, Fetching
<1>5. job[c].lo \in Days /\ bars[job[c].lo] # None /\ job[c].lo <= job[c].end
  BY <1>4 DEF Asked, Requested
<1>6. /\ RepairFrom(c) \in Int /\ job[c].lo \in Int /\ job[c].end \in Int
      /\ RepairFrom(c) <= job[c].lo
  BY <1>2, CacheAssumption DEF RepairFrom, LeastOf, Job
<1> HIDE DEF j
<1>7. Joined(bars, j)
  <2>1. job[c].lo \in Banked(bars) /\ Contiguous(bars)
    BY <1>5 DEF Banked, SeriesInv, StoreSound
  <2>2. ASSUME NEW e \in Banked(bars)
        PROVE  Filled(bars, e, RepairFrom(c)) /\ Filled(bars, job[c].end, e)
    <3>1. Filled(bars, e, job[c].lo) /\ Filled(bars, job[c].lo, e)
      BY <2>1 DEF Contiguous
    <3> QED BY <1>5, <1>6, <3>1, DaysFinite DEF Filled
  <2> QED BY <1>3, <1>5, <1>6, <2>1, <2>2 DEF Joined
<1>8. JobSound(bars, now, j)
  <2>1. Timely(j, now)
    BY <1>3, <1>4 DEF Timely, Fetching
  <2>2. Asked(bars, j)
    BY <1>3, <1>4, <1>5, <1>7 DEF Asked, Fetching
  <2>3. AnswerHolds(j) /\ CasePast(bars, Today, j)
    BY <1>3 DEF AnswerHolds, CasePast, Resolving, InCase
  <2>4. FloorSound(bars, Today, j)
    <3>1. FloorSound(bars, Today, job[c])
      BY <1>2 DEF JobSound, Today
    <3> QED BY <1>3, <1>4, <3>1 DEF FloorSound, Resolving, Fetching
  <2> QED BY <2>1, <2>2, <2>3, <2>4 DEF JobSound, Today
<1>9. UNCHANGED <<now, bars>> /\ rulings' = NoRulings /\ meta' = meta
  BY DEF Refetch, feedVars
<1> QED BY <1>1, <1>8, <1>9, JobMoves

-----------------------------------------------------------------------------
\* upsert_ohlcv banks an answer.

\* A date whose incoming bar is kept is as good as that bar.
LEMMA UpsertGood ==
  ASSUME NEW table \in Bars, NEW ruled, NEW rows \in Rows, NEW s \in Sources,
         NEW today, NEW d \in Kept(table, ruled, rows, s, today)
  PROVE  LET after == Upsert(table, ruled, rows, s, today)
         IN  Good(after, d) <=> rows[d].settled \/ rows[d].thin
<1> DEFINE after == Upsert(table, ruled, rows, s, today)
<1>1. d \in Days
  BY DEF Kept
<1>2. after[d] # None
  BY <1>1, UpsertEffect
<1>3. after[d] = [adj |-> rows[d].adj, thin |-> rows[d].thin,
                  settled |-> rows[d].settled, src |-> s]
  BY <1>1 DEF Upsert
<1>4. after[d].thin = rows[d].thin /\ after[d].settled = rows[d].settled
  BY <1>3
<1> HIDE DEF after
<1>5. Good(after, d) <=> rows[d].settled \/ rows[d].thin
  BY <1>2, <1>4, Zenon DEF Good
<1> QED BY <1>5 DEF after

\* An empty table gives the volume test no baseline but the answer's own bars.
LEMMA NoBaseline ==
  ASSUME NEW table, Banked(table) = {}, NEW rows, NEW d \in Days,
         LooksTruncated(table, rows, d)
  PROVE  \E e \in Days : e < d /\ rows[e] # None
<1> SUFFICES ASSUME \A e \in Days : ~(e < d /\ rows[e] # None) PROVE FALSE
  OBVIOUS
<1>1. Newest(BaselineBars, {}) = {} /\ Cardinality({}) = 0
  BY FS_EmptySet DEF Newest
<1>2. {e \in Days : e < d /\ table[e] # None} = {}
  BY DEF Banked
<1>3. {e \in Days : e < d /\ rows[e] # None} = {}
  OBVIOUS
<1>4. MinBaseline \in Nat \ {0}
  BY StoreAssumption
<1> QED BY <1>1, <1>2, <1>3, <1>4 DEF LooksTruncated

LEMMA UpsertWidens ==
  ASSUME NEW old \in Bars, NEW ruled, NEW today \in Int, StoreSound(old, today),
         RulingsPast(old, today, ruled), NEW j \in Job, NEW s \in Sources,
         Complete(j), Proper(j), Joined(old, j), j.end <= today,
         j.began < Published(j.end) => today = j.end
  PROVE  LET new == Upsert(old, ruled, j.rows, s, today)
         IN  Widens(old, new, today, j) /\ Sound(new, today, j.from)
<1> DEFINE new == Upsert(old, ruled, j.rows, s, today)
           kept == Kept(old, ruled, j.rows, s, today)
<1>1. j.rows \in Rows /\ j.from \in Int /\ j.end \in Int /\ \A d \in Days : d \in Int
  BY DaysFinite DEF Job
<1>2. \A d \in Days : /\ d \notin kept => new[d] = old[d]
                      /\ d \in kept => new[d] # None
  BY <1>1, UpsertEffect
<1>3. \A d \in kept : /\ d \in Days /\ j.rows[d] # None
                      /\ Good(new, d) <=> j.rows[d].settled \/ j.rows[d].thin
  <2>1. \A d \in kept : d \in Days /\ j.rows[d] # None
    BY DEF Kept
  <2> QED BY <1>1, <2>1, UpsertGood
<1>4. \A d \in Days : j.rows[d] # None /\ ~Refused(ruled, d, s) /\ d # today => d \in kept
  BY DEF Kept
<1>5. \A d \in Days : j.rows[d] # None /\ d \notin kept /\ ~Refused(ruled, d, s)
                        => d = today /\ LooksTruncated(old, j.rows, d)
  BY Zenon DEF Kept
<1> HIDE DEF new, kept
<1>6. ASSUME NEW d \in kept, d < today PROVE Good(new, d)
  <2>1. d \in Days /\ j.rows[d] # None
    BY <1>3
  <2>2. j.rows[d].settled \/ j.rows[d].thin \/ (d = j.end /\ j.began < Published(d))
    BY <2>1, Zenon DEF Proper
  <2>3. ~(d = j.end /\ j.began < Published(d))
    BY <1>1, <1>6, <2>1
  <2> QED BY <1>3, <2>2, <2>3, Zenon
<1>7. Keeps(old, new, today)
  <2>1. \A d \in Days : old[d] # None => new[d] # None
    BY <1>2
  <2>2. ASSUME NEW d \in Days, d < today, Good(old, d) PROVE Good(new, d)
    <3>1. CASE d \in kept
      BY <1>6, <2>2, <3>1
    <3>2. CASE d \notin kept
      BY <1>2, <2>2, <3>2 DEF Good
    <3> QED BY <3>1, <3>2
  <2> QED BY <2>1, <2>2 DEF Keeps
<1>8. ASSUME NEW e \in Banked(new)
      PROVE  Traded(e) /\ (e \in Banked(old) \/ (j.from <= e /\ e <= j.end))
  <2>1. e \in Days /\ new[e] # None
    BY DEF Banked
  <2>2. CASE e \in kept
    BY <1>3, <2>2 DEF Proper
  <2>3. CASE e \notin kept
    <3>1. e \in Banked(old)
      BY <1>2, <2>1, <2>3 DEF Banked
    <3> QED BY <3>1 DEF StoreSound
  <2> QED BY <2>2, <2>3
<1>9. ASSUME NEW d \in Days, Traded(d), j.from <= d, d < j.end PROVE Good(new, d)
  <2>1. j.rows[d] # None /\ d < today /\ d # today
    BY <1>1, <1>9 DEF Complete
  <2>2. CASE d \in kept
    BY <1>6, <2>1, <2>2
  <2>3. CASE d \notin kept
    <3>1. Refused(ruled, d, s)
      BY <1>4, <2>1, <2>3
    <3>2. Good(old, d)
      BY <3>1 DEF Refused, RulingsPast
    <3> QED BY <1>2, <2>3, <3>2 DEF Good
  <2> QED BY <2>2, <2>3
<1>10. Filled(new, j.from, j.end)
  BY <1>9 DEF Filled
<1>11. \A e \in Banked(old) : e \in Days /\ e \in Int /\ e <= today /\ e \in Banked(new)
  BY <1>1, <1>7 DEF StoreSound, Banked, Keeps
<1>12. j.from <= j.end /\ j.from <= today
  BY <1>1, <1>11 DEF Joined
<1>13. ASSUME NEW e \in Banked(new), NEW d \in Days, Traded(d), j.from <= d, d < e
       PROVE  Good(new, d)
  <2>1. CASE d < j.end
    BY <1>9, <1>13, <2>1
  <2>2. CASE j.end <= d
    <3>1. e \in Banked(old) /\ e <= today
      <4>1. e \in Int
        BY <1>1 DEF Banked
      <4> QED BY <1>1, <1>8, <1>11, <1>13, <2>2, <4>1
    <3>2. Good(old, d) /\ d < today
      <4>1. Filled(old, j.end, e)
        BY <3>1 DEF Joined
      <4> QED BY <1>1, <1>11, <1>13, <2>2, <3>1, <4>1 DEF Filled
    <3> QED BY <1>7, <3>2 DEF Keeps
  <2> QED BY <1>1, <2>1, <2>2
<1>14. \E e \in Banked(new) : Filled(new, e, j.from)
  <2>1. CASE Banked(old) # {}
    <3>1. PICK e \in Banked(old) : Filled(old, e, j.from)
      BY <2>1 DEF Joined
    <3>2. Filled(new, e, j.from)
      BY <1>1, <1>7, <1>11, <1>12, <3>1, FilledKept
    <3> QED BY <1>11, <3>1, <3>2
  <2>2. CASE Banked(old) = {}
    <3>1. PICK d \in Days : /\ Traded(d) /\ j.from <= d /\ d <= j.end
                            /\ Published(d) <= j.began
      BY <2>2 DEF Joined
    <3>2. j.rows[d] # None
      BY <3>1 DEF Complete
    <3>3. \A e \in Days : ~Refused(ruled, e, s)
      BY <2>2 DEF Refused, RulingsPast, Banked
    <3>4. \E e \in Days : e \in kept
      <4>1. CASE d \in kept
        BY <4>1
      <4>2. CASE d \notin kept
        <5>1. d = today /\ LooksTruncated(old, j.rows, d)
          BY <1>5, <3>2, <3>3, <4>2
        <5>2. PICK e \in Days : e < d /\ j.rows[e] # None
          BY <2>2, <5>1, NoBaseline
        <5>3. e # today
          BY <1>1, <5>1, <5>2
        <5> QED BY <1>4, <3>3, <5>2, <5>3
      <4> QED BY <4>1, <4>2
    <3>5. PICK e \in Days : e \in kept
      BY <3>4
    <3>6. e \in Banked(new) /\ j.from <= e
      BY <1>2, <1>3, <3>5 DEF Banked, Proper
    <3>7. Filled(new, e, j.from)
      BY <1>1, <3>6 DEF Filled
    <3> QED BY <3>6, <3>7
  <2> QED BY <2>1, <2>2
<1>15. Widens(old, new, today, j)
  BY <1>7, <1>8, <1>10 DEF Widens
<1>16. Sound(new, today, j.from)
  BY <1>12, <1>13, <1>14 DEF Sound, Filled
<1> QED BY <1>15, <1>16 DEF new

LEMMA BankSeries ==
  ASSUME Supported, SeriesInv, TypeInv', NEW c \in Callers, Bank(c)
  PROVE  SeriesInv'
<1> DEFINE i == job[c]
           suspects == Newest(ResolveMax, Suspects(bars, rulings, i.rows, i.src, Today))
           todo == {[day |-> d, by |-> i.src] : d \in suspects}
           pc == IF suspects = {} THEN "stamping" ELSE "resolving"
           j == [i EXCEPT !.pc = pc, !.todo = todo]
<1>1. /\ i \in Job /\ JobOK(i) /\ i.src \in Sources /\ i.pc = "answered" /\ ~Probe(i)
      /\ bars \in Bars /\ i.rows \in Rows /\ TypeInv /\ JobSound(bars, now, i)
  BY DEF SeriesInv, TypeInv, TypeOK, JobOK, Job, Bank, Probing, Probe
<1>2. bars' = Upsert(bars, rulings, i.rows, i.src, Today) /\ job' = [job EXCEPT ![c] = j]
  BY DEF Bank
<1>3. /\ Timely(i, now) /\ Fetching(i) /\ Joined(bars, i) /\ Complete(i) /\ Proper(i)
      /\ FloorSound(bars, Today, i)
  <2>1. Requested(i)
    BY <1>1 DEF Requested
  <2> HIDE DEF i
  <2> QED BY <1>1, <2>1 DEF JobSound, Asked, AnswerHolds, Fetching, Today
<1>4. /\ now \in Int /\ Today \in Int /\ i.end <= Today /\ i.from \in Int /\ i.end \in Int
      /\ i.began < Published(i.end) => Today = i.end
  <2> HIDE DEF i
  <2>1. now \in Int
    BY <1>1 DEF TypeInv, TypeOK
  <2> QED BY <1>1, <1>3, <2>1, DayBounds, EndOfCall DEF Today, Job
<1>5. StoreSound(bars, Today) /\ RulingsPast(bars, Today, rulings)
  BY DEF SeriesInv
<1>6. Widens(bars, bars', Today, i) /\ Sound(bars', Today, i.from)
  <2> HIDE DEF i
  <2> QED BY <1>1, <1>2, <1>3, <1>4, <1>5, UpsertWidens
<1>7. Keeps(bars, bars', Today)
  BY <1>6 DEF Widens
<1>8. StoreSound(bars', Today)
  <2> HIDE DEF i
  <2> QED BY <1>3, <1>4, <1>5, <1>6, <1>7, WidenedStore DEF Widens, Joined
<1>9. \A x \in Int : Sound(bars, Today, x) => Sound(bars', Today, x)
  <2> HIDE DEF i
  <2> QED BY <1>3, <1>4, <1>5, <1>6, <1>7, WidenedSound DEF Widens, Joined
<1>10. meta' # None => Sound(bars', Today, meta'.floor)
  <2>1. meta' = meta
    BY DEF Bank
  <2>2. meta # None => meta.floor \in Int /\ Sound(bars, Today, meta.floor)
    BY <1>1 DEF TypeInv, TypeOK, Meta, SeriesInv
  <2> QED BY <1>9, <2>1, <2>2
<1>11. RulingsPast(bars', Today, rulings')
  <2>1. rulings' = rulings
    BY DEF Bank
  <2> QED BY <1>4, <1>5, <1>7, <2>1, RulingsKept
<1>12. \A o \in Callers \ {c} : JobSound(bars', now, job[o])
  <2>1. \A o \in Callers : JobOK(job[o]) /\ JobSound(bars, now, job[o])
    BY DEF SeriesInv, TypeInv
  <2> HIDE DEF i
  <2> QED BY <1>1, <1>3, <1>4, <1>5, <1>6, <2>1, JobWidened DEF Today
<1>13. \A d \in suspects : d \in Days /\ bars'[d] # None /\ d < Today
  <2> SUFFICES ASSUME NEW d \in suspects PROVE d \in Days /\ bars'[d] # None /\ d < Today
    OBVIOUS
  <2>1. /\ d \in Kept(bars, rulings, i.rows, i.src, Today) /\ d # Today
        /\ d \in Days /\ i.rows[d] # None
    BY DEF Newest, Suspects, Kept
  <2> HIDE DEF i, suspects
  <2>2. bars'[d] # None
    BY <1>1, <1>2, <2>1, UpsertEffect
  <2>3. d <= i.end
    BY <1>3, <2>1 DEF Proper
  <2> QED BY <1>4, <2>1, <2>2, <2>3, DaysFinite
<1>14. /\ j.pc = pc /\ j.todo = todo /\ j.kind = i.kind /\ j.end = i.end
       /\ j.from = i.from /\ j.floor = i.floor /\ j.began = i.began
  <2> HIDE DEF i, todo, pc
  <2> QED BY <1>1 DEF Job
<1>15. pc \in {"stamping", "resolving"} /\ \A p \in todo : bars'[p.day] # None /\ p.day < Today
  <2> HIDE DEF i, suspects
  <2> QED BY <1>13
<1> HIDE DEF i, j, todo, pc, suspects
<1>16. JobSound(bars', now, j)
  <2>1. Timely(j, now) /\ Fetching(j)
    BY <1>3, <1>14, <1>15 DEF Timely, Fetching
  <2>2. Asked(bars', j) /\ AnswerHolds(j)
    BY <1>14, <1>15 DEF Asked, Requested, AnswerHolds
  <2>3. CasePast(bars', Today, j)
    BY <1>14, <1>15 DEF CasePast, InCase
  <2>4. FloorSound(bars', Today, j)
    <3>1. i.floor # None => i.floor \in Int
      BY <1>1 DEF Job
    <3> QED BY <1>3, <1>6, <1>9, <1>14, <2>1, <3>1 DEF FloorSound
  <2> QED BY <2>1, <2>2, <2>3, <2>4 DEF JobSound, Today
<1>17. now' = now
  BY DEF Bank, feedVars
<1> QED BY <1>2, <1>8, <1>10, <1>11, <1>12, <1>16, <1>17, OneMoves

-----------------------------------------------------------------------------
\* The suspects, one by one.

\* A call that goes on resolving, or is done with it, keeps its window and floor.
LEMMA StillResolving ==
  ASSUME NEW table, NEW t, NEW i, JobSound(table, t, i), Resolving(i),
         NEW j, j.kind = i.kind, j.end = i.end, j.from = i.from, j.floor = i.floor,
         j.began = i.began, Resolving(j) \/ (j.pc = "stamping" /\ j.kind # "adjudicate"),
         CasePast(table, Day(t), j)
  PROVE  JobSound(table, t, j)
<1>1. Timely(i, t) /\ FloorSound(table, Day(t), i)
  BY DEF JobSound
<1>2. /\ j.pc # "asked" /\ j.pc # "answered" /\ j.pc # "idle" /\ i.pc # "idle"
      /\ Fetching(j) <=> Fetching(i)
  BY DEF Resolving, Fetching
<1>3. Timely(j, t) /\ Asked(table, j) /\ AnswerHolds(j)
  BY <1>1, <1>2 DEF Timely, Asked, Requested, AnswerHolds
<1>4. FloorSound(table, Day(t), j)
  BY <1>1, <1>2 DEF FloorSound, Fetching, Resolving
<1> QED BY <1>3, <1>4 DEF JobSound

LEMMA PickSuspectSeries ==
  ASSUME SeriesInv, TypeInv', NEW c \in Callers, PickSuspect(c)
  PROVE  SeriesInv'
<1>1. PICK p \in job[c].todo :
        job' = [job EXCEPT ![c] = [@ EXCEPT
            !.pc = "asking", !.todo = job[c].todo \ {p},
            !.case = [day |-> p.day, by |-> p.by, alt |-> None, against |-> None,
                      thin |-> bars[p.day] # None /\ bars[p.day].thin]]]
  BY DEF PickSuspect
<1> DEFINE thin == bars[p.day] # None /\ bars[p.day].thin
           case == [day |-> p.day, by |-> p.by, alt |-> None, against |-> None,
                    thin |-> thin]
           j == [job[c] EXCEPT !.pc = "asking", !.todo = job[c].todo \ {p}, !.case = case]
<1>2. job[c] \in Job /\ job[c].pc = "resolving" /\ JobSound(bars, now, job[c])
  BY DEF SeriesInv, TypeInv, TypeOK, PickSuspect
<1>3. /\ j.pc = "asking" /\ j.todo = job[c].todo \ {p} /\ j.case = case
      /\ j.kind = job[c].kind /\ j.end = job[c].end /\ j.from = job[c].from
      /\ j.floor = job[c].floor /\ j.began = job[c].began
  <2> HIDE DEF case
  <2> QED BY <1>2 DEF Job
<1>4. \A q \in job[c].todo : bars[q.day] # None /\ q.day < Today
  BY <1>2 DEF JobSound, CasePast, Resolving, Today
<1>5. case.day = p.day /\ (case.thin => Good(bars, p.day))
  <2>1. case.thin = thin
    <3> HIDE DEF thin
    <3> QED OBVIOUS
  <2>2. thin => Good(bars, p.day)
    BY DEF Good
  <2> QED BY <2>1, <2>2
<1>6. job' = [job EXCEPT ![c] = j]
  BY <1>1
<1> HIDE DEF j, case, thin
<1>7. CasePast(bars, Today, j)
  BY <1>1, <1>3, <1>4, <1>5 DEF CasePast
<1>8. JobSound(bars, now, j)
  BY <1>2, <1>3, <1>7, StillResolving DEF Resolving, Today
<1>9. UNCHANGED <<now, bars>> /\ rulings' = rulings /\ meta' = meta
  BY DEF PickSuspect, feedVars, storeVars
<1> QED BY <1>6, <1>8, <1>9, JobMoves

\* The second reading is of a day that is over: a whole session or a fragment.
LEMMA SecondOpinionSeries ==
  ASSUME Supported, SeriesInv, TypeInv', NEW c \in Callers, NEW s \in Sources,
         SecondOpinion(c, s)
  PROVE  SeriesInv'
<1> DEFINE alt == Served(s, job[c].case.day)
           case == [job[c].case EXCEPT !.alt = alt, !.against = s]
           pc == IF IsFragment(case) THEN "rebanking" ELSE "recording"
           j == [job[c] EXCEPT !.pc = pc, !.case = case]
<1>1. /\ job[c] \in Job /\ job[c].pc = "asking" /\ job[c].case \in Case
      /\ JobSound(bars, now, job[c]) /\ TypeInv /\ now \in Int
  BY DEF SeriesInv, TypeInv, TypeOK, JobOK, SecondOpinion
<1>2. job' = [job EXCEPT ![c] = j] /\ alt # None
  BY DEF SecondOpinion
<1>3. case.day = job[c].case.day /\ case.thin = job[c].case.thin /\ case.alt = alt
  <2> HIDE DEF alt
  <2> QED BY <1>1 DEF Case
<1>4. /\ j.pc = pc /\ j.todo = job[c].todo /\ j.case = case
      /\ j.kind = job[c].kind /\ j.end = job[c].end /\ j.from = job[c].from
      /\ j.floor = job[c].floor /\ j.began = job[c].began
  <2> HIDE DEF case, pc
  <2> QED BY <1>1 DEF Job
<1>5. /\ \A q \in job[c].todo : bars[q.day] # None /\ q.day < Today
      /\ bars[job[c].case.day] # None /\ job[c].case.day < Today
      /\ job[c].case.thin => Good(bars, job[c].case.day)
  BY <1>1 DEF JobSound, CasePast, Resolving, InCase, Today
<1>6. alt.settled \/ alt.thin
  <2>1. job[c].case.day \in Days
    BY <1>1 DEF Case
  <2>2. ~alt.settled /\ ~alt.thin => now < Published(job[c].case.day)
    BY <1>1, <1>2, <2>1, ServedSound
  <2>3. Published(job[c].case.day) <= now
    BY <1>1, <1>5, <2>1, DaysFinite, PastIsPublished DEF Today
  <2>4. Published(job[c].case.day) \in Int
    <3>1. job[c].case.day \in Int
      BY <2>1, DaysFinite
    <3>2. job[c].case.day * SlotsPerDay \in Int
      BY <3>1, ClockAssumption
    <3> QED BY <3>2, ClockAssumption, FeedAssumption DEF Published
  <2> HIDE DEF alt
  <2>5. ~(now < Published(job[c].case.day))
    BY <1>1, <2>3, <2>4
  <2> QED BY <2>2, <2>5, Zenon
<1>7. pc \in {"rebanking", "recording"}
  OBVIOUS
<1> HIDE DEF j, case, pc, alt
<1>8. CasePast(bars, Today, j)
  <2>1. \A p \in j.todo : bars[p.day] # None /\ p.day < Today
    BY <1>4, <1>5
  <2>2. bars[j.case.day] # None /\ j.case.day < Today
    BY <1>3, <1>4, <1>5
  <2>3. j.case.thin => Good(bars, j.case.day)
    BY <1>3, <1>4, <1>5, Zenon
  <2>4. j.case.alt.settled \/ j.case.alt.thin
    BY <1>3, <1>4, <1>6, Zenon
  <2> QED BY <2>1, <2>2, <2>3, <2>4, Zenon DEF CasePast
<1>9. JobSound(bars, now, j)
  BY <1>1, <1>4, <1>7, <1>8, StillResolving DEF Resolving, Today
<1>10. UNCHANGED <<now, bars>> /\ rulings' = rulings /\ meta' = meta
  BY DEF SecondOpinion, feedVars, storeVars
<1> QED BY <1>2, <1>9, <1>10, JobMoves

\* A case that closes leaves the call to the next one, or to its stamp.
LEMMA CloseSeries ==
  ASSUME NEW table, NEW t, NEW i \in Job, JobSound(table, t, i), InCase(i)
  PROVE  JobSound(table, t, Close(i))
<1> DEFINE pc == IF i.todo # {} THEN "resolving"
                 ELSE IF i.kind = "adjudicate" THEN "idle" ELSE "stamping"
           j == AfterCase(i)
<1>1. /\ j.pc = pc /\ j.todo = i.todo /\ j.kind = i.kind /\ j.end = i.end
      /\ j.from = i.from /\ j.floor = i.floor /\ j.began = i.began
  <2>1. AfterCase(i) = [i EXCEPT !.case = None, !.pc = pc]
    BY DEF AfterCase
  <2> HIDE DEF pc
  <2> QED BY <2>1 DEF Job
<1>2. CASE pc = "idle"
  <2>1. Close(i) = NoJob
    BY <1>1, <1>2 DEF Close
  <2> QED BY <2>1, IdleSound DEF NoJob
<1>3. CASE pc # "idle"
  <2>1. Close(i) = j
    BY <1>1, <1>3 DEF Close
  <2>2. pc = "resolving" \/ (pc = "stamping" /\ i.kind # "adjudicate")
    BY <1>3
  <2>3. Resolving(i) /\ CasePast(table, Day(t), i)
    BY DEF JobSound, Resolving, InCase
  <2> HIDE DEF j, pc
  <2>4. CasePast(table, Day(t), j)
    BY <1>1, <2>2, <2>3 DEF CasePast, InCase
  <2> QED BY <1>1, <2>1, <2>2, <2>3, <2>4, StillResolving DEF Resolving
<1> QED BY <1>2, <1>3

LEMMA PassOverSeries ==
  ASSUME SeriesInv, TypeInv', NEW c \in Callers, PassOver(c)
  PROVE  SeriesInv'
<1>1. job[c] \in Job /\ job[c].pc = "asking" /\ JobSound(bars, now, job[c])
  BY DEF SeriesInv, TypeInv, TypeOK, PassOver
<1>2. JobSound(bars, now, Close(job[c]))
  BY <1>1, CloseSeries DEF InCase
<1>3. job' = [job EXCEPT ![c] = Close(job[c])]
  BY DEF PassOver
<1>4. UNCHANGED <<now, bars>> /\ rulings' = rulings /\ meta' = meta
  BY DEF PassOver, feedVars, storeVars
<1> QED BY <1>2, <1>3, <1>4, JobMoves

\* The bar a fragment is replaced by is of a day that is over and was banked.
LEMMA RebankSeries ==
  ASSUME Supported, SeriesInv, TypeInv', NEW c \in Callers, Rebank(c)
  PROVE  SeriesInv'
<1> DEFINE i == job[c]
           case == i.case
           alt == [NoRows EXCEPT ![case.day] = case.alt]
           kept == Kept(bars, rulings, alt, case.against, Today)
           j == [i EXCEPT !.pc = "recording"]
<1>1. /\ i \in Job /\ JobOK(i) /\ i.pc = "rebanking" /\ case \in Case
      /\ case.alt \in Row /\ case.against \in Sources
      /\ bars \in Bars /\ now \in Int /\ JobSound(bars, now, i)
  BY DEF SeriesInv, TypeInv, TypeOK, JobOK, Rebank
<1>2. /\ case.day \in Days /\ bars[case.day] # None /\ case.day < Today
      /\ case.alt.settled \/ case.alt.thin
  BY <1>1 DEF JobSound, CasePast, InCase, Case, Today
<1>3. /\ alt \in Rows /\ alt[case.day] = case.alt
      /\ \A d \in Days \ {case.day} : alt[d] = None
  BY <1>1, <1>2, NoJobTyped DEF Rows, NoRows
<1>4. bars' = Upsert(bars, rulings, alt, case.against, Today)
      /\ job' = [job EXCEPT ![c] = j]
  BY DEF Rebank
<1>5. \A d \in Days : d \notin kept => bars'[d] = bars[d]
  <2> HIDE DEF alt, case
  <2> QED BY <1>1, <1>3, <1>4, UpsertEffect
<1>6. \A d \in kept : d = case.day /\ bars'[d] # None /\ Good(bars', d)
  <2> SUFFICES ASSUME NEW d \in kept
               PROVE  d = case.day /\ bars'[d] # None /\ Good(bars', d)
    OBVIOUS
  <2>1. d \in Days /\ alt[d] # None
    <3> HIDE DEF alt, case
    <3> QED BY DEF Kept
  <2>2. d = case.day
    <3> HIDE DEF alt, case
    <3> QED BY <1>3, <2>1
  <2>3. alt[d].settled \/ alt[d].thin
    <3> HIDE DEF alt, case
    <3> QED BY <1>2, <1>3, <2>2, Zenon
  <2>4. Good(bars', d)
    <3> HIDE DEF alt, case
    <3> QED BY <1>1, <1>3, <1>4, <2>3, UpsertGood
  <2> QED BY <2>2, <2>4 DEF Good
<1> HIDE DEF kept, alt
<1>7. Keeps(bars, bars', Today) /\ Banked(bars') = Banked(bars)
  <2>1. \A d \in Days : bars[d] # None <=> bars'[d] # None
    BY <1>2, <1>5, <1>6
  <2>2. ASSUME NEW d \in Days, Good(bars, d) PROVE Good(bars', d)
    <3>1. CASE d \in kept
      BY <1>6, <3>1
    <3>2. CASE d \notin kept
      BY <1>5, <2>2, <3>2 DEF Good
    <3> QED BY <3>1, <3>2
  <2> QED BY <2>1, <2>2 DEF Keeps, Banked
<1>8. /\ Today \in Int /\ now <= now /\ Today <= Today
      /\ StoreSound(bars, Today) /\ RulingsPast(bars, Today, rulings)
  BY <1>1, DayBounds DEF SeriesInv, Today
<1>9. StoreSound(bars', Today) /\ RulingsPast(bars', Today, rulings)
  BY <1>7, <1>8, StoreKept, RulingsKept
<1>10. meta # None => Sound(bars', Today, meta.floor)
  <2>1. meta # None => meta.floor \in Int /\ Sound(bars, Today, meta.floor)
    BY DEF SeriesInv, TypeInv, TypeOK, Meta
  <2> QED BY <1>7, <1>8, <2>1, SoundKept
<1>11. \A o \in Callers : JobSound(bars', now, job[o])
  <2>1. \A o \in Callers : JobOK(job[o]) /\ JobSound(bars, now, job[o])
                           /\ Timely(job[o], now)
    BY DEF SeriesInv, TypeInv, JobSound
  <2> QED BY <1>1, <1>7, <1>8, <2>1, JobKept DEF Today
<1>12. JobSound(bars', now, j)
  <2>1. /\ j.pc = "recording" /\ j.todo = i.todo /\ j.case = i.case
        /\ j.kind = i.kind /\ j.end = i.end /\ j.from = i.from
        /\ j.floor = i.floor /\ j.began = i.began
    <3> HIDE DEF i
    <3> QED BY <1>1 DEF Job
  <2>2. JobSound(bars', now, i)
    BY <1>11
  <2> HIDE DEF i, j
  <2>3. CasePast(bars', Day(now), i)
    BY <2>2 DEF JobSound
  <2>4. CasePast(bars', Day(now), j)
    BY <1>1, <2>1, <2>3 DEF CasePast, Resolving, InCase
  <2>5. Resolving(i) /\ Resolving(j)
    BY <1>1, <2>1 DEF Resolving
  <2> QED BY <2>1, <2>2, <2>4, <2>5, StillResolving
<1>13. now' = now /\ rulings' = rulings /\ meta' = meta
  BY DEF Rebank, feedVars
<1> HIDE DEF j
<1> QED BY <1>4, <1>9, <1>10, <1>11, <1>12, <1>13, OneMoves

\* A ruling is recorded of a day that is over, and of a fragment only when a good
\* bar stands in its place.
LEMMA RecordSeries ==
  ASSUME SeriesInv, TypeInv', NEW c \in Callers, Record(c)
  PROVE  SeriesInv'
<1> DEFINE case == job[c].case
           ruling == [src |-> case.by, frag |-> IsFragment(case)]
<1>1. /\ job[c] \in Job /\ job[c].pc = "recording" /\ case \in Case
      /\ rulings \in Rulings /\ JobSound(bars, now, job[c])
  BY DEF SeriesInv, TypeInv, TypeOK, JobOK, Record
<1>2. /\ case.day \in Days /\ bars[case.day] # None /\ case.day < Today
      /\ case.thin => Good(bars, case.day)
  BY <1>1 DEF JobSound, CasePast, InCase, Case, Today
<1>3. rulings' = [rulings EXCEPT ![case.day] = ruling] /\ bars' = bars
  BY DEF Record
<1>4. ruling.frag => Good(bars, case.day)
  <2>1. ruling.frag = IsFragment(case)
    <3> HIDE DEF case
    <3> QED BY Zenon
  <2>2. IsFragment(case) => case.thin
    BY DEF IsFragment
  <2> HIDE DEF case, ruling
  <2> QED BY <1>2, <2>1, <2>2, Zenon
<1>5. RulingsPast(bars', Today, rulings')
  <2> SUFFICES ASSUME NEW d \in Days, rulings'[d] # None
               PROVE  /\ bars[d] # None /\ d < Today
                      /\ rulings'[d].frag => Good(bars, d)
    BY <1>3 DEF RulingsPast
  <2> HIDE DEF case, ruling
  <2>1. CASE d = case.day
    <3>1. rulings'[d] = ruling
      BY <1>1, <1>3, <2>1 DEF Rulings
    <3>2. rulings'[d].frag => Good(bars, d)
      BY <1>4, <2>1, <3>1, Zenon
    <3> QED BY <1>2, <2>1, <3>2
  <2>2. CASE d # case.day
    <3>1. rulings'[d] = rulings[d]
      BY <1>1, <1>3, <2>2 DEF Rulings
    <3> QED BY <3>1 DEF SeriesInv, RulingsPast
  <2> QED BY <2>1, <2>2
<1>6. JobSound(bars', now, Close(job[c]))
  BY <1>1, <1>3, CloseSeries DEF InCase
<1>7. \A o \in Callers \ {c} : JobSound(bars', now, job[o])
  BY <1>3 DEF SeriesInv
<1>8. StoreSound(bars', Today) /\ (meta' # None => Sound(bars', Today, meta'.floor))
  BY <1>3 DEF SeriesInv, Record
<1>9. now' = now /\ job' = [job EXCEPT ![c] = Close(job[c])]
  BY DEF Record, feedVars
<1> QED BY <1>5, <1>6, <1>7, <1>8, <1>9, OneMoves

-----------------------------------------------------------------------------
\* set_meta and mark_seams_repaired, the clock and the feeds.

\* The floor recorded is that of a window banked, or one recorded or read before.
LEMMA StampSeries ==
  ASSUME SeriesInv, TypeInv', NEW c \in Callers, Stamp(c)
  PROVE  SeriesInv'
<1> DEFINE i == job[c]
           j == [i EXCEPT !.pc = "ledger"]
           k == IF i.repair = {} THEN NoJob ELSE j
<1>1. i \in Job /\ i.pc = "stamping" /\ JobSound(bars, now, i)
  BY DEF SeriesInv, TypeInv, TypeOK, Stamp
<1>2. /\ Fetching(i) /\ Timely(i, now) /\ Sound(bars, Today, i.from)
      /\ i.floor # None => Sound(bars, Today, i.floor)
  BY <1>1 DEF JobSound, FloorSound, Today
<1>3. Sound(bars, Today, NewFloor(c))
  BY <1>2 DEF SeriesInv, NewFloor, LeastOf
<1>4. meta' # None => Sound(bars, Today, meta'.floor)
  <2>1. meta'.floor = NewFloor(c)
    BY DEF Stamp
  <2> QED BY <1>3, <2>1
<1>5. job' = [job EXCEPT ![c] = k]
  BY DEF Stamp
<1>6. JobSound(bars, now, k)
  <2>1. CASE i.repair = {}
    BY <2>1, IdleSound DEF NoJob
  <2>2. CASE i.repair # {}
    <3>1. /\ j.pc = "ledger" /\ j.kind = i.kind /\ j.end = i.end
          /\ j.floor = i.floor /\ j.began = i.began
      <4> HIDE DEF i
      <4> QED BY <1>1 DEF Job
    <3>2. k = j
      BY <2>2
    <3> HIDE DEF i, j, k
    <3>3. Timely(j, now) /\ Asked(bars, j) /\ AnswerHolds(j)
      BY <1>2, <3>1 DEF Timely, Fetching, Asked, Requested, AnswerHolds
    <3>4. CasePast(bars, Today, j) /\ FloorSound(bars, Today, j)
      BY <1>2, <3>1 DEF CasePast, FloorSound, Fetching, Resolving, InCase
    <3> QED BY <3>2, <3>3, <3>4 DEF JobSound, Today
  <2> QED BY <2>1, <2>2
<1>7. bars' = bars /\ rulings' = rulings /\ now' = now
  BY DEF Stamp, feedVars
<1>8. /\ \A o \in Callers \ {c} : JobSound(bars', now, job[o])
      /\ StoreSound(bars', Today) /\ RulingsPast(bars', Today, rulings')
  BY <1>7 DEF SeriesInv
<1> HIDE DEF k
<1> QED BY <1>4, <1>5, <1>6, <1>7, <1>8, OneMoves

LEMMA MarkRepairedSeries ==
  ASSUME SeriesInv, TypeInv', NEW c \in Callers, MarkRepaired(c)
  PROVE  SeriesInv'
<1>1. JobSound(bars, now, NoJob)
  BY IdleSound DEF NoJob
<1> QED BY <1>1, JobMoves DEF MarkRepaired, feedVars

LEMMA TickSeries ==
  ASSUME Supported, SeriesInv, TypeInv', Tick
  PROVE  SeriesInv'
<1>1. now \in Int /\ now' \in Int /\ now' = now + 1 /\ bars' = bars
      /\ rulings' = rulings /\ meta' = meta /\ job' = job
  BY DEF SeriesInv, TypeInv, TypeOK, Tick, storeVars
<1>2. /\ Today \in Int /\ Day(now') \in Int /\ Today <= Day(now') /\ Today' = Day(now')
      /\ now <= now'
  BY <1>1, DayBounds, DayMonotone DEF Today
<1>3. Keeps(bars, bars, Today)
  BY DEF Keeps
<1>4. StoreSound(bars, Today) /\ RulingsPast(bars, Today, rulings)
  BY DEF SeriesInv
<1>5. StoreSound(bars, Today') /\ RulingsPast(bars, Today', rulings)
  BY <1>2, <1>3, <1>4, StoreKept, RulingsKept
<1>6. meta # None => Sound(bars, Today', meta.floor)
  <2>1. meta # None => meta.floor \in Int /\ Sound(bars, Today, meta.floor)
    BY DEF SeriesInv, TypeInv, TypeOK, Meta
  <2> QED BY <1>2, <1>3, <1>4, <2>1, SoundKept
<1>7. ASSUME NEW c \in Callers PROVE JobSound(bars, now', job[c])
  <2>1. job[c] \in Job /\ JobOK(job[c]) /\ JobSound(bars, now, job[c])
        /\ Timely(job[c], now)
    BY DEF SeriesInv, TypeInv, TypeOK, JobSound
  <2>2. Timely(job[c], now')
    <3>1. job[c].pc # "idle" => now - job[c].began < MaxCallTicks
      BY DEF Tick
    <3>2. job[c].began \in Int /\ MaxCallTicks \in Nat
      BY <2>1, CacheAssumption DEF Job
    <3> QED BY <1>1, <2>1, <3>1, <3>2 DEF Timely, Fetching
  <2> QED BY <1>1, <1>2, <1>3, <1>4, <2>1, <2>2, JobKept DEF Today
<1>8. Start <= now' /\ now' <= End
  BY <1>1, CacheAssumption DEF SeriesInv, Tick
<1> QED BY <1>1, <1>5, <1>6, <1>7, <1>8 DEF SeriesInv

\* A step that touches neither the clock, nor the table, nor what is said of it.
LEMMA SeriesLeftAlone ==
  ASSUME SeriesInv, TypeInv', UNCHANGED <<now, bars, meta, rulings, job>>
  PROVE  SeriesInv'
BY DEF SeriesInv, Today

LEMMA InitSeries == Supported /\ Init => SeriesInv
<1> SUFFICES ASSUME Supported, Init PROVE SeriesInv
  OBVIOUS
<1>1. /\ Banked(bars) = {} /\ \A d \in Days : rulings[d] = None
      /\ meta = None /\ now = Start
  BY DEF Init, FeedInit, NoBars, NoRulings, Banked
<1>2. StoreSound(bars, Today) /\ RulingsPast(bars, Today, rulings)
  BY <1>1 DEF StoreSound, Contiguous, RulingsPast
<1>3. \A c \in Callers : JobSound(bars, now, job[c])
  <2>1. \A c \in Callers : job[c].pc = "idle"
    BY DEF Init, NoJob
  <2> QED BY <2>1, IdleSound
<1>4. Start <= now /\ now <= End
  BY <1>1, CacheAssumption DEF Supported
<1> QED BY <1>1, <1>2, <1>3, <1>4, InitTyped DEF SeriesInv

LEMMA NextSeries == Supported /\ SeriesInv /\ [Next]_vars => SeriesInv'
<1> SUFFICES ASSUME Supported, SeriesInv, [Next]_vars PROVE SeriesInv'
  OBVIOUS
<1>1. TypeInv'
  BY NextTyped DEF SeriesInv
<1>2. CASE Tick
  BY <1>1, <1>2, TickSeries
<1>3. CASE Environment
  <2>1. now' = now
    BY <1>3 DEF Environment, FeedStep, Truncate, Settle, Adjust
  <2> QED BY <1>1, <1>3, <2>1, SeriesLeftAlone DEF Environment, storeVars
<1>4. ASSUME NEW c \in Callers,
             GetStep(c) \/ Rescan(c) \/ \E dates \in SUBSET Days : Adjudicate(c, dates)
      PROVE  SeriesInv'
  BY <1>1, <1>4, GetSeries, RescanSeries, AdjudicateSeries
<1>5. ASSUME NEW c \in Callers, CallStep(c) PROVE SeriesInv'
  <2>1. ASSUME NEW s \in Sources, Answer(c, s) \/ SecondOpinion(c, s)
        PROVE  SeriesInv'
    BY <1>1, <2>1, AnswerSeries, SecondOpinionSeries
  <2>2. CASE Unavailable(c) \/ RescanAgrees(c)
    BY <1>1, <2>2, CallEnds DEF Unavailable, RescanAgrees
  <2>3. CASE RefetchTail(c) \/ RescanRepair(c)
    BY <1>1, <2>3, RefetchSeries DEF RefetchTail, ScaleMoved, RescanRepair, Probing
  <2>4. CASE Bank(c) \/ Rebank(c) \/ Record(c)
    BY <1>1, <2>4, BankSeries, RebankSeries, RecordSeries
  <2>5. CASE PickSuspect(c) \/ PassOver(c) \/ Stamp(c) \/ MarkRepaired(c)
    BY <1>1, <2>5, PickSuspectSeries, PassOverSeries, StampSeries, MarkRepairedSeries
  <2> QED BY <1>5, <2>1, <2>2, <2>3, <2>4, <2>5 DEF CallStep
<1>6. ASSUME NEW c \in Callers, Crash(c) PROVE SeriesInv'
  BY <1>1, <1>6, CallEnds DEF Crash
<1>7. CASE UNCHANGED vars
  BY <1>1, <1>7, SeriesLeftAlone DEF vars, feedVars, storeVars
<1> QED BY <1>2, <1>3, <1>4, <1>5, <1>6, <1>7 DEF Next

\* The inductive invariant of the series, for any number of callers.
LEMMA SeriesInvariant == ASSUME Supported PROVE Spec => []SeriesInv
<1>1. Init => SeriesInv
  BY InitSeries
<1>2. SeriesInv /\ [Next]_vars => SeriesInv'
  BY NextSeries
<1> QED BY <1>1, <1>2, PTL DEF Spec

\* Whatever the callers, however their fetches, repairs, rescans and adjudications
\* interleave and wherever they die, there is no hole between the oldest date ever
\* asked for and the newest bar (the overlap of a top-up, the order of upsert_ohlcv
\* and set_meta, the floor set_meta is given).
THEOREM SeriesHasNoHoles == ASSUME Supported PROVE Spec => []NoHoles
<1>1. SeriesInv => NoHoles
  <2> SUFFICES ASSUME SeriesInv, meta # None, NEW d \in Days, Traded(d), meta.floor <= d,
                      NEW e \in Banked(bars), e > d
               PROVE  bars[d] # None
    BY DEF NoHoles
  <2>1. Filled(bars, meta.floor, e)
    BY DEF SeriesInv, Sound
  <2>2. d < e
    BY DaysFinite DEF Banked
  <2> QED BY <2>1, <2>2 DEF Filled, Good
<1> QED BY <1>1, SeriesInvariant, PTL

\* ... and every bar behind the newest one is the whole session, or a fragment the
\* volume test saw: what was banked in the middle of a session is read again before
\* a younger bar joins.
THEOREM SettledBehindTheTip == ASSUME Supported PROVE Spec => []SettledBehindTip
<1>1. SeriesInv => SettledBehindTip
  <2> SUFFICES ASSUME SeriesInv, NEW d \in Banked(bars), After(bars, d) # {}
               PROVE  bars[d].settled \/ bars[d].thin
    BY DEF SettledBehindTip
  <2>1. PICK e \in Banked(bars) : e > d
    BY DEF After
  <2>2. d \in Days /\ Traded(d) /\ Filled(bars, d, e)
    BY DEF SeriesInv, StoreSound, Contiguous, Banked
  <2>3. d <= d /\ d < e
    BY <2>1, DaysFinite DEF Banked
  <2>4. Good(bars, d)
    BY <2>2, <2>3 DEF Filled
  <2> QED BY <2>4, Zenon DEF Good
<1> QED BY <1>1, SeriesInvariant, PTL

-----------------------------------------------------------------------------
(***************************************************************************)
(* One caller at a time.  Nobody stamps or repairs behind its back, so a   *)
(* get_ohlcv holds the floor that is recorded, a call that may yet be sent *)
(* back for a repair knows the oldest bar there is, and a repair under way *)
(* reaches back past all of them with no ruling in its way.                *)
(***************************************************************************)
FloorKept(j) ==
  Fetching(j) /\ j.kind = "get" /\ j.pc # "ledger" /\ meta # None =>
    j.floor = meta.floor

Reaches(j) ==
  Requested(j) =>
    /\ j.tail \/ j.kind = "rescan" => \A e \in Banked(bars) : j.lo <= e
    /\ j.repair # {} => /\ \A e \in Banked(bars) : j.from <= e
                        /\ \A d \in Days : rulings[d] = None

AloneInv(c) == SeriesInv /\ FloorKept(job[c]) /\ Reaches(job[c])

\* A call past its answer has no window to reach anywhere with, and keeps the floor
\* it read while nobody stamps.
LEMMA StillKept ==
  ASSUME NEW c \in Callers, FloorKept(job[c]), meta' = meta,
         \/ ~Fetching(job'[c])
         \/ /\ Fetching(job[c]) /\ job[c].pc # "ledger"
            /\ job'[c].floor = job[c].floor /\ job'[c].kind = job[c].kind
  PROVE  FloorKept(job[c])'
BY DEF FloorKept, Fetching

LEMMA AskAlone ==
  ASSUME SeriesInv, NEW c \in Callers, UNCHANGED <<bars, meta>>,
         NEW kind \in {"get", "rescan"}, NEW start, NEW from, NEW floor, NEW tail,
         NEW repair, Ask(c, kind, start, from, floor, tail, repair),
         kind = "get" /\ meta # None => floor = meta.floor,
         repair # {} => from <= Lo(bars) /\ Lo(bars) \in Int /\ from \in Int
                        /\ rulings' = NoRulings,
         tail \/ kind = "rescan" \/ repair # {} => Banked(bars) # {}
  PROVE  FloorKept(job[c])' /\ Reaches(job[c])'
<1>1. PICK j : /\ job' = [job EXCEPT ![c] = j]
               /\ j.pc = "asked" /\ j.kind = kind /\ j.from = from
               /\ j.floor = floor /\ j.tail = tail /\ j.repair = repair
               /\ Banked(bars) # {} => j.lo = Lo(bars)
  BY AskedJob DEF SeriesInv
<1>2. job'[c] = j
  BY <1>1, JobMoved DEF SeriesInv
<1>3. FloorKept(job[c])'
  BY <1>1, <1>2 DEF FloorKept
<1>4. Reaches(job[c])'
  <2>1. \A e \in Banked(bars) : Lo(bars) <= e /\ e \in Int
    BY LoSound, DaysFinite DEF Banked
  <2>2. tail \/ kind = "rescan" => \A e \in Banked(bars) : j.lo <= e
    BY <1>1, <2>1
  <2>3. repair # {} => /\ \A e \in Banked(bars) : j.from <= e
                       /\ \A d \in Days : rulings'[d] = None
    BY <1>1, <2>1 DEF NoRulings
  <2>4. Banked(bars') = Banked(bars)
    OBVIOUS
  <2> QED BY <1>1, <1>2, <2>2, <2>3, <2>4 DEF Reaches
<1> QED BY <1>3, <1>4

\* A call asked on an empty table is asked before anything was recorded.
LEMMA EmptyIsUnmarked == SeriesInv /\ Banked(bars) = {} => meta = None
BY DEF SeriesInv, Sound

LEMMA GetAlone ==
  ASSUME Supported, NEW c \in Callers, AloneInv(c), GetStep(c)
  PROVE  FloorKept(job[c])' /\ Reaches(job[c])'
<1> USE DEF storeVars, feedVars
<1>1. SeriesInv /\ Today \in Int /\ \A lookback \in Lookbacks : Today - lookback \in Int
  BY DayBounds, CacheAssumption DEF AloneInv, SeriesInv, TypeInv, TypeOK, Today
<1>2. PICK lookback \in Lookbacks :
        \/ ColdFetch(c, lookback) \/ DeeperFetch(c, lookback)
        \/ TopUp(c, lookback)     \/ SeamRepair(c, lookback)
  BY DEF GetStep
<1>3. meta # None => Floor = meta.floor
  BY DEF Floor
<1>4. CASE ColdFetch(c, lookback)
  <2>1. meta = None
    BY <1>1, <1>4, EmptyIsUnmarked DEF ColdFetch
  <2>2. Ask(c, "get", Today - lookback, Today - lookback, None, FALSE, {})
    BY <1>4 DEF ColdFetch
  <2>3. UNCHANGED <<bars, meta>>
    BY <1>4 DEF ColdFetch
  <2> QED BY <1>1, <2>1, <2>2, <2>3, AskAlone
<1>5. CASE DeeperFetch(c, lookback)
  <2>1. Ask(c, "get", Today - lookback, Today - lookback, Floor, FALSE, {})
    BY <1>5 DEF DeeperFetch
  <2>2. UNCHANGED <<bars, meta>>
    BY <1>5 DEF DeeperFetch
  <2> QED BY <1>1, <1>3, <2>1, <2>2, AskAlone
<1>6. CASE TopUp(c, lookback)
  <2>1. Ask(c, "get", Today - lookback, TopUpFrom, Floor, TRUE, {})
    BY <1>6 DEF TopUp
  <2>2. UNCHANGED <<bars, meta>> /\ Banked(bars) # {}
    BY <1>6 DEF TopUp
  <2> QED BY <1>1, <1>3, <2>1, <2>2, AskAlone
<1>7. CASE SeamRepair(c, lookback)
  <2> DEFINE from == LeastOf(Today - lookback, Lo(bars) - Lead)
  <2>1. Banked(bars) # {} /\ UNCHANGED <<bars, meta>> /\ rulings' = NoRulings
    BY <1>7 DEF SeamRepair
  <2>2. Lo(bars) \in Int
    BY <1>1, <2>1, LoSound, DaysFinite DEF Banked
  <2>3. from \in Int /\ from <= Lo(bars)
    BY <1>1, <2>2, CacheAssumption DEF LeastOf
  <2>4. Ask(c, "get", Today - lookback, from, Floor, Behind, NewSeams)
    BY <1>7 DEF SeamRepair
  <2> HIDE DEF from
  <2> QED BY <1>1, <1>3, <2>1, <2>2, <2>3, <2>4, AskAlone
<1> QED BY <1>2, <1>4, <1>5, <1>6, <1>7

LEMMA RescanAlone ==
  ASSUME NEW c \in Callers, AloneInv(c), Rescan(c)
  PROVE  FloorKept(job[c])' /\ Reaches(job[c])'
<1> DEFINE start == IF Lo(bars) > Today - RescanLookback THEN Lo(bars)
                    ELSE Today - RescanLookback
<1>1. Ask(c, "rescan", start, start, None, FALSE, {}) /\ Banked(bars) # {}
  BY DEF Rescan
<1>2. UNCHANGED <<bars, meta>> /\ SeriesInv
  BY DEF Rescan, feedVars, storeVars, AloneInv
<1> HIDE DEF start
<1> QED BY <1>1, <1>2, AskAlone

\* A call that is over, or adjudicates, holds neither floor nor window.
LEMMA NothingToKeep ==
  ASSUME NEW c \in Callers, ~Fetching(job'[c])
  PROVE  FloorKept(job[c])' /\ (~Requested(job'[c]) => Reaches(job[c])')
BY DEF FloorKept, Reaches

LEMMA EndAlone ==
  ASSUME NEW c \in Callers, AloneInv(c), job' = [job EXCEPT ![c] = NoJob]
  PROVE  FloorKept(job[c])' /\ Reaches(job[c])'
<1>1. job'[c] = NoJob /\ NoJob.pc = "idle"
  BY JobMoved DEF NoJob, AloneInv, SeriesInv
<1> QED BY <1>1, NothingToKeep DEF Fetching, Requested

LEMMA AdjudicateAlone ==
  ASSUME NEW c \in Callers, AloneInv(c), NEW dates \in SUBSET Days, Adjudicate(c, dates)
  PROVE  FloorKept(job[c])' /\ Reaches(job[c])'
<1> DEFINE todo == {[day |-> d, by |-> bars[d].src] : d \in dates}
           j == [NoJob EXCEPT !.pc = "resolving", !.kind = "adjudicate",
                              !.began = now, !.todo = todo]
<1>1. job' = [job EXCEPT ![c] = j]
  BY DEF Adjudicate
<1>2. j.pc = "resolving" /\ j.kind = "adjudicate"
  <2> HIDE DEF todo
  <2>1. NoJob \in Job
    BY NoJobTyped DEF JobOK
  <2> QED BY <2>1 DEF Job
<1> HIDE DEF j
<1>3. job'[c] = j
  BY <1>1, JobMoved DEF AloneInv, SeriesInv
<1> QED BY <1>2, <1>3, NothingToKeep DEF Fetching, Requested

LEMMA AnswerAlone ==
  ASSUME NEW c \in Callers, AloneInv(c), NEW s \in Sources, Answer(c, s)
  PROVE  FloorKept(job[c])' /\ Reaches(job[c])'
<1>1. PICK rows :
        job' = [job EXCEPT ![c] = [@ EXCEPT !.pc = "answered", !.rows = rows, !.src = s]]
  BY DEF Answer
<1> DEFINE j == [job[c] EXCEPT !.pc = "answered", !.rows = rows, !.src = s]
<1>2. job[c] \in Job /\ job[c].pc = "asked" /\ TypeInv
  BY DEF AloneInv, SeriesInv, TypeInv, TypeOK, Answer
<1>3. /\ j.pc = "answered" /\ j.kind = job[c].kind /\ j.from = job[c].from
      /\ j.floor = job[c].floor /\ j.tail = job[c].tail /\ j.repair = job[c].repair
      /\ j.lo = job[c].lo
  BY <1>2 DEF Job
<1>4. job' = [job EXCEPT ![c] = j]
  BY <1>1
<1> HIDE DEF j
<1>5. job'[c] = j
  BY <1>2, <1>4, JobMoved
<1>6. UNCHANGED <<bars, meta, rulings>>
  BY DEF Answer, storeVars
<1>7. FloorKept(job[c])'
  BY <1>2, <1>3, <1>5, <1>6 DEF FloorKept, AloneInv, Fetching
<1>8. Reaches(job[c])'
  BY <1>2, <1>3, <1>5, <1>6 DEF Reaches, AloneInv, Requested
<1> QED BY <1>7, <1>8

\* A repair a call is sent back for reaches past the oldest bar.
LEMMA RefetchAlone ==
  ASSUME NEW c \in Callers, AloneInv(c), NEW day, Refetch(c, day),
         job[c].pc = "answered", job[c].tail \/ job[c].kind = "rescan"
  PROVE  FloorKept(job[c])' /\ Reaches(job[c])'
<1> DEFINE j == [job[c] EXCEPT !.pc = "asked", !.from = RepairFrom(c), !.repair = {day},
                               !.rows = NoRows, !.src = None]
<1>1. job[c] \in Job /\ TypeInv
  BY DEF AloneInv, SeriesInv, TypeInv, TypeOK
<1>2. /\ j.pc = "asked" /\ j.kind = job[c].kind /\ j.from = RepairFrom(c)
      /\ j.floor = job[c].floor /\ j.tail = job[c].tail /\ j.lo = job[c].lo
  BY <1>1 DEF Job
<1>3. job' = [job EXCEPT ![c] = j] /\ UNCHANGED <<bars, meta>> /\ rulings' = NoRulings
  BY DEF Refetch
<1> HIDE DEF j
<1>4. job'[c] = j
  BY <1>1, <1>3, JobMoved
<1>5. /\ RepairFrom(c) \in Int /\ job[c].lo \in Int /\ RepairFrom(c) <= job[c].lo
  BY <1>1, CacheAssumption DEF RepairFrom, LeastOf, Job
<1>6. \A e \in Banked(bars) : e \in Int /\ job[c].lo <= e /\ RepairFrom(c) <= e
  BY <1>5, DaysFinite DEF AloneInv, Reaches, Requested, Banked
<1>7. FloorKept(job[c])'
  BY <1>2, <1>3, <1>4 DEF FloorKept, AloneInv, Fetching
<1>8. Reaches(job[c])'
  <2>1. Banked(bars') = Banked(bars) /\ \A d \in Days : rulings'[d] = None
    BY <1>3 DEF NoRulings
  <2> QED BY <1>2, <1>4, <1>6, <2>1 DEF Reaches
<1> QED BY <1>7, <1>8

LEMMA BankAlone ==
  ASSUME NEW c \in Callers, AloneInv(c), Bank(c)
  PROVE  FloorKept(job[c])' /\ Reaches(job[c])'
<1> DEFINE suspects == Newest(ResolveMax,
             Suspects(bars, rulings, job[c].rows, job[c].src, Today))
           todo == {[day |-> d, by |-> job[c].src] : d \in suspects}
           pc == IF suspects = {} THEN "stamping" ELSE "resolving"
           j == [job[c] EXCEPT !.pc = pc, !.todo = todo]
<1>1. job[c] \in Job /\ job[c].pc = "answered" /\ TypeInv /\ Fetching(job[c])
  BY DEF AloneInv, SeriesInv, TypeInv, TypeOK, Bank, JobSound, Asked, Requested, Fetching
<1>2. j.pc = pc /\ j.kind = job[c].kind /\ j.floor = job[c].floor
  <2> HIDE DEF todo, pc
  <2> QED BY <1>1 DEF Job
<1>3. pc \in {"stamping", "resolving"}
  OBVIOUS
<1>4. job' = [job EXCEPT ![c] = j] /\ meta' = meta
  BY DEF Bank
<1> HIDE DEF j, pc
<1>5. job'[c] = j
  BY <1>1, <1>4, JobMoved
<1>6. FloorKept(job[c])'
  BY <1>1, <1>2, <1>4, <1>5, StillKept DEF AloneInv
<1>7. Reaches(job[c])'
  BY <1>2, <1>3, <1>5 DEF Reaches, Requested
<1> QED BY <1>6, <1>7

\* The resolution of a suspect moves the call on and leaves its floor.
LEMMA ResolveAlone ==
  ASSUME NEW c \in Callers, AloneInv(c), meta' = meta, Resolving(job[c]),
         NEW j, job' = [job EXCEPT ![c] = j], j.floor = job[c].floor, j.kind = job[c].kind,
         j.pc \in {"asking", "rebanking", "recording", "resolving", "stamping"}
  PROVE  FloorKept(job[c])' /\ Reaches(job[c])'
<1>1. job'[c] = j
  BY JobMoved DEF AloneInv, SeriesInv
<1>2. Reaches(job[c])'
  BY <1>1 DEF Reaches, Requested
<1>3. FloorKept(job[c])'
  BY <1>1 DEF AloneInv, FloorKept, Fetching, Resolving
<1> QED BY <1>2, <1>3

LEMMA CloseAlone ==
  ASSUME NEW c \in Callers, AloneInv(c), meta' = meta, InCase(job[c]),
         job' = [job EXCEPT ![c] = Close(job[c])]
  PROVE  FloorKept(job[c])' /\ Reaches(job[c])'
<1> DEFINE i == job[c]
           pc == IF i.todo # {} THEN "resolving"
                 ELSE IF i.kind = "adjudicate" THEN "idle" ELSE "stamping"
           j == AfterCase(i)
<1>1. i \in Job
  BY DEF AloneInv, SeriesInv, TypeInv, TypeOK
<1>2. j.pc = pc /\ j.kind = i.kind /\ j.floor = i.floor
  <2>1. AfterCase(i) = [i EXCEPT !.case = None, !.pc = pc]
    BY DEF AfterCase
  <2> HIDE DEF pc, i
  <2> QED BY <1>1, <2>1 DEF Job
<1>3. CASE pc = "idle"
  <2>1. Close(i) = NoJob
    BY <1>2, <1>3 DEF Close
  <2> QED BY <2>1, EndAlone
<1>4. CASE pc # "idle"
  <2>1. Close(i) = j /\ pc \in {"resolving", "stamping"}
    BY <1>2, <1>4 DEF Close
  <2> HIDE DEF j, pc
  <2> QED BY <1>2, <2>1, ResolveAlone DEF Resolving, InCase
<1> QED BY <1>3, <1>4

LEMMA ResolutionAlone ==
  ASSUME NEW c \in Callers, AloneInv(c),
         \/ PickSuspect(c) \/ PassOver(c) \/ Rebank(c) \/ Record(c)
         \/ \E s \in Sources : SecondOpinion(c, s)
  PROVE  FloorKept(job[c])' /\ Reaches(job[c])'
<1>1. job[c] \in Job
  BY DEF AloneInv, SeriesInv, TypeInv, TypeOK
<1>2. CASE PickSuspect(c)
  <2>1. PICK p \in job[c].todo :
        job' = [job EXCEPT ![c] = [@ EXCEPT
            !.pc = "asking", !.todo = job[c].todo \ {p},
            !.case = [day |-> p.day, by |-> p.by, alt |-> None, against |-> None,
                      thin |-> bars[p.day] # None /\ bars[p.day].thin]]]
    BY <1>2 DEF PickSuspect
  <2> DEFINE case == [day |-> p.day, by |-> p.by, alt |-> None, against |-> None,
                      thin |-> bars[p.day] # None /\ bars[p.day].thin]
             j == [job[c] EXCEPT !.pc = "asking", !.todo = job[c].todo \ {p},
                                 !.case = case]
  <2>2. j.pc = "asking" /\ j.floor = job[c].floor /\ j.kind = job[c].kind
    <3> HIDE DEF case
    <3> QED BY <1>1 DEF Job
  <2>3. job' = [job EXCEPT ![c] = j]
    BY <2>1
  <2>4. meta' = meta /\ Resolving(job[c])
    BY <1>2 DEF PickSuspect, storeVars, Resolving
  <2> HIDE DEF j
  <2> QED BY <2>2, <2>3, <2>4, ResolveAlone
<1>3. CASE PassOver(c) \/ Record(c)
  <2>1. meta' = meta /\ InCase(job[c]) /\ job' = [job EXCEPT ![c] = Close(job[c])]
    BY <1>3 DEF PassOver, Record, storeVars, InCase
  <2> QED BY <2>1, CloseAlone
<1>4. CASE Rebank(c)
  <2> DEFINE j == [job[c] EXCEPT !.pc = "recording"]
  <2>1. j.pc = "recording" /\ j.floor = job[c].floor /\ j.kind = job[c].kind
    BY <1>1 DEF Job
  <2>2. job' = [job EXCEPT ![c] = j] /\ meta' = meta /\ Resolving(job[c])
    BY <1>4 DEF Rebank, Resolving
  <2> HIDE DEF j
  <2> QED BY <2>1, <2>2, ResolveAlone
<1>5. ASSUME NEW s \in Sources, SecondOpinion(c, s)
      PROVE  FloorKept(job[c])' /\ Reaches(job[c])'
  <2> DEFINE case == [job[c].case EXCEPT !.alt = Served(s, job[c].case.day),
                                         !.against = s]
             pc == IF IsFragment(case) THEN "rebanking" ELSE "recording"
             j == [job[c] EXCEPT !.pc = pc, !.case = case]
  <2>1. j.pc = pc /\ j.floor = job[c].floor /\ j.kind = job[c].kind
    <3> HIDE DEF case, pc
    <3> QED BY <1>1 DEF Job
  <2>2. pc \in {"rebanking", "recording"}
    OBVIOUS
  <2>3. job' = [job EXCEPT ![c] = j] /\ meta' = meta /\ Resolving(job[c])
    BY <1>5 DEF SecondOpinion, storeVars, Resolving
  <2> HIDE DEF j, pc
  <2> QED BY <2>1, <2>2, <2>3, ResolveAlone
<1> QED BY <1>2, <1>3, <1>4, <1>5

LEMMA StampAlone ==
  ASSUME NEW c \in Callers, AloneInv(c), Stamp(c)
  PROVE  FloorKept(job[c])' /\ Reaches(job[c])'
<1> DEFINE j == [job[c] EXCEPT !.pc = "ledger"]
<1>1. CASE job[c].repair = {}
  BY <1>1, EndAlone DEF Stamp
<1>2. CASE job[c].repair # {}
  <2>1. job[c] \in Job /\ TypeInv
    BY DEF AloneInv, SeriesInv, TypeInv, TypeOK
  <2>2. j.pc = "ledger" /\ job' = [job EXCEPT ![c] = j]
    BY <1>2, <2>1 DEF Stamp, Job
  <2> HIDE DEF j
  <2>3. job'[c] = j
    BY <2>1, <2>2, JobMoved
  <2> QED BY <2>2, <2>3 DEF FloorKept, Reaches, Requested
<1> QED BY <1>1, <1>2

LEMMA NextAlone ==
  ASSUME Supported, NEW c \in Callers, Callers = {c}, AloneInv(c), [Next]_vars
  PROVE  AloneInv(c)'
<1> SUFFICES FloorKept(job[c])' /\ Reaches(job[c])'
  BY NextSeries DEF AloneInv
<1>1. CASE Tick \/ Environment \/ UNCHANGED vars
  <2>1. UNCHANGED <<bars, meta, rulings, job>>
    BY <1>1 DEF Tick, Environment, vars, storeVars
  <2> QED BY <2>1 DEF AloneInv, FloorKept, Reaches
<1>2. CASE GetStep(c) \/ Rescan(c) \/ \E dates \in SUBSET Days : Adjudicate(c, dates)
  BY <1>2, GetAlone, RescanAlone, AdjudicateAlone
<1>3. CASE CallStep(c)
  <2>1. ASSUME NEW s \in Sources, Answer(c, s) PROVE FloorKept(job[c])' /\ Reaches(job[c])'
    BY <2>1, AnswerAlone
  <2>2. CASE Unavailable(c) \/ RescanAgrees(c) \/ MarkRepaired(c)
    BY <2>2, EndAlone DEF Unavailable, RescanAgrees, MarkRepaired
  <2>3. CASE RefetchTail(c) \/ RescanRepair(c)
    BY <2>3, RefetchAlone DEF RefetchTail, ScaleMoved, RescanRepair, Probing
  <2>4. CASE Bank(c) \/ Stamp(c)
    BY <2>4, BankAlone, StampAlone
  <2> QED BY <1>3, <2>1, <2>2, <2>3, <2>4, ResolutionAlone DEF CallStep
<1>4. CASE Crash(c)
  BY <1>4, EndAlone DEF Crash
<1> QED BY <1>1, <1>2, <1>3, <1>4 DEF Next

LEMMA AloneInvariant ==
  ASSUME Supported, NEW c \in Callers, Callers = {c}
  PROVE  Spec => []AloneInv(c)
<1>1. Init => AloneInv(c)
  <2> SUFFICES ASSUME Init PROVE AloneInv(c)
    OBVIOUS
  <2>1. SeriesInv /\ job[c].pc = "idle"
    BY InitSeries DEF Init, NoJob
  <2> QED BY <2>1 DEF AloneInv, FloorKept, Fetching, Reaches, Requested
<1>2. AloneInv(c) /\ [Next]_vars => AloneInv(c)'
  BY NextAlone
<1> QED BY <1>1, <1>2, PTL DEF Spec

-----------------------------------------------------------------------------
\* The cache implements BarService.

Sessions == {d \in Days : Traded(d)}
HeldFrom(table, x) == {d \in Banked(table) : x <= d}

\* What the floor vouches for is whole.
LEMMA SoundIsWhole ==
  ASSUME NEW table, NEW today, NEW x, StoreSound(table, today), Sound(table, today, x)
  PROVE  Service!Whole(x, HeldFrom(table, x))
<1>1. HeldFrom(table, x) \subseteq {d \in Sessions : x <= d}
  BY DEF HeldFrom, Sessions, StoreSound, Banked
<1>2. ASSUME NEW d \in Sessions, x <= d, NEW e \in HeldFrom(table, x), d <= e
      PROVE  d \in HeldFrom(table, x)
  <2>1. d \in Days /\ d \in Int /\ e \in Int /\ Filled(table, x, e)
    BY <1>2, DaysFinite DEF Sessions, HeldFrom, Banked, Sound
  <2>2. CASE d < e
    BY <1>2, <2>1, <2>2 DEF Sessions, Filled, Good, HeldFrom, Banked
  <2> QED BY <1>2, <2>1, <2>2
<1> QED BY <1>1, <1>2 DEF Service!Whole, Sessions

\* The table is written by an upsert, the record by a stamp, by nothing else.
LEMMA WhoWrites ==
  ASSUME [Next]_vars
  PROVE  \/ UNCHANGED <<bars, meta>>
         \/ UNCHANGED meta /\ \E c \in Callers : Bank(c) \/ Rebank(c)
         \/ UNCHANGED bars /\ \E c \in Callers : Stamp(c)
<1>1. CASE Tick \/ Environment \/ UNCHANGED vars
  BY <1>1 DEF Tick, Environment, vars, storeVars
<1>2. ASSUME NEW c \in Callers, GetStep(c) \/ Rescan(c) \/ Crash(c)
      PROVE  UNCHANGED <<bars, meta>>
  <2>1. ASSUME NEW lookback \in Lookbacks,
               \/ ColdFetch(c, lookback) \/ DeeperFetch(c, lookback)
               \/ TopUp(c, lookback)     \/ SeamRepair(c, lookback)
        PROVE  UNCHANGED <<bars, meta>>
    BY <2>1, Zenon DEF ColdFetch, DeeperFetch, TopUp, SeamRepair, storeVars
  <2> QED BY <1>2, <2>1, Zenon DEF GetStep, Rescan, Crash, storeVars
<1>3. ASSUME NEW c \in Callers, NEW dates \in SUBSET Days, Adjudicate(c, dates)
      PROVE  UNCHANGED <<bars, meta>>
  BY <1>3, Zenon DEF Adjudicate, storeVars
<1>4. ASSUME NEW c \in Callers, NEW s \in Sources, Answer(c, s) \/ SecondOpinion(c, s)
      PROVE  UNCHANGED <<bars, meta>>
  BY <1>4, Zenon DEF Answer, SecondOpinion, storeVars
<1>5. ASSUME NEW c \in Callers, RefetchTail(c) \/ RescanRepair(c)
      PROVE  UNCHANGED <<bars, meta>>
  BY <1>5, Zenon DEF RefetchTail, RescanRepair, Refetch
<1>6. ASSUME NEW c \in Callers,
             \/ Unavailable(c) \/ RescanAgrees(c) \/ PickSuspect(c) \/ PassOver(c)
             \/ Record(c) \/ MarkRepaired(c)
      PROVE  UNCHANGED <<bars, meta>>
  BY <1>6, Zenon DEF Unavailable, RescanAgrees, PickSuspect, PassOver, Record,
                     MarkRepaired, storeVars
<1>7. ASSUME NEW c \in Callers, Bank(c) \/ Rebank(c) PROVE UNCHANGED meta
  BY <1>7, Zenon DEF Bank, Rebank
<1>8. ASSUME NEW c \in Callers, Stamp(c) PROVE UNCHANGED bars
  BY <1>8, Zenon DEF Stamp
<1> QED BY <1>1, <1>2, <1>3, <1>4, <1>5, <1>6, <1>7, <1>8, Zenon DEF Next, CallStep

\* A bar is never lost.
LEMMA BarsOnlyJoin ==
  ASSUME TypeInv, [Next]_vars
  PROVE  Banked(bars) \subseteq Banked(bars')
<1>1. ASSUME NEW rows \in Rows, NEW s \in Sources,
             bars' = Upsert(bars, rulings, rows, s, Today), NEW d \in Days, bars[d] # None
      PROVE  bars'[d] # None
  BY <1>1, UpsertEffect DEF TypeInv, TypeOK
<1>2. ASSUME NEW c \in Callers, Bank(c) PROVE Banked(bars) \subseteq Banked(bars')
  <2>1. job[c].rows \in Rows /\ job[c].src \in Sources
    BY <1>2 DEF TypeInv, TypeOK, JobOK, Job, Bank
  <2>2. bars' = Upsert(bars, rulings, job[c].rows, job[c].src, Today)
    BY <1>2 DEF Bank
  <2> QED BY <1>1, <2>1, <2>2 DEF Banked
<1>3. ASSUME NEW c \in Callers, Rebank(c) PROVE Banked(bars) \subseteq Banked(bars')
  <2> DEFINE case == job[c].case
             alt == [NoRows EXCEPT ![case.day] = case.alt]
  <2>1. case \in Case /\ case.alt \in Row /\ case.against \in Sources
    BY <1>3 DEF TypeInv, JobOK, Rebank
  <2>2. alt \in Rows
    BY <2>1, NoJobTyped DEF Rows
  <2>3. bars' = Upsert(bars, rulings, alt, case.against, Today)
    BY <1>3 DEF Rebank
  <2> HIDE DEF alt, case
  <2> QED BY <1>1, <2>1, <2>2, <2>3 DEF Banked
<1>4. CASE UNCHANGED bars
  BY <1>4 DEF Banked
<1> QED BY <1>2, <1>3, <1>4, WhoWrites

\* The floor a lone caller stamps is the recorded one or a deeper one.
LEMMA FloorGoesDown ==
  ASSUME NEW c \in Callers, AloneInv(c), Stamp(c)
  PROVE  /\ meta' # None /\ meta'.floor \in Int
         /\ meta # None => meta.floor \in Int /\ meta'.floor <= meta.floor
<1>1. job[c] \in Job /\ TypeInv /\ TypeInv'
  BY StampTyped DEF AloneInv, SeriesInv, TypeInv, TypeOK
<1>2. meta' \in Meta /\ meta'.floor = NewFloor(c)
  <2>1. meta' = [fetched |-> now, floor |-> NewFloor(c), withheld |-> Withheld(c)]
    BY DEF Stamp
  <2>2. NewFloor(c) \in Int /\ Withheld(c) \in Int \cup {None}
    BY <1>1, DaysFinite DEF NewFloor, LeastOf, Job, TypeInv, TypeOK, Meta, Withheld
  <2> QED BY <1>1, <2>1, <2>2 DEF TypeInv, TypeOK, Meta
<1>3. job[c].pc = "stamping" /\ Fetching(job[c])
  BY DEF Stamp, AloneInv, SeriesInv, JobSound, FloorSound
<1>4. ASSUME meta # None PROVE meta.floor \in Int /\ meta'.floor <= meta.floor
  <2>1. meta.floor \in Int
    BY <1>1, <1>4 DEF TypeInv, TypeOK, Meta
  <2>2. job[c].kind = "get" => job[c].floor = meta.floor
    BY <1>3, <1>4 DEF AloneInv, FloorKept
  <2>3. NewFloor(c) = LeastOf(job[c].from, meta.floor)
    BY <1>4, <2>1, <2>2, ClockAssumption DEF NewFloor
  <2>4. job[c].from \in Int
    BY <1>1 DEF Job
  <2> QED BY <1>2, <2>1, <2>3, <2>4 DEF LeastOf
<1> QED BY <1>2, <1>4, CacheAssumption DEF Meta

FloorOf(record) == IF record = None THEN None ELSE record.floor
HeldBy(table, record) == IF record = None THEN {} ELSE HeldFrom(table, record.floor)

LEMMA NextService ==
  ASSUME Supported, NEW c \in Callers, Callers = {c}, AloneInv(c), [Next]_vars
  PROVE  [Service!Next]_<<FloorOf(meta), HeldBy(bars, meta)>>
<1>1. SeriesInv /\ SeriesInv' /\ Banked(bars) \subseteq Banked(bars')
  BY NextSeries, BarsOnlyJoin DEF AloneInv, SeriesInv
<1>2. meta' # None => Service!Whole(meta'.floor, HeldFrom(bars', meta'.floor))
  BY <1>1, SoundIsWhole DEF SeriesInv
<1>3. meta # None => meta.floor # None /\ meta.floor \in Int
  BY <1>1, ClockAssumption DEF SeriesInv, TypeInv, TypeOK, Meta
<1>4. \A x : HeldFrom(bars, x) \subseteq HeldFrom(bars', x)
  BY <1>1 DEF HeldFrom
<1>5. CASE meta' = meta
  <2>1. CASE meta = None
    BY <1>5, <2>1 DEF FloorOf, HeldBy
  <2>2. CASE meta # None
    BY <1>2, <1>3, <1>4, <1>5, <2>2
       DEF Service!Next, Service!Advance, FloorOf, HeldBy, HeldFrom
  <2> QED BY <2>1, <2>2
<1>6. CASE Stamp(c)
  <2>1. /\ meta' # None /\ meta'.floor \in Int /\ meta'.floor # None
        /\ meta # None => meta'.floor <= meta.floor
    BY <1>6, FloorGoesDown, ClockAssumption
  <2>2. CASE meta = None
    BY <1>2, <2>1, <2>2 DEF Service!Next, Service!Open, FloorOf, HeldBy, HeldFrom
  <2>3. CASE meta # None /\ meta'.floor = meta.floor
    BY <1>2, <1>3, <1>4, <2>1, <2>3
       DEF Service!Next, Service!Advance, FloorOf, HeldBy, HeldFrom
  <2>4. CASE meta # None /\ meta'.floor < meta.floor
    <3>1. HeldFrom(bars, meta.floor) \subseteq HeldFrom(bars', meta'.floor)
      <4>1. \A d \in Days : meta.floor <= d => meta'.floor <= d
        BY <1>3, <2>1, <2>4, DaysFinite
      <4> QED BY <1>1, <4>1 DEF HeldFrom, Banked
    <3> QED BY <1>2, <1>3, <2>1, <2>4, <3>1
            DEF Service!Next, Service!Deepen, FloorOf, HeldBy, HeldFrom
  <2> QED BY <1>3, <2>1, <2>2, <2>3, <2>4
<1> QED BY <1>5, <1>6, WhoWrites

\* With one caller, which may die anywhere, the cache implements BarService: a step
\* advances the series, deepens its floor or is not seen (upsert_ohlcv before
\* set_meta, the overlap of a top-up, the floor set_meta is given).
THEOREM CacheIsAService ==
  ASSUME Supported, NEW c \in Callers, Callers = {c}
  PROVE  Spec => ServiceSpec
<1>1. Init => Service!Init
  BY DEF Init, Service!Init
<1>2. AloneInv(c) /\ [Next]_vars => [Service!Next]_<<FloorOf(meta), HeldBy(bars, meta)>>
  BY NextService
<1>3. Spec => []AloneInv(c)
  BY AloneInvariant
<1> QED BY <1>1, <1>2, <1>3, PTL
        DEF Spec, ServiceSpec, Service!Spec, FloorOf, HeldBy, HeldFrom

\* The floor never rises again while a lone caller tops up, deepens or repairs (what
\* set_meta is given; two callers break it, see FloorNeverRises in OhlcvRaces.cfg).
THEOREM FloorStaysDown ==
  ASSUME Supported, NEW c \in Callers, Callers = {c}
  PROVE  Spec => FloorNeverRises
<1>1. ASSUME AloneInv(c), [Next]_vars, meta # None
      PROVE  meta' # None /\ meta'.floor <= meta.floor
  <2>1. meta.floor \in Int
    BY <1>1 DEF AloneInv, SeriesInv, TypeInv, TypeOK, Meta
  <2>2. CASE meta' = meta
    BY <1>1, <2>1, <2>2
  <2>3. CASE Stamp(c)
    BY <1>1, <2>3, FloorGoesDown
  <2> QED BY <1>1, <2>2, <2>3, WhoWrites
<1>2. Spec => []AloneInv(c)
  BY AloneInvariant
<1> QED BY <1>1, <1>2, PTL DEF Spec, FloorNeverRises

-----------------------------------------------------------------------------
\* A repair.

\* The step from an answer to its resolution or its stamp is the upsert.
LEMMA OnlyBankMovesOn ==
  ASSUME TypeInv, NEW c \in Callers, Callers = {c}, [Next]_vars,
         job[c].pc = "answered", job'[c].pc \in {"stamping", "resolving"}
  PROVE  Bank(c)
<1>1. CASE Tick \/ Environment \/ UNCHANGED vars
  <2>1. job' = job
    BY <1>1 DEF Tick, Environment, vars
  <2> QED BY <2>1
<1>2. ~(GetStep(c) \/ Rescan(c) \/ \E dates \in SUBSET Days : Adjudicate(c, dates))
  BY DEF GetStep, ColdFetch, DeeperFetch, TopUp, SeamRepair, Rescan, Ask, Adjudicate
<1>3. CASE job' = [job EXCEPT ![c] = NoJob]
  <2>1. job'[c] = NoJob /\ NoJob.pc = "idle"
    BY <1>3, JobMoved DEF NoJob
  <2> QED BY <2>1
<1>4. ASSUME NEW day, Refetch(c, day) PROVE FALSE
  <2> DEFINE j == [job[c] EXCEPT !.pc = "asked", !.from = RepairFrom(c), !.repair = {day},
                                 !.rows = NoRows, !.src = None]
  <2>1. j.pc = "asked"
    BY DEF TypeInv, TypeOK, Job
  <2>2. job' = [job EXCEPT ![c] = j]
    BY <1>4 DEF Refetch
  <2> HIDE DEF j
  <2>3. job'[c] = j
    BY <2>2, JobMoved
  <2> QED BY <2>1, <2>3
<1>5. CASE CallStep(c)
  BY <1>3, <1>4, <1>5 DEF CallStep, Answer, Unavailable, RefetchTail, RescanAgrees,
     RescanRepair, PickSuspect, SecondOpinion, PassOver, Rebank, Record, Stamp,
     MarkRepaired
<1> QED BY <1>1, <1>2, <1>3, <1>5 DEF Next, Crash

\* A repair a lone caller banks rewrites every bar behind today from the source that
\* answered: its window reaches past the oldest one, its answer is complete and no
\* ruling refuses a date of it (SEAM_REPAIR_LEAD_DAYS, clear_stub_checks).
THEOREM RepairReachesAll ==
  ASSUME Supported, NEW o \in Callers, Callers = {o}
  PROVE  Spec => RepairRewritesAll
<1>1. ASSUME AloneInv(o), [Next]_vars, job[o].pc = "answered",
             job'[o].pc \in {"stamping", "resolving"}, job[o].repair # {},
             NEW d \in Banked(bars), d < Today
      PROVE  bars'[d].src = job[o].src
  <2> DEFINE j == job[o]
  <2>1. SeriesInv /\ TypeInv /\ JobOK(j) /\ j \in Job /\ now \in Int
    BY <1>1 DEF AloneInv, SeriesInv, TypeInv, TypeOK
  <2>2. Bank(o)
    BY <1>1, <2>1, OnlyBankMovesOn
  <2>3. /\ Timely(j, now) /\ Asked(bars, j) /\ Complete(j)
        /\ j.rows \in Rows /\ j.src \in Sources /\ bars \in Bars
    BY <1>1, <2>1 DEF SeriesInv, JobSound, AnswerHolds, JobOK, Job, TypeInv, TypeOK
  <2>4. d \in Days /\ d \in Int /\ Traded(d) /\ j.from <= d /\ rulings[d] = None
    BY <1>1, <2>1, DaysFinite DEF AloneInv, Reaches, Requested, SeriesInv, StoreSound, Banked
  <2>5. j.rows[d] # None
    <3>1. Fetching(j) /\ j.end \in Int /\ j.began \in Int /\ Today \in Int
      BY <1>1, <2>1, <2>3, DayBounds DEF Asked, Requested, Fetching, Job, Today
    <3>2. /\ j.end <= Today /\ Today <= j.end + 1
          /\ j.began < Published(j.end) => Today = j.end
      BY <2>1, <2>3, <3>1, EndOfCall DEF Today
    <3>3. Published(j.end) \in Int
      BY <3>1, ClockAssumption, FeedAssumption DEF Published
    <3>4. d <= j.end /\ (d < j.end \/ Published(d) <= j.began)
      BY <1>1, <2>4, <3>1, <3>2, <3>3
    <3> QED BY <2>3, <2>4, <3>4 DEF Complete
  <2>6. d \in Kept(bars, rulings, j.rows, j.src, Today)
    BY <1>1, <2>4, <2>5 DEF Kept, Refused, Today
  <2> QED BY <2>2, <2>3, <2>4, <2>6, UpsertEffect DEF Bank
<1>2. Spec => []AloneInv(o)
  BY AloneInvariant
<1>3. AloneInv(o) /\ [Next]_vars =>
        [\A c \in Callers :
           /\ job[c].pc = "answered" /\ job'[c].pc \in {"stamping", "resolving"}
           /\ job[c].repair # {} /\ job[c].rows # NoRows
           => \A d \in Banked(bars) : d < Today => bars'[d].src = job[c].src]_vars
  BY <1>1
<1> QED BY <1>2, <1>3, PTL DEF Spec, RepairRewritesAll

-----------------------------------------------------------------------------
(***************************************************************************)
(* The catch-up, when calls are short.                                     *)
(*                                                                         *)
(* CaughtUp reads two rows two commits wrote: the bars and the marker,     *)
(* which says when the store was last brought up to date.  What makes them *)
(* agree is known only to the call that banked and has yet to stamp; so    *)
(* the invariant says of such a call that the newest session published     *)
(* when it began is banked, or in its answer and withheld (Caught), and of *)
(* the marker the same for the instant it names (MarkHolds).               *)
(***************************************************************************)

\* The walk-back of last_session_close is long enough for every closure.
LongestClosure == \A d \in Int : \E k \in (d - MaxClosedRun) .. d : IsTradingDay(k)

\* No day ends and no bar is published while a fetch is under way (OhlcvStraddle.cfg
\* shows a read that CaughtUp loses to one).
Prompt ==
  \A c \in Callers : Fetching(job[c]) =>
    /\ Day(job[c].began) = Today
    /\ \A d \in Days : Published(d) <= now => Published(d) <= job[c].began

\* The newest session published by the instant t.
NewestAt(d, t) ==
  /\ Traded(d) /\ Published(d) <= t
  /\ \A e \in Days : Traded(e) /\ Published(e) <= t => e <= d

Reached(table, d) == \E e \in Banked(table) : d <= e

\* The call has banked its answer and not yet stamped it.
Unstamped(j) == Fetching(j) /\ (Resolving(j) \/ j.pc = "stamping")

Caught(table, j) ==
  Unstamped(j) =>
    \A d \in Days : NewestAt(d, j.began) =>
      Reached(table, d) \/ (d = Day(j.began) /\ j.rows[d] # None)

MarkHolds ==
  meta # None =>
    /\ meta.fetched <= now
    /\ \A d \in Days : NewestAt(d, meta.fetched) => Reached(bars, d) \/ meta.withheld = d

\* A first fetch that has banked is under way.
FirstFetch == meta = None /\ Banked(bars) # {} => \E c \in Callers : Unstamped(job[c])

CaughtInv == SeriesInv /\ (\A c \in Callers : Caught(bars, job[c])) /\ MarkHolds

-----------------------------------------------------------------------------
\* Who may come to hold an unstamped answer.

\* As far as the marker goes, j is where i was.
Follows(i, j) ==
  /\ Unstamped(j) <=> Unstamped(i)
  /\ Unstamped(j) => j.began = i.began /\ j.rows = i.rows /\ j.from = i.from
  /\ Requested(j) => Requested(i) \/ i.pc = "idle"
  /\ InCase(j) => Resolving(i)

LEMMA ResolvingFollows ==
  ASSUME NEW i, Resolving(i), NEW j, j.kind = i.kind, j.began = i.began, j.rows = i.rows,
         j.from = i.from, Resolving(j) \/ (j.pc = "stamping" /\ j.kind # "adjudicate")
  PROVE  Follows(i, j)
BY DEF Follows, Unstamped, Fetching, Resolving, Requested, InCase

LEMMA AskedFollows ==
  ASSUME TypeInv, NEW c \in Callers, NEW kind, NEW start, NEW from, NEW floor,
         NEW tail, NEW repair, Ask(c, kind, start, from, floor, tail, repair)
  PROVE  Follows(job[c], job'[c])
<1>1. PICK j : job' = [job EXCEPT ![c] = j] /\ j.pc = "asked"
  BY AskedJob
<1>2. job'[c] = j /\ job[c].pc = "idle"
  BY <1>1, JobMoved DEF Ask
<1> QED BY <1>1, <1>2 DEF Follows, Unstamped, Resolving, InCase

LEMMA EndFollows ==
  ASSUME TypeInv, NEW c \in Callers, job' = [job EXCEPT ![c] = NoJob],
         job[c].pc \in {"asked", "answered", "ledger"}
  PROVE  Follows(job[c], job'[c])
<1>1. job'[c] = NoJob /\ NoJob.pc = "idle"
  BY JobMoved DEF NoJob
<1> QED BY <1>1 DEF Follows, Unstamped, Fetching, Resolving, Requested, InCase

LEMMA CloseFollows ==
  ASSUME TypeInv, NEW c \in Callers, InCase(job[c]),
         job' = [job EXCEPT ![c] = Close(job[c])]
  PROVE  Follows(job[c], job'[c])
<1> DEFINE i == job[c]
           pc == IF i.todo # {} THEN "resolving"
                 ELSE IF i.kind = "adjudicate" THEN "idle" ELSE "stamping"
           j == AfterCase(i)
<1>1. i \in Job /\ job'[c] = Close(i)
  BY JobMoved DEF TypeInv, TypeOK
<1>2. /\ j.pc = pc /\ j.kind = i.kind /\ j.began = i.began /\ j.rows = i.rows
      /\ j.from = i.from
  <2>1. AfterCase(i) = [i EXCEPT !.case = None, !.pc = pc]
    BY DEF AfterCase
  <2> HIDE DEF pc, i
  <2> QED BY <1>1, <2>1 DEF Job
<1>3. CASE pc = "idle"
  <2>1. Close(i) = NoJob /\ i.kind = "adjudicate" /\ NoJob.pc = "idle"
    BY <1>2, <1>3 DEF Close, NoJob
  <2> QED BY <1>1, <2>1
          DEF Follows, Unstamped, Fetching, Resolving, InCase, Requested
<1>4. CASE pc # "idle"
  <2>1. Close(i) = j /\ (pc = "resolving" \/ (pc = "stamping" /\ i.kind # "adjudicate"))
    BY <1>2, <1>4 DEF Close
  <2> HIDE DEF j, pc
  <2> QED BY <1>1, <1>2, <2>1, ResolvingFollows DEF Resolving, InCase
<1> QED BY <1>3, <1>4

LEMMA StartFollows ==
  ASSUME TypeInv, NEW c \in Callers,
         GetStep(c) \/ Rescan(c) \/ \E dates \in SUBSET Days : Adjudicate(c, dates)
  PROVE  Follows(job[c], job'[c])
<1>1. CASE GetStep(c) \/ Rescan(c)
  BY <1>1, AskedFollows DEF GetStep, ColdFetch, DeeperFetch, TopUp, SeamRepair, Rescan
<1>2. ASSUME NEW dates \in SUBSET Days, Adjudicate(c, dates)
      PROVE  Follows(job[c], job'[c])
  <2> DEFINE todo == {[day |-> d, by |-> bars[d].src] : d \in dates}
             j == [NoJob EXCEPT !.pc = "resolving", !.kind = "adjudicate",
                                !.began = now, !.todo = todo]
  <2>1. job' = [job EXCEPT ![c] = j] /\ job[c].pc = "idle"
    BY <1>2 DEF Adjudicate
  <2>2. j.pc = "resolving" /\ j.kind = "adjudicate"
    <3> HIDE DEF todo
    <3> QED BY NoJobTyped DEF JobOK, Job
  <2> HIDE DEF j
  <2>3. job'[c] = j
    BY <2>1, JobMoved
  <2> QED BY <2>1, <2>2, <2>3 DEF Follows, Unstamped, Fetching, Requested, InCase
<1> QED BY <1>1, <1>2

LEMMA RequestFollows ==
  ASSUME TypeInv, NEW c \in Callers,
         \/ \E s \in Sources : Answer(c, s)
         \/ Unavailable(c) \/ RefetchTail(c) \/ RescanAgrees(c) \/ RescanRepair(c)
  PROVE  Follows(job[c], job'[c])
<1>1. job[c] \in Job
  BY DEF TypeInv, TypeOK
<1>2. CASE Unavailable(c) \/ RescanAgrees(c)
  BY <1>2, EndFollows DEF Unavailable, RescanAgrees
<1>3. ASSUME NEW j, job' = [job EXCEPT ![c] = j], Requested(job[c]), Requested(j)
      PROVE  Follows(job[c], job'[c])
  <2>1. job'[c] = j
    BY <1>3, JobMoved
  <2> QED BY <1>3, <2>1 DEF Follows, Unstamped, Requested, Resolving, InCase
<1>4. ASSUME NEW s \in Sources, Answer(c, s) PROVE Follows(job[c], job'[c])
  <2>1. PICK rows : job' = [job EXCEPT ![c] = [@ EXCEPT
                              !.pc = "answered", !.rows = rows, !.src = s]]
    BY <1>4 DEF Answer
  <2> DEFINE j == [job[c] EXCEPT !.pc = "answered", !.rows = rows, !.src = s]
  <2>2. job' = [job EXCEPT ![c] = j] /\ job[c].pc = "asked"
    BY <1>4, <2>1 DEF Answer
  <2>3. j.pc = "answered"
    BY <1>1 DEF Job
  <2> HIDE DEF j
  <2> QED BY <1>3, <2>2, <2>3 DEF Requested
<1>5. ASSUME NEW day, Refetch(c, day), job[c].pc = "answered"
      PROVE  Follows(job[c], job'[c])
  <2> DEFINE j == [job[c] EXCEPT !.pc = "asked", !.from = RepairFrom(c), !.repair = {day},
                                 !.rows = NoRows, !.src = None]
  <2>1. job' = [job EXCEPT ![c] = j] /\ j.pc = "asked"
    BY <1>1, <1>5 DEF Refetch, Job
  <2> HIDE DEF j
  <2> QED BY <1>3, <1>5, <2>1 DEF Requested
<1> QED BY <1>2, <1>4, <1>5 DEF RefetchTail, RescanRepair

LEMMA ResolutionFollows ==
  ASSUME TypeInv, NEW c \in Callers,
         \/ PickSuspect(c) \/ PassOver(c) \/ Rebank(c) \/ Record(c)
         \/ \E s \in Sources : SecondOpinion(c, s)
  PROVE  Follows(job[c], job'[c])
<1>1. job[c] \in Job
  BY DEF TypeInv, TypeOK
<1>2. ASSUME NEW j, job' = [job EXCEPT ![c] = j], Resolving(job[c]), Resolving(j),
             j.kind = job[c].kind, j.began = job[c].began, j.rows = job[c].rows,
             j.from = job[c].from
      PROVE  Follows(job[c], job'[c])
  BY <1>2, JobMoved, ResolvingFollows
<1>3. CASE PickSuspect(c)
  <2>1. PICK p \in job[c].todo :
        job' = [job EXCEPT ![c] = [@ EXCEPT
            !.pc = "asking", !.todo = job[c].todo \ {p},
            !.case = [day |-> p.day, by |-> p.by, alt |-> None, against |-> None,
                      thin |-> bars[p.day] # None /\ bars[p.day].thin]]]
    BY <1>3 DEF PickSuspect
  <2> DEFINE case == [day |-> p.day, by |-> p.by, alt |-> None, against |-> None,
                      thin |-> bars[p.day] # None /\ bars[p.day].thin]
             j == [job[c] EXCEPT !.pc = "asking", !.todo = job[c].todo \ {p},
                                 !.case = case]
  <2>2. /\ j.pc = "asking" /\ j.kind = job[c].kind
        /\ j.began = job[c].began /\ j.rows = job[c].rows /\ j.from = job[c].from
    <3> HIDE DEF case
    <3> QED BY <1>1 DEF Job
  <2>3. job' = [job EXCEPT ![c] = j]
    BY <2>1
  <2>4. Resolving(job[c])
    BY <1>3 DEF PickSuspect, Resolving
  <2> HIDE DEF j
  <2> QED BY <1>2, <2>2, <2>3, <2>4 DEF Resolving
<1>4. CASE PassOver(c) \/ Record(c)
  BY <1>4, CloseFollows DEF PassOver, Record, InCase
<1>5. CASE Rebank(c)
  <2> DEFINE j == [job[c] EXCEPT !.pc = "recording"]
  <2>1. /\ j.pc = "recording" /\ j.kind = job[c].kind
        /\ j.began = job[c].began /\ j.rows = job[c].rows /\ j.from = job[c].from
    BY <1>1 DEF Job
  <2>2. job' = [job EXCEPT ![c] = j] /\ Resolving(job[c])
    BY <1>5 DEF Rebank, Resolving
  <2> HIDE DEF j
  <2> QED BY <1>2, <2>1, <2>2 DEF Resolving
<1>6. ASSUME NEW s \in Sources, SecondOpinion(c, s) PROVE Follows(job[c], job'[c])
  <2> DEFINE case == [job[c].case EXCEPT !.alt = Served(s, job[c].case.day),
                                         !.against = s]
             pc == IF IsFragment(case) THEN "rebanking" ELSE "recording"
             j == [job[c] EXCEPT !.pc = pc, !.case = case]
  <2>1. /\ j.pc = pc /\ j.kind = job[c].kind
        /\ j.began = job[c].began /\ j.rows = job[c].rows /\ j.from = job[c].from
    <3> HIDE DEF case, pc
    <3> QED BY <1>1 DEF Job
  <2>2. pc \in {"rebanking", "recording"}
    OBVIOUS
  <2>3. job' = [job EXCEPT ![c] = j] /\ Resolving(job[c])
    BY <1>6 DEF SecondOpinion, Resolving
  <2> HIDE DEF j, pc
  <2> QED BY <1>2, <2>1, <2>2, <2>3 DEF Resolving
<1> QED BY <1>3, <1>4, <1>5, <1>6

\* Only the upsert of an answer begins what only a stamp, or death, ends.
LEMMA WhoFollows ==
  ASSUME TypeInv, [Next]_vars, NEW c \in Callers
  PROVE  Follows(job[c], job'[c]) \/ Bank(c) \/ Stamp(c) \/ Crash(c)
<1>1. CASE job'[c] = job[c]
  BY <1>1 DEF Follows, InCase, Resolving
<1>2. CASE Tick \/ Environment \/ UNCHANGED vars
  BY <1>1, <1>2 DEF Tick, Environment, vars
<1>3. ASSUME NEW o \in Callers, o # c,
             \/ GetStep(o) \/ Rescan(o) \/ CallStep(o) \/ Crash(o)
             \/ \E dates \in SUBSET Days : Adjudicate(o, dates)
      PROVE  job'[c] = job[c]
  <2>1. \A j : job' = [job EXCEPT ![o] = j] => job'[c] = job[c]
    BY <1>3 DEF TypeInv, TypeOK
  <2>2. CASE GetStep(o) \/ Rescan(o)
    BY <2>1, <2>2
       DEF GetStep, ColdFetch, DeeperFetch, TopUp, SeamRepair, Rescan, Ask
  <2>3. CASE \E dates \in SUBSET Days : Adjudicate(o, dates)
    BY <2>1, <2>3 DEF Adjudicate
  <2>4. CASE Crash(o)
    BY <2>1, <2>4 DEF Crash
  <2>5. CASE CallStep(o)
    BY <2>1, <2>5 DEF CallStep, Answer, Unavailable, RefetchTail, RescanAgrees,
       RescanRepair, Refetch, Bank, PickSuspect, SecondOpinion, PassOver, Rebank, Record,
       Stamp, MarkRepaired
  <2> QED BY <1>3, <2>2, <2>3, <2>4, <2>5
<1>4. CASE GetStep(c) \/ Rescan(c) \/ \E dates \in SUBSET Days : Adjudicate(c, dates)
  BY <1>4, StartFollows
<1>5. CASE CallStep(c)
  <2>1. CASE MarkRepaired(c)
    BY <2>1, EndFollows DEF MarkRepaired
  <2> QED BY <1>5, <2>1, RequestFollows, ResolutionFollows DEF CallStep
<1> QED BY <1>1, <1>2, <1>3, <1>4, <1>5 DEF Next

-----------------------------------------------------------------------------
\* The steps.

LEMMA ReachedKept ==
  ASSUME Banked(bars) \subseteq Banked(bars')
  PROVE  \A d : Reached(bars, d) => Reached(bars', d)
BY DEF Reached

\* A session published by now is of today or before.
LEMMA PublishedIsPast ==
  ASSUME NEW t \in Int, NEW d \in Int, Published(d) <= t
  PROVE  d <= Day(t)
<1>1. /\ Day(t) \in Int /\ Day(t) * SlotsPerDay \in Int /\ d * SlotsPerDay \in Int
      /\ SlotsPerDay \in Nat /\ CloseSlot \in Nat /\ PublishLag \in Nat
  BY DayBounds, ClockAssumption, FeedAssumption
<1>2. Day(t) < d => Day(t) * SlotsPerDay + SlotsPerDay <= d * SlotsPerDay
  BY <1>1, DaysApart
<1> QED BY <1>1, <1>2, DayBounds DEF Published

\* An answer that is banked has the newest session published when it was asked for,
\* unless the table had it or the volume test withheld it because it is today's.
LEMMA BankCaught ==
  ASSUME CaughtInv, Prompt, NEW c \in Callers, Bank(c),
         Banked(bars) \subseteq Banked(bars')
  PROVE  Unstamped(job'[c]) /\ Caught(bars', job'[c])
<1> DEFINE i == job[c]
           suspects == Newest(ResolveMax, Suspects(bars, rulings, i.rows, i.src, Today))
           todo == {[day |-> d, by |-> i.src] : d \in suspects}
           pc == IF suspects = {} THEN "stamping" ELSE "resolving"
           j == [i EXCEPT !.pc = pc, !.todo = todo]
<1>1. /\ TypeInv /\ i \in Job /\ JobOK(i) /\ i.pc = "answered" /\ ~Probe(i)
      /\ JobSound(bars, now, i) /\ now \in Int
  BY DEF CaughtInv, SeriesInv, TypeInv, TypeOK, Bank, Probing, Probe
<1>2. bars' = Upsert(bars, rulings, i.rows, i.src, Today) /\ job'[c] = j
  BY <1>1, JobMoved DEF Bank
<1>3. j.pc = pc /\ j.kind = i.kind /\ j.began = i.began /\ j.rows = i.rows
  <2> HIDE DEF i, todo, pc
  <2> QED BY <1>1 DEF Job
<1>4. pc \in {"stamping", "resolving"}
  OBVIOUS
<1> HIDE DEF suspects, todo, pc, j
<1>5. Requested(i) /\ Fetching(i) /\ Joined(bars, i) /\ Complete(i) /\ Timely(i, now)
  BY <1>1 DEF JobSound, Asked, AnswerHolds, Requested, Fetching
<1>6. Unstamped(job'[c])
  BY <1>2, <1>3, <1>4, <1>5 DEF Unstamped, Fetching, Resolving
<1>7. ASSUME NEW d \in Days, NewestAt(d, i.began)
      PROVE  Reached(bars', d) \/ (d = Day(i.began) /\ i.rows[d] # None)
  <2>1. /\ d \in Int /\ i.began \in Int /\ i.from \in Int /\ i.end = Day(i.began)
        /\ Day(i.began) = Today /\ \A e \in Days : e \in Int
    BY <1>1, <1>5, DaysFinite DEF Job, Timely, Prompt
  <2>2. d <= i.end
    BY <1>7, <2>1, PublishedIsPast DEF NewestAt
  <2>3. CASE i.from <= d
    <3>1. i.rows[d] # None
      BY <1>5, <1>7, <2>2, <2>3 DEF Complete, NewestAt
    <3>2. CASE d \in Kept(bars, rulings, i.rows, i.src, Today)
      <4>1. bars \in Bars /\ i.rows \in Rows /\ i.src \in Sources
        BY <1>1 DEF TypeInv, TypeOK, Job, JobOK
      <4>2. bars'[d] # None
        <5> HIDE DEF i
        <5> QED BY <1>2, <3>2, <4>1, UpsertEffect
      <4> QED BY <2>1, <4>2 DEF Reached, Banked
    <3>3. CASE Refused(rulings, d, i.src)
      <4>1. bars[d] # None
        BY <3>3 DEF Refused, CaughtInv, SeriesInv, RulingsPast
      <4> QED BY <2>1, <4>1 DEF Reached, Banked
    <3> QED BY <2>1, <3>1, <3>2, <3>3 DEF Kept
  <2>4. CASE d < i.from
    <3>1. CASE \E e \in Banked(bars) : i.from <= e
      <4>1. PICK e \in Banked(bars) : i.from <= e
        BY <3>1
      <4>2. e \in Int /\ d <= e /\ e \in Banked(bars')
        BY <2>1, <2>4, <4>1 DEF Banked
      <4> QED BY <4>2 DEF Reached
    <3>2. CASE Banked(bars) # {}
      <4>1. PICK e \in Banked(bars) : Filled(bars, e, i.from)
        BY <1>5, <3>2 DEF Joined
      <4>2. e \in Int
        BY <2>1 DEF Banked
      <4>3. e <= d => bars[d] # None
        BY <1>7, <2>4, <4>1 DEF Filled, Good, NewestAt
      <4> QED BY <2>1, <4>1, <4>2, <4>3 DEF Reached, Banked
    <3>3. CASE Banked(bars) = {}
      <4>1. PICK e \in Days : Traded(e) /\ i.from <= e /\ Published(e) <= i.began
        BY <1>5, <3>3 DEF Joined
      <4> QED BY <1>7, <2>1, <2>4, <4>1 DEF NewestAt
    <3> QED BY <3>2, <3>3
  <2> QED BY <2>1, <2>3, <2>4
<1>8. Caught(bars', job'[c])
  BY <1>2, <1>3, <1>7 DEF Caught
<1> QED BY <1>6, <1>8

\* A stamp dates what its call has banked, or names the bar withheld.
LEMMA StampCaught ==
  ASSUME CaughtInv, Prompt, NEW c \in Callers, Stamp(c)
  PROVE  MarkHolds'
<1> DEFINE i == job[c]
<1>1. /\ now \in Int /\ i \in Job /\ i.pc = "stamping" /\ Unstamped(i)
      /\ bars' = bars /\ now' = now
  BY DEF CaughtInv, SeriesInv, TypeInv, TypeOK, Stamp, JobSound, FloorSound, Unstamped,
         feedVars
<1>2. meta'.fetched = now /\ meta'.withheld = Withheld(c)
  BY DEF Stamp
<1>3. ASSUME NEW d \in Days, NewestAt(d, now)
      PROVE  Reached(bars, d) \/ Withheld(c) = d
  <2>1. /\ i.began \in Int /\ i.began <= now /\ Day(i.began) = Today
        /\ \A e \in Days : Published(e) <= now => Published(e) <= i.began
    <3>1. i.began <= now /\ Fetching(i)
      BY <1>1 DEF CaughtInv, SeriesInv, JobSound, Timely, Unstamped
    <3> QED BY <1>1, <3>1 DEF Prompt, Job
  <2>2. \A e \in Days : Published(e) \in Int /\ e \in Int
    BY DaysFinite, ClockAssumption, FeedAssumption DEF Published
  <2>3. NewestAt(d, i.began)
    BY <1>1, <1>3, <2>1, <2>2 DEF NewestAt
  <2>4. Reached(bars, d) \/ (d = Today /\ i.rows[d] # None)
    BY <1>1, <2>1, <2>3 DEF CaughtInv, Caught
  <2>5. ASSUME d = Today, i.rows[d] # None, ~Reached(bars, d)
        PROVE  Withheld(c) = d
    <3>1. Banked(bars) = {} \/ Hi(bars) < Today
      <4> SUFFICES ASSUME Banked(bars) # {} PROVE Hi(bars) < Today
        OBVIOUS
      <4>1. Hi(bars) \in Banked(bars)
        BY DaysFinite, MaxOfFinite DEF Hi, Banked
      <4>2. ~(d <= Hi(bars)) /\ Hi(bars) \in Int
        BY <2>2, <2>5, <4>1 DEF Reached, Banked
      <4> QED BY <2>2, <2>5, <4>2
    <3> QED BY <2>5, <3>1 DEF Withheld
  <2> QED BY <2>4, <2>5
<1>4. now <= now
  BY <1>1
<1> HIDE DEF i
<1> QED BY <1>1, <1>2, <1>3, <1>4 DEF MarkHolds, NewestAt, Reached, Banked

LEMMA TimeGoesOn == TypeInv /\ [Next]_vars => now <= now'
<1> SUFFICES ASSUME TypeInv, [Next]_vars PROVE now <= now'
  OBVIOUS
<1>1. now \in Int
  BY DEF TypeInv, TypeOK
<1>2. CASE Tick
  BY <1>1, <1>2 DEF Tick
<1>3. CASE UNCHANGED now
  BY <1>1, <1>3
<1>4. CASE UNCHANGED vars
  BY <1>3, <1>4 DEF vars, feedVars
<1>5. CASE Environment
  BY <1>3, <1>5 DEF Environment, FeedStep, Truncate, Settle, Adjust
<1>6. ASSUME NEW c \in Callers,
             \/ GetStep(c) \/ Rescan(c) \/ CallStep(c) \/ Crash(c)
             \/ \E dates \in SUBSET Days : Adjudicate(c, dates)
      PROVE  UNCHANGED now
  BY <1>6 DEF GetStep, ColdFetch, DeeperFetch, TopUp, SeamRepair, Rescan, Adjudicate,
     Crash, CallStep, Answer, Unavailable, RefetchTail, RescanAgrees, RescanRepair,
     Refetch, Bank, PickSuspect, SecondOpinion, PassOver, Rebank, Record, Stamp,
     MarkRepaired, feedVars
<1> QED BY <1>2, <1>3, <1>4, <1>5, <1>6 DEF Next

LEMMA NextCaught ==
  ASSUME Supported, CaughtInv, Prompt, [Next]_vars
  PROVE  CaughtInv'
<1>1. SeriesInv /\ SeriesInv' /\ TypeInv /\ Banked(bars) \subseteq Banked(bars')
  BY NextSeries, BarsOnlyJoin DEF CaughtInv, SeriesInv
<1>2. ASSUME NEW c \in Callers PROVE Caught(bars', job'[c])
  <2>1. CASE Follows(job[c], job'[c])
    <3>1. Caught(bars, job[c])
      BY DEF CaughtInv
    <3> QED BY <1>1, <2>1, <3>1, ReachedKept DEF Caught, Follows
  <2>2. CASE Bank(c)
    BY <1>1, <2>2, BankCaught
  <2>3. CASE Stamp(c)
    <3> DEFINE j == [job[c] EXCEPT !.pc = "ledger"]
    <3>1. job[c] \in Job
      BY <1>1 DEF TypeInv, TypeOK
    <3>2. j.pc = "ledger" /\ NoJob.pc = "idle"
      BY <3>1 DEF Job, NoJob
    <3>3. job' = [job EXCEPT ![c] = NoJob] \/ job' = [job EXCEPT ![c] = j]
      BY <2>3 DEF Stamp
    <3> HIDE DEF j
    <3>4. job'[c] = NoJob \/ job'[c] = j
      BY <1>1, <3>3, JobMoved
    <3> QED BY <3>2, <3>4 DEF Caught, Unstamped, Fetching, Resolving
  <2>4. CASE Crash(c)
    <3>1. job'[c] = NoJob /\ NoJob.pc = "idle"
      BY <1>1, <2>4, JobMoved DEF Crash, NoJob
    <3> QED BY <3>1 DEF Caught, Unstamped, Fetching
  <2> QED BY <1>1, <2>1, <2>2, <2>3, <2>4, WhoFollows
<1>3. MarkHolds'
  <2>1. CASE meta' = meta
    <3>1. now <= now' /\ now \in Int /\ now' \in Int
      BY <1>1, TimeGoesOn DEF SeriesInv, TypeInv, TypeOK
    <3>2. meta # None => meta.fetched \in Int
      BY <1>1 DEF TypeInv, TypeOK, Meta
    <3>3. \A d, t : NewestAt(d, t)' <=> NewestAt(d, t)
      BY DEF NewestAt
    <3> QED BY <1>1, <2>1, <3>1, <3>2, <3>3, ReachedKept DEF CaughtInv, MarkHolds
  <2>2. ASSUME NEW c \in Callers, Stamp(c) PROVE MarkHolds'
    BY <2>2, StampCaught
  <2> QED BY <2>1, <2>2, WhoWrites
<1> QED BY <1>1, <1>2, <1>3 DEF CaughtInv

-----------------------------------------------------------------------------
\* What a read is served.

\* last_session_close finds the newest session behind it.
LEMMA SessionIsNewest ==
  ASSUME LongestClosure, now \in Int
  PROVE  /\ Session \in Int
         /\ \A d \in Days : Traded(d) /\ Published(d) <= now => d <= Session
<1>1. Day(now) \in Int /\ MaxClosedRun \in Nat
  BY DayBounds, ClockAssumption
<1> DEFINE from == Day(now) - (MaxClosedRun + 6)
<1>2. ClosedSessions(now) \subseteq from .. Day(now) /\ from \in Int
  BY <1>1 DEF ClosedSessions
<1>3. ClosedSessions(now) # {}
  <2> DEFINE d == Day(now) - 1
  <2>1. d \in Int
    BY <1>1
  <2>2. PICK k \in (d - MaxClosedRun) .. d : IsTradingDay(k)
    BY <2>1 DEF LongestClosure
  <2>3. k \in ClosedSessions(now)
    BY <1>1, <2>2 DEF ClosedSessions
  <2> QED BY <2>3
<1>4. /\ Session \in ClosedSessions(now)
      /\ \A d \in ClosedSessions(now) : Session >= d
  <2>1. IsFiniteSet(ClosedSessions(now)) /\ ClosedSessions(now) \subseteq Int
    <3>1. IsFiniteSet(from .. Day(now))
      BY <1>1, <1>2, FS_Interval
    <3> HIDE DEF from
    <3>2. from .. Day(now) \subseteq Int
      OBVIOUS
    <3> QED BY <1>2, <3>1, <3>2, FS_Subset
  <2> QED BY <1>3, <2>1, MaxOfFinite DEF Session, LastClosedDay
<1>5. Session \in Int /\ from <= Session
  BY <1>2, <1>4
<1>6. ASSUME NEW d \in Days, Traded(d), Published(d) <= now PROVE d <= Session
  <2>1. d \in Int /\ d <= Day(now)
    BY <1>6, DaysFinite, PublishedIsPast
  <2>2. CASE d < from
    BY <1>5, <1>2, <2>1, <2>2
  <2>3. CASE from <= d
    <3>1. d < Day(now) \/ Slot(now) >= CloseSlot
      <4> SUFFICES ASSUME d = Day(now) PROVE Slot(now) >= CloseSlot
        BY <1>1, <2>1
      <4>1. now = Day(now) * SlotsPerDay + Slot(now) /\ Slot(now) \in Int
        BY ClockAssumption DEF Day, Slot
      <4>2. Day(now) * SlotsPerDay + CloseSlot + PublishLag <= now
        BY <1>6 DEF Published
      <4>3. /\ Day(now) * SlotsPerDay \in Int /\ CloseSlot \in Nat /\ PublishLag \in Nat
        BY <1>1, ClockAssumption, FeedAssumption
      <4> QED BY <4>1, <4>2, <4>3
    <3>2. d \in from .. Day(now)
      BY <1>1, <1>2, <2>1, <2>3
    <3>3. d \in ClosedSessions(now)
      BY <1>6, <3>1, <3>2 DEF ClosedSessions, Traded
    <3> QED BY <1>4, <1>5, <2>1, <3>3
  <2> QED BY <1>2, <2>1, <2>2, <2>3
<1> QED BY <1>5, <1>6

\* Whatever window the read asks for, it begins at or before that session.
LEMMA WindowHasSession ==
  ASSUME Supported, LongestClosure, SeriesInv, NEW lookback \in Lookbacks,
         NEW x \in Int, x <= Today - lookback
  PROVE  x <= Session
<1>1. now \in Int /\ now \in Start .. End /\ Today \in Int
  BY DayBounds, CacheAssumption DEF SeriesInv, TypeInv, TypeOK, Today
<1>2. PICK d \in Days : Traded(d) /\ Day(now) - lookback <= d /\ Published(d) <= now
  BY <1>1 DEF Supported
<1>3. d <= Session /\ d \in Int /\ Session \in Int /\ lookback \in Int
  BY <1>1, <1>2, SessionIsNewest, DaysFinite, CacheAssumption
<1> QED BY <1>1, <1>2, <1>3 DEF Today

\* A table that reaches the session has it, below what it is sound from.
LEMMA ReachedIsBanked ==
  ASSUME SeriesInv, Session \in Days, Traded(Session), Reached(bars, Session),
         NEW x \in Int, x <= Session, \A e \in Banked(bars) : Filled(bars, x, e)
  PROVE  bars[Session] # None
<1>1. PICK e \in Banked(bars) : Session <= e
  BY DEF Reached
<1>2. e \in Int /\ Session \in Int
  BY DaysFinite DEF Banked
<1>3. CASE Session < e
  BY <1>1, <1>3 DEF Filled, Good
<1>4. CASE Session = e
  BY <1>4 DEF Banked
<1> QED BY <1>1, <1>2, <1>3, <1>4

LEMMA HiIsNewest ==
  ASSUME SeriesInv, Banked(bars) # {}
  PROVE  Hi(bars) \in Banked(bars) /\ Hi(bars) \in Int
BY DaysFinite, MaxOfFinite DEF Hi, Banked

\* A marker keeps a read from a store that stops short.
LEMMA MarkedCaughtUp ==
  ASSUME Supported, LongestClosure, CaughtInv, meta # None
  PROVE  CaughtUp
<1>1. /\ SeriesInv /\ now \in Int /\ Today \in Int /\ meta.fetched \in Int
      /\ meta.floor \in Int /\ MarkHolds /\ Sound(bars, Today, meta.floor)
  BY DayBounds DEF CaughtInv, SeriesInv, TypeInv, TypeOK, Today, Meta
<1> SUFFICES ASSUME NEW lookback \in Lookbacks, ServesStored(lookback),
                    now >= Published(Session), Traded(Session), Session \in Days,
                    ~(meta.withheld = Session /\ now - meta.fetched < WithheldRetry)
             PROVE  bars[Session] # None
  BY DEF CaughtUp
<1>2. Session \in Int /\ \A d \in Days : Traded(d) /\ Published(d) <= now => d <= Session
  BY <1>1, SessionIsNewest
<1>3. meta.floor <= Session
  <2>1. meta.floor <= Today - lookback
    BY <1>1, CacheAssumption DEF ServesStored, Deeper, Floor
  <2> QED BY <1>1, <2>1, WindowHasSession
<1>4. Reached(bars, Session)
  <2> SUFFICES ASSUME ~Reached(bars, Session) PROVE FALSE
    OBVIOUS
  <2>1. Hi(bars) < Session /\ Hi(bars) \in Int
    BY <1>1, <1>2, HiIsNewest DEF ServesStored, Reached
  <2>2. Session <= Today
    BY <1>1, <1>2, PublishedIsPast, ClockAssumption, FeedAssumption DEF Today, Published
  <2>3. ~MissedClose
    <3> SUFFICES ASSUME MissedClose PROVE FALSE
      OBVIOUS
    <3>1. Today > Hi(bars)
      BY <1>1, <1>2, <2>1, <2>2
    <3> QED BY <3>1 DEF ServesStored, Due, Behind
  <2>4. ~(meta.fetched < Published(Session)) /\ meta.withheld # Session
    <3>1. now - meta.fetched < WithheldRetry \/ now - meta.fetched >= WithheldRetry
      BY <1>1, CacheAssumption
    <3> QED BY <2>1, <2>3, <3>1 DEF MissedClose
  <2>5. NewestAt(Session, meta.fetched)
    <3>1. meta.fetched <= now
      BY <1>1 DEF MarkHolds
    <3>2. \A d \in Days : Published(d) \in Int
      BY DaysFinite, ClockAssumption, FeedAssumption DEF Published
    <3> QED BY <1>1, <1>2, <2>4, <3>1, <3>2 DEF NewestAt
  <2> QED BY <1>1, <2>4, <2>5 DEF MarkHolds
<1> QED BY <1>1, <1>3, <1>4, ReachedIsBanked DEF Sound

\* So does, before there is a marker, the first fetch that has not stamped yet.
LEMMA UnmarkedCaughtUp ==
  ASSUME Supported, LongestClosure, CaughtInv, Prompt, FirstFetch, meta = None
  PROVE  CaughtUp
<1>1. SeriesInv /\ now \in Int /\ Today \in Int /\ StoreSound(bars, Today)
  BY DayBounds DEF CaughtInv, SeriesInv, TypeInv, TypeOK, Today
<1> SUFFICES ASSUME NEW lookback \in Lookbacks, ServesStored(lookback),
                    now >= Published(Session), Traded(Session), Session \in Days
             PROVE  bars[Session] # None
  BY DEF CaughtUp
<1>2. Session \in Int /\ \A d \in Days : Traded(d) /\ Published(d) <= now => d <= Session
  BY <1>1, SessionIsNewest
<1>3. Banked(bars) # {} /\ Lo(bars) \in Banked(bars) /\ Lo(bars) \in Int
  BY DaysFinite, MinOfFinite DEF ServesStored, Lo, Banked
<1>4. Lo(bars) <= Session
  <2>1. Lo(bars) <= Today - lookback
    BY <1>1, <1>3, CacheAssumption DEF ServesStored, Deeper, Floor
  <2> QED BY <1>1, <1>3, <2>1, WindowHasSession
<1>5. Reached(bars, Session)
  <2>1. PICK c \in Callers : Unstamped(job[c])
    BY <1>3 DEF FirstFetch
  <2>2. /\ job[c].began \in Int /\ Day(job[c].began) = Today /\ job[c].began <= now
        /\ \A d \in Days : Published(d) <= now => Published(d) <= job[c].began
    <3>1. job[c] \in Job /\ Fetching(job[c])
      BY <1>1, <2>1 DEF SeriesInv, TypeInv, TypeOK, Unstamped
    <3> QED BY <1>1, <3>1 DEF Prompt, Fetching, Job, SeriesInv, JobSound, Timely
  <2>3. \A d \in Days : Published(d) \in Int
    BY DaysFinite, ClockAssumption, FeedAssumption DEF Published
  <2>4. NewestAt(Session, job[c].began)
    BY <1>1, <1>2, <2>2, <2>3 DEF NewestAt
  <2>5. Reached(bars, Session) \/ Session = Today
    BY <2>1, <2>2, <2>4 DEF CaughtInv, Caught
  <2>6. CASE Session = Today
    <3>1. ~(Today > Hi(bars))
      <4>1. Weekday(Today) < 5
        BY <2>6 DEF Traded, IsTradingDay
      <4> QED BY <4>1 DEF ServesStored, Due, Fresh, Behind
    <3> QED BY <1>1, <1>3, <2>6, <3>1, HiIsNewest DEF Reached
  <2> QED BY <2>5, <2>6
<1> QED BY <1>1, <1>3, <1>4, <1>5, ReachedIsBanked DEF StoreSound, Contiguous

LEMMA NextFirstFetch ==
  ASSUME CanCrash = FALSE, SeriesInv, FirstFetch, CaughtInv, Prompt, [Next]_vars
  PROVE  FirstFetch'
<1>1. TypeInv /\ Banked(bars) \subseteq Banked(bars')
  BY BarsOnlyJoin DEF SeriesInv
<1> SUFFICES ASSUME meta' = None, Banked(bars') # {}
             PROVE  \E c \in Callers : Unstamped(job'[c])
  BY DEF FirstFetch
<1>2. ASSUME NEW c \in Callers PROVE ~Stamp(c) /\ ~Crash(c)
  <2>1. ASSUME Stamp(c) PROVE FALSE
    <3>1. now \in Int /\ job[c] \in Job
      BY <1>1 DEF TypeInv, TypeOK
    <3>2. NewFloor(c) \in Int /\ Withheld(c) \in Int \cup {None}
      BY <1>1, <3>1, DaysFinite DEF NewFloor, LeastOf, Job, TypeInv, TypeOK, Meta, Withheld
    <3>3. meta' \in Meta
      BY <2>1, <3>1, <3>2 DEF Stamp, Meta
    <3> QED BY <3>3, CacheAssumption
  <2> QED BY <2>1 DEF Crash
<1>3. ASSUME NEW c \in Callers, Bank(c) PROVE Unstamped(job'[c])
  BY <1>1, <1>3, BankCaught
<1>4. CASE \A c \in Callers : ~Bank(c)
  <2>1. meta = None /\ Banked(bars) # {}
    <3>1. ASSUME NEW c \in Callers, Rebank(c) PROVE Banked(bars) # {}
      <4>1. job[c].case.day \in Days /\ bars[job[c].case.day] # None
        BY <3>1 DEF SeriesInv, TypeInv, JobOK, Case, JobSound, CasePast, InCase, Rebank
      <4> QED BY <4>1 DEF Banked
    <3> QED BY <1>2, <1>4, <3>1, WhoWrites
  <2>2. PICK c \in Callers : Unstamped(job[c])
    BY <2>1 DEF FirstFetch
  <2>3. Follows(job[c], job'[c])
    BY <1>1, <1>2, <1>4, WhoFollows
  <2> QED BY <2>2, <2>3 DEF Follows
<1> QED BY <1>3, <1>4

LEMMA InitCaught ==
  ASSUME Supported, Init
  PROVE  CaughtInv /\ FirstFetch
<1>1. SeriesInv /\ meta = None /\ \A c \in Callers : job[c] = NoJob
  BY InitSeries DEF Init
<1>2. \A c \in Callers : ~Unstamped(job[c])
  BY <1>1 DEF Unstamped, Fetching, NoJob
<1>3. Banked(bars) = {}
  BY DEF Init, Banked, NoBars
<1> QED BY <1>1, <1>2, <1>3 DEF CaughtInv, Caught, MarkHolds, FirstFetch

\* Between calls too short to see a bar published or a day end, and once a fetch has
\* left its marker, a read after publication is not served a store that stops short
\* of the session, however callers race, die and repair (_missed_close, the withheld
\* marker of set_meta).
THEOREM CaughtUpOnceMarked ==
  ASSUME Supported, LongestClosure
  PROVE  Spec /\ []Prompt => [](meta # None => CaughtUp)
<1>1. Init => CaughtInv
  BY InitCaught
<1>2. CaughtInv /\ Prompt /\ [Next]_vars => CaughtInv'
  BY NextCaught
<1>3. CaughtInv => (meta # None => CaughtUp)
  BY MarkedCaughtUp
<1> QED BY <1>1, <1>2, <1>3, PTL DEF Spec

\* Where no call dies half way, the first fetch is no exception (a first fetch that
\* does is one: OhlcvCrashedFirst.cfg).
THEOREM AlwaysCaughtUp ==
  ASSUME Supported, LongestClosure, CanCrash = FALSE
  PROVE  Spec /\ []Prompt => []CaughtUp
<1>1. Init => CaughtInv /\ FirstFetch
  BY InitCaught
<1>2. CaughtInv /\ FirstFetch /\ Prompt /\ [Next]_vars => CaughtInv' /\ FirstFetch'
  BY NextCaught, NextFirstFetch DEF CaughtInv
<1>3. CaughtInv /\ FirstFetch /\ Prompt => CaughtUp
  BY MarkedCaughtUp, UnmarkedCaughtUp
<1> QED BY <1>1, <1>2, <1>3, PTL DEF Spec

\* A call that is over in the instant it began is prompt.
LEMMA InstantCallsArePrompt ==
  ASSUME Supported, MaxCallTicks = 0
  PROVE  Spec => []Prompt
<1>1. SeriesInv => Prompt
  <2> SUFFICES ASSUME SeriesInv, NEW c \in Callers, Fetching(job[c])
               PROVE  job[c].began = now
    BY DEF Prompt, Today
  <2>1. now \in Int /\ job[c].began \in Int /\ Timely(job[c], now)
    BY DEF SeriesInv, TypeInv, TypeOK, Job, JobSound
  <2> QED BY <2>1 DEF Timely
<1> QED BY <1>1, SeriesInvariant, PTL

-----------------------------------------------------------------------------
(***************************************************************************)
(* One scale, for one caller that does not die half way.                   *)
(*                                                                         *)
(* A source adjusts its history at a moment of its own, and a fetch only   *)
(* compares the overlap of its window with the store.  What makes that     *)
(* enough is that the store is on one scale before the fetch, and that the *)
(* overlap can be compared: the bar behind the newest one is settled, so   *)
(* is the row that re-reads it, and neither is a fragment.  The invariant  *)
(* keeps the whole store on one scale, whatever sources it is from, and    *)
(* says of an answer under way that it is on one scale too (RowsHold), of  *)
(* its window where it starts (Window), and of the floor that no bar is    *)
(* below it (Floored), or a deeper fetch would re-read a part of the store *)
(* and compare nothing.                                                    *)
(***************************************************************************)

\* What it rests on besides Supported.  Nobody dies between the bars and their marker,
\* indexes have no corporate actions, and the feeds serve fragments of sessions from
\* the ex-date on only: an older one is no overlap to compare, and a second opinion on
\* it comes from a source that may have adjusted by then.
Comparable ==
  /\ CanCrash = FALSE
  /\ IsIndex => Ex <= FirstDay
  /\ \A d \in FragDays : Ex <= d

Acted   == Ex <= FirstDay \/ Ex <= Today
Adopted == Ex <= FirstDay \/ \A s \in Sources : adjusted[s]

\* No source serves a session from the ex-date on while another is still to adjust.
AdoptedInTime ==
  \A s \in Sources, d \in Days : Ex <= d /\ Served(s, d) # None => Adopted

-----------------------------------------------------------------------------
\* What is known of a bar, banked or served, of the date d: only after the action is
\* it on the new scale, from the ex-date on always; before that date it is whole, or of
\* the session in progress.
Plain(d, bar) ==
  /\ bar.adj => Acted
  /\ Ex <= d => bar.adj /\ Adopted
  /\ d < Ex => /\ bar.settled => Published(d) <= now /\ (bar.thin <=> d \in Quiet)
               /\ ~bar.settled => ~bar.thin

OnOneScale(table) ==
  \A d, e \in Days : table[d] # None /\ table[e] # None /\ table[d].adj => table[e].adj

FeedHolds ==
  /\ ~Acted => \A s \in Sources : ~adjusted[s]
  /\ \A s \in Sources : frag[s] \subseteq FragDays

BarsHold == OnOneScale(bars) /\ \A d \in Days : bars[d] # None => Plain(d, bars[d])

\* An answer from before the action, or one that has every older session whole.
RowsHold(j) ==
  /\ \A d \in Days : j.rows[d] # None => Plain(d, j.rows[d])
  /\ OnOneScale(j.rows)
  /\ \A d, e \in Days : bars[d] # None /\ Ex <= d /\ j.rows[e] # None => j.rows[e].adj
  /\ \/ \A d \in Days : /\ bars[d] # None => ~bars[d].adj
                        /\ j.rows[d] # None => ~j.rows[d].adj
     \/ /\ Acted
        /\ \A d \in Days : Traded(d) /\ j.from <= d /\ d <= j.end /\ d < Ex =>
                             j.rows[d] # None /\ j.rows[d].settled

Window(j) ==
  Requested(j) =>
    /\ \A e \in Banked(bars) : e <= j.end
    /\ j.repair = {} /\ j.kind = "get" =>
         \/ j.tail /\ Banked(bars) # {} /\ j.from = TopUpFrom
         \/ \A e \in Banked(bars) : j.from <= e

\* No bar is below the floor, but those of an answer that is banked and not stamped.
Floored(j) ==
  \A d \in Banked(bars) :
    (meta # None /\ meta.floor <= d) \/ (Unstamped(j) /\ j.from <= d)

\* A second opinion replaces no bar from before the ex-date.
CaseHolds(j) ==
  /\ j.pc = "asking" /\ j.case.thin /\ j.case.day < Ex => j.case.day \in Quiet
  /\ j.pc = "rebanking" => Ex <= j.case.day /\ j.case.alt.adj
  /\ j.pc = "recording" /\ IsFragment(j.case) => Ex <= j.case.day

RulingsHold == \A d \in Days : rulings[d] # None /\ rulings[d].frag => Ex <= d

ScaleInv(c) ==
  /\ AloneInv(c) /\ FeedHolds /\ BarsHold /\ RulingsHold
  /\ job[c].pc = "answered" => RowsHold(job[c])
  /\ Window(job[c]) /\ Floored(job[c]) /\ CaseHolds(job[c])

-----------------------------------------------------------------------------
\* The feeds.

LEMMA WhoFeeds ==
  ASSUME [Next]_vars
  PROVE  \/ UNCHANGED <<frag, adjusted>>
         \/ \E s \in Sources : Truncate(s) \/ Adjust(s) \/ \E d \in Days : Settle(s, d)
<1>1. CASE Tick \/ UNCHANGED vars
  BY <1>1 DEF Tick, vars, feedVars
<1>2. CASE Environment
  BY <1>2 DEF Environment, FeedStep
<1>3. ASSUME NEW c \in Callers,
             \/ GetStep(c) \/ Rescan(c) \/ CallStep(c) \/ Crash(c)
             \/ \E dates \in SUBSET Days : Adjudicate(c, dates)
      PROVE  UNCHANGED <<frag, adjusted>>
  BY <1>3 DEF GetStep, ColdFetch, DeeperFetch, TopUp, SeamRepair, Rescan, Adjudicate,
     Crash, CallStep, Answer, Unavailable, RefetchTail, RescanAgrees, RescanRepair,
     Refetch, Bank, PickSuspect, SecondOpinion, PassOver, Rebank, Record, Stamp,
     MarkRepaired, feedVars
<1> QED BY <1>1, <1>2, <1>3 DEF Next

LEMMA FeedGoesOn ==
  ASSUME SeriesInv, SeriesInv', FeedHolds, [Next]_vars
  PROVE  FeedHolds' /\ (Acted => Acted') /\ (Adopted => Adopted') /\ now <= now'
<1>1. /\ TypeInv /\ now \in Int /\ now' \in Int /\ now <= now' /\ Today <= Today'
      /\ Today \in Int /\ Today' \in Int /\ Ex \in Int
  <2>1. TypeInv /\ now \in Int /\ now' \in Int
    BY DEF SeriesInv, TypeInv, TypeOK
  <2> QED BY <2>1, TimeGoesOn, DayMonotone, DayBounds, FeedAssumption DEF Today
<1>2. Acted => Acted'
  BY <1>1 DEF Acted
<1>3. \/ UNCHANGED <<frag, adjusted>>
      \/ \E s \in Sources : Truncate(s) \/ Adjust(s) \/ \E d \in Days : Settle(s, d)
  BY WhoFeeds
<1>4. frag \in [Sources -> SUBSET Days] /\ adjusted \in [Sources -> BOOLEAN]
  BY <1>1 DEF TypeInv, TypeOK
<1>5. CASE UNCHANGED <<frag, adjusted>>
  BY <1>1, <1>2, <1>5 DEF FeedHolds, Adopted
<1>6. ASSUME NEW s \in Sources, Truncate(s) PROVE FeedHolds' /\ (Adopted => Adopted')
  <2>1. adjusted' = adjusted /\ Today \in FragDays
    BY <1>6 DEF Truncate
  <2>2. \A r \in Sources : frag'[r] \subseteq frag[r] \cup {Today}
    BY <1>4, <1>6 DEF Truncate
  <2> QED BY <1>2, <2>1, <2>2 DEF FeedHolds, Adopted
<1>7. ASSUME NEW s \in Sources, NEW d \in Days, Settle(s, d)
      PROVE  FeedHolds' /\ (Adopted => Adopted')
  <2>1. adjusted' = adjusted /\ \A r \in Sources : frag'[r] \subseteq frag[r]
    BY <1>4, <1>7 DEF Settle
  <2> QED BY <1>2, <2>1 DEF FeedHolds, Adopted
<1>8. ASSUME NEW s \in Sources, Adjust(s) PROVE FeedHolds' /\ (Adopted => Adopted')
  <2>1. frag' = frag /\ Acted /\ \A r \in Sources : adjusted[r] => adjusted'[r]
    BY <1>4, <1>8 DEF Adjust, Acted
  <2> QED BY <1>2, <2>1 DEF FeedHolds, Adopted
<1> QED BY <1>1, <1>2, <1>3, <1>5, <1>6, <1>7, <1>8

\* What a source serves.
LEMMA ServedPlain ==
  ASSUME TypeInv, FeedHolds, Comparable, AdoptedInTime, NEW s \in Sources, NEW d \in Days
  PROVE  /\ Served(s, d) # None =>
              /\ Served(s, d).adj <=> Ex <= d \/ adjusted[s]
              /\ Plain(d, Served(s, d))
         /\ Traded(d) /\ Published(d) <= now /\ d < Ex =>
              Served(s, d) # None /\ Served(s, d).settled
<1> DEFINE scale == d >= Ex \/ adjusted[s]
           thin == d \in Quiet
           Of(thn, set) == [adj |-> scale, thin |-> thn, settled |-> set]
<1>1. now \in Int /\ Today \in Int /\ d \in Int /\ Published(d) \in Int /\ Ex \in Int
  <2>1. now \in Int /\ d \in Int
    BY DaysFinite DEF TypeInv, TypeOK
  <2>2. d * SlotsPerDay \in Int
    BY <2>1, ClockAssumption
  <2> QED BY <2>1, <2>2, DayBounds, ClockAssumption, FeedAssumption DEF Today, Published
<1>2. d < Ex => d \notin frag[s]
  BY <1>1, FeedAssumption DEF Comparable, FeedHolds
<1>3. Served(s, d) # None => d <= Today /\ Traded(d)
  BY ServedSound
<1>4. Traded(d) /\ d <= Today =>
        /\ d \in frag[s] => Served(s, d) = Of(TRUE, FALSE)
        /\ d \notin frag[s] /\ now >= Published(d) => Served(s, d) = Of(thin, TRUE)
        /\ d \notin frag[s] /\ now < Published(d) =>
             Served(s, d) \in {Of(FALSE, FALSE), None}
  <2>1. ASSUME Traded(d), d <= Today, d \in frag[s] PROVE Served(s, d) = Of(TRUE, FALSE)
    BY <1>1, <2>1 DEF Served
  <2>2. ASSUME Traded(d), d <= Today, d \notin frag[s], now >= Published(d)
        PROVE  Served(s, d) = Of(thin, TRUE)
    BY <1>1, <2>2 DEF Served
  <2>3. ASSUME Traded(d), d <= Today, d \notin frag[s], now < Published(d)
        PROVE  Served(s, d) \in {Of(FALSE, FALSE), None}
    <3>1. CASE MidSession /\ now >= d * SlotsPerDay + OpenSlot
      <4>1. ~(now >= Published(d)) /\ ~(~Traded(d) \/ d > Today)
        BY <1>1, <2>3
      <4>2. Served(s, d) = Of(FALSE, FALSE)
        BY <2>3, <3>1, <4>1 DEF Served
      <4> QED BY <4>2
    <3>2. CASE ~(MidSession /\ now >= d * SlotsPerDay + OpenSlot)
      <4>1. ~(now >= Published(d)) /\ ~(~Traded(d) \/ d > Today)
        BY <1>1, <2>3
      <4>2. Served(s, d) = None
        BY <2>3, <3>2, <4>1 DEF Served
      <4> QED BY <4>2
    <3> QED BY <3>1, <3>2
  <2> HIDE DEF scale, thin
  <2> QED BY <2>1, <2>2, <2>3
<1>5. Served(s, d) # None =>
        /\ Served(s, d).adj <=> scale
        /\ d < Ex => /\ Served(s, d).settled => Published(d) <= now
                                                /\ (Served(s, d).thin <=> thin)
                     /\ ~Served(s, d).settled => ~Served(s, d).thin
  <2> HIDE DEF scale, thin
  <2>1. CASE d \in frag[s]
    <3>1. Served(s, d) # None => Served(s, d).adj = scale /\ Served(s, d).thin
      BY <1>1, <1>3, <1>4, <2>1
    <3> QED BY <1>1, <1>2, <2>1, <3>1
  <2>2. CASE d \notin frag[s] /\ now >= Published(d)
    <3>1. Served(s, d) # None => /\ Served(s, d).adj = scale
                                 /\ Served(s, d).thin = thin /\ Served(s, d).settled
      BY <1>1, <1>3, <1>4, <2>2
    <3> QED BY <1>1, <2>2, <3>1
  <2>3. CASE d \notin frag[s] /\ now < Published(d)
    <3>1. Served(s, d) # None =>
            Served(s, d).adj = scale /\ ~Served(s, d).thin /\ ~Served(s, d).settled
      BY <1>1, <1>3, <1>4, <2>3
    <3> QED BY <3>1
  <2> QED BY <1>1, <2>1, <2>2, <2>3
<1>6. Served(s, d) # None /\ scale => Acted
  BY <1>1, <1>3, FeedAssumption DEF FeedHolds, Acted, Days
<1>7. Served(s, d) # None /\ Ex <= d => Adopted
  BY DEF AdoptedInTime
<1>8. ASSUME Traded(d), Published(d) <= now, d < Ex
      PROVE  Served(s, d) # None /\ Served(s, d).settled
  <2>1. d <= Today
    BY <1>1, <1>8, PublishedIsPast DEF Today
  <2>2. Served(s, d) # None
    BY <1>8, <2>1, ServedSound
  <2>3. Served(s, d).settled
    BY <1>1, <1>2, <1>4, <1>8, <2>1
  <2> QED BY <2>2, <2>3
<1> QED BY <1>1, <1>5, <1>6, <1>7, <1>8 DEF Plain

-----------------------------------------------------------------------------
\* The bars.

\* A date that is kept holds the row of the answer.
LEMMA UpsertRow ==
  ASSUME NEW table \in Bars, NEW ruled, NEW rows \in Rows, NEW s \in Sources,
         NEW today, NEW d \in Kept(table, ruled, rows, s, today)
  PROVE  LET bar == Upsert(table, ruled, rows, s, today)[d]
         IN  /\ d \in Days /\ rows[d] # None /\ rows[d] \in Row
             /\ bar # None /\ bar.adj = rows[d].adj
             /\ bar.thin = rows[d].thin /\ bar.settled = rows[d].settled
<1> DEFINE bar == Upsert(table, ruled, rows, s, today)[d]
<1>1. d \in Days /\ rows[d] # None /\ rows[d] \in Row
  BY DEF Kept, Rows
<1>2. bar # None
  BY <1>1, UpsertEffect
<1>3. bar = [adj |-> rows[d].adj, thin |-> rows[d].thin,
             settled |-> rows[d].settled, src |-> s]
  BY <1>1 DEF Upsert
<1>4. bar.adj = rows[d].adj /\ bar.thin = rows[d].thin /\ bar.settled = rows[d].settled
  BY <1>3
<1> QED BY <1>1, <1>2, <1>4

\* The overlap of a top-up, before the action: the bar behind the newest one and the
\* row that re-reads it are both whole, so what is not rescaled is on one scale.
LEMMA OverlapAgrees ==
  ASSUME Supported, Comparable, SeriesInv, BarsHold, NEW j \in Job,
         Banked(bars) # {}, j.from = TopUpFrom,
         \A e \in Banked(bars) : e <= j.end /\ e < Ex,
         \A d \in Days : j.rows[d] # None => Plain(d, j.rows[d]),
         \A d \in Days : Traded(d) /\ j.from <= d /\ d <= j.end /\ d < Ex =>
                           j.rows[d] # None /\ j.rows[d].settled,
         Rescaled(bars, j.rows) = {}, NEW d \in Banked(bars), d < j.from
  PROVE  /\ j.from \in Banked(bars) /\ j.rows[j.from] # None
         /\ j.rows[j.from].adj = bars[j.from].adj
<1> DEFINE p == TopUpFrom
           tip == Hi(bars)
<1>1. /\ bars \in Bars /\ j.rows \in Rows /\ Ex \in Int /\ j.end \in Int
      /\ \A e \in Banked(bars) : e \in Days /\ e \in Int /\ Traded(e)
  BY DaysFinite, FeedAssumption
     DEF SeriesInv, TypeInv, TypeOK, StoreSound, Banked, Job
<1>2. p \in Banked(bars) /\ p \in Days /\ p \in Int
  BY <1>1, TopUpFromBar DEF SeriesInv
<1>3. tip \in Banked(bars) /\ \A e \in Banked(bars) : e <= tip
  <2>1. Banked(bars) \subseteq Days
    BY DEF Banked
  <2> QED BY <1>1, <2>1, DaysFinite, MaxOfFinite DEF Hi
<1>4. p < tip
  <2>1. Before(bars, tip) # {}
    <3>1. d < tip
      <4>1. d \in Int /\ tip \in Int /\ d < p /\ p <= tip
        BY <1>1, <1>2, <1>3
      <4> HIDE DEF p, tip
      <4> QED BY <1>2, <4>1
    <3> QED BY <3>1 DEF Before
  <2>2. Before(bars, tip) \subseteq Days
    BY DEF Before, Banked
  <2>3. Max(Before(bars, tip)) \in Before(bars, tip)
    BY <2>1, <2>2, DaysFinite, MaxOfFinite
  <2> QED BY <2>1, <2>3 DEF TopUpFrom, Before
<1>5. Good(bars, p)
  <2>1. Filled(bars, p, tip)
    BY <1>2, <1>3 DEF SeriesInv, StoreSound, Contiguous
  <2> QED BY <1>1, <1>2, <1>4, <2>1 DEF Filled
<1>6. /\ bars[p] # None /\ bars[p] \in Bar /\ Plain(p, bars[p]) /\ p < Ex
      /\ j.rows[p] # None /\ j.rows[p] \in Row /\ j.rows[p].settled
      /\ Plain(p, j.rows[p])
  BY <1>1, <1>2, <1>5 DEF Good, BarsHold, Bars, Rows
<1>7. bars[p].settled /\ (bars[p].thin <=> j.rows[p].thin)
  <2>1. bars[p].settled \/ bars[p].thin
    BY <1>5, Zenon DEF Good
  <2> QED BY <1>6, <2>1, Zenon DEF Plain
<1>8. bars[p].thin = j.rows[p].thin /\ bars[p].settled = j.rows[p].settled
  BY <1>6, <1>7 DEF Bar, Row
<1>9. p \notin Rescaled(bars, j.rows)
  OBVIOUS
<1> QED BY <1>2, <1>6, <1>8, <1>9 DEF Rescaled

\* What an answer that is banked leaves alone is on the scale of what it banks.
LEMMA BankAgrees ==
  ASSUME Supported, Comparable, NEW c \in Callers, ScaleInv(c),
         job[c].pc = "answered", ~ScaleMoved(c), ~Probing(c),
         NEW kept, kept = Kept(bars, rulings, job[c].rows, job[c].src, Today),
         NEW d \in Banked(bars), d \notin kept, NEW y \in kept
  PROVE  \/ bars[d].adj <=> job[c].rows[y].adj
         \/ /\ \A e \in Banked(bars) : ~bars[e].adj
            /\ \A e \in kept : ~job[c].rows[e].adj
<1> DEFINE j == job[c]
<1>1. /\ SeriesInv /\ TypeInv /\ j \in Job /\ now \in Int /\ Today \in Int /\ Ex \in Int
      /\ FirstDay \in Int /\ Requested(j) /\ RowsHold(j) /\ BarsHold
      /\ \A e \in Days : e \in Int /\ FirstDay <= e
  <2>1. \A e \in Days : e \in Int /\ FirstDay <= e
    BY FeedAssumption DEF Days
  <2> QED BY <2>1, DayBounds, FeedAssumption
          DEF ScaleInv, AloneInv, SeriesInv, TypeInv, TypeOK, Requested, Today
<1>2. /\ d \in Days /\ bars[d] # None /\ Plain(d, bars[d]) /\ Traded(d)
      /\ y \in Days /\ j.rows[y] # None
      /\ \A e \in kept : e \in Days /\ j.rows[e] # None
  BY <1>1 DEF Banked, BarsHold, SeriesInv, StoreSound, Kept
<1>3. CASE \A e \in Days : /\ bars[e] # None => ~bars[e].adj
                           /\ j.rows[e] # None => ~j.rows[e].adj
  BY <1>2, <1>3 DEF Banked
<1>4. CASE \E e \in Banked(bars) : Ex <= e
  <2>1. PICK e \in Days : bars[e] # None /\ Ex <= e
    BY <1>4 DEF Banked
  <2>2. j.rows[y].adj
    BY <1>1, <1>2, <2>1 DEF RowsHold
  <2>3. bars[e].adj
    BY <1>1, <2>1 DEF BarsHold, Plain
  <2>4. bars[d].adj
    BY <1>1, <1>2, <2>1, <2>3 DEF BarsHold, OnOneScale
  <2> QED BY <2>2, <2>4
<1>5. CASE /\ \A e \in Banked(bars) : e < Ex
           /\ Acted
           /\ \A e \in Days : Traded(e) /\ j.from <= e /\ e <= j.end /\ e < Ex =>
                                j.rows[e] # None /\ j.rows[e].settled
  <2>1. d < Ex /\ Ex <= Today /\ ~IsIndex
    BY <1>1, <1>2, <1>5 DEF Acted, Comparable
  <2>2. \A e \in Banked(bars) : e <= j.end
    BY <1>1 DEF ScaleInv, Window
  <2>3. j.from \in Int /\ j.kind \in {"get", "rescan"}
    BY <1>1 DEF SeriesInv, JobSound, Asked, Job
  <2>4. ~(j.from <= d)
    <3> SUFFICES ASSUME j.from <= d PROVE FALSE
      OBVIOUS
    <3>1. j.rows[d] # None
      BY <1>2, <1>5, <2>1, <2>2
    <3>2. ~Refused(rulings, d, j.src) /\ d # Today
      BY <1>1, <1>2, <2>1 DEF ScaleInv, RulingsHold, Refused
    <3>3. d \in Kept(bars, rulings, j.rows, j.src, Today)
      BY <1>2, <3>1, <3>2 DEF Kept
    <3> QED BY <3>3
  <2>5. j.repair = {}
    BY <1>1, <2>4 DEF ScaleInv, AloneInv, Reaches
  <2>6. j.kind = "get"
    BY <2>3, <2>5 DEF Probing
  <2>7. j.tail /\ Banked(bars) # {} /\ j.from = TopUpFrom
    BY <1>1, <2>4, <2>5, <2>6 DEF ScaleInv, Window
  <2>8. Rescaled(bars, j.rows) = {}
    BY <2>1, <2>5, <2>6, <2>7 DEF ScaleMoved
  <2>9. d < j.from
    BY <1>1, <1>2, <2>3, <2>4
  <2>10. /\ j.from \in Banked(bars) /\ j.rows[j.from] # None
         /\ j.rows[j.from].adj = bars[j.from].adj
    <3> HIDE DEF j
    <3>1. \A e \in Days : j.rows[e] # None => Plain(e, j.rows[e])
      BY <1>1 DEF RowsHold
    <3> QED BY <1>1, <1>5, <2>2, <2>7, <2>8, <2>9, <3>1, OverlapAgrees
  <2>11. bars[d].adj <=> bars[j.from].adj
    BY <1>1, <1>2, <2>10 DEF BarsHold, OnOneScale, Banked
  <2>12. j.rows[y].adj <=> j.rows[j.from].adj
    BY <1>1, <1>2, <2>10 DEF RowsHold, OnOneScale, Banked
  <2> QED BY <2>10, <2>11, <2>12
<1>6. \A e \in Banked(bars) : e \in Int
  BY <1>1 DEF Banked
<1> QED BY <1>1, <1>3, <1>4, <1>5, <1>6 DEF RowsHold

\* A bar of the table is what it was before the answer was banked, or its row.
LEMMA BankScale ==
  ASSUME Supported, Comparable, NEW c \in Callers, ScaleInv(c), Bank(c)
  PROVE  BarsHold' /\ \A d \in Banked(bars') : d \in Banked(bars) \/ job[c].from <= d
<1> DEFINE j == job[c]
           kept == Kept(bars, rulings, j.rows, j.src, Today)
<1>1. /\ j \in Job /\ j.rows \in Rows /\ j.src \in Sources /\ bars \in Bars
      /\ j.pc = "answered" /\ ~ScaleMoved(c) /\ ~Probing(c)
      /\ BarsHold /\ RowsHold(j) /\ Proper(j) /\ UNCHANGED feedVars
      /\ bars' = Upsert(bars, rulings, j.rows, j.src, Today)
  BY DEF ScaleInv, AloneInv, SeriesInv, TypeInv, TypeOK, JobOK, Job, Bank, JobSound,
         AnswerHolds
<1>2. \A d \in Days : d \notin kept => bars'[d] = bars[d]
  BY <1>1, UpsertEffect
<1>3. \A d \in kept : /\ d \in Days /\ j.rows[d] # None
                      /\ bars'[d].adj = j.rows[d].adj /\ bars'[d].thin = j.rows[d].thin
                      /\ bars'[d].settled = j.rows[d].settled
  BY <1>1, UpsertRow
<1>4. ASSUME NEW d \in Banked(bars), d \notin kept, NEW y \in kept
      PROVE  \/ bars[d].adj <=> j.rows[y].adj
             \/ /\ \A e \in Banked(bars) : ~bars[e].adj
                /\ \A e \in kept : ~j.rows[e].adj
  BY <1>1, <1>4, BankAgrees
<1> HIDE DEF kept
<1>5. \A d \in Days : bars'[d] # None => Plain(d, bars'[d])
  <2>1. ASSUME NEW d \in kept PROVE Plain(d, bars'[d])
    <3>1. Plain(d, j.rows[d])
      BY <1>1, <1>3 DEF RowsHold
    <3> HIDE DEF j
    <3> QED BY <1>3, <3>1 DEF Plain
  <2>2. ASSUME NEW d \in Days, d \notin kept, bars'[d] # None PROVE Plain(d, bars'[d])
    BY <1>1, <1>2, <2>2 DEF BarsHold
  <2> QED BY <2>1, <2>2
<1>6. ASSUME NEW d \in Days, NEW e \in Days, bars'[d] # None, bars'[e] # None, bars'[d].adj
      PROVE  bars'[e].adj
  <2>1. CASE d \in kept /\ e \in kept
    BY <1>1, <1>3, <1>6, <2>1 DEF RowsHold, OnOneScale
  <2>2. CASE d \notin kept /\ e \notin kept
    BY <1>1, <1>2, <1>6, <2>2 DEF BarsHold, OnOneScale
  <2>3. CASE d \notin kept /\ e \in kept
    <3>1. d \in Banked(bars) /\ bars[d].adj
      BY <1>2, <1>6, <2>3 DEF Banked
    <3> QED BY <1>3, <1>4, <2>3, <3>1
  <2>4. CASE d \in kept /\ e \notin kept
    <3>1. e \in Banked(bars) /\ bars'[e] = bars[e]
      BY <1>2, <1>6, <2>4 DEF Banked
    <3>2. j.rows[d].adj
      BY <1>3, <1>6, <2>4
    <3> QED BY <1>4, <2>4, <3>1, <3>2
  <2> QED BY <2>1, <2>2, <2>3, <2>4
<1>7. BarsHold'
  <2>1. UNCHANGED <<now, adjusted>>
    BY <1>1 DEF feedVars
  <2> QED BY <1>5, <1>6, <2>1
          DEF BarsHold, OnOneScale, Plain, Acted, Adopted, Today, Published
<1>8. ASSUME NEW d \in Banked(bars') PROVE d \in Banked(bars) \/ j.from <= d
  <2>1. CASE d \in kept
    BY <1>1, <1>3, <2>1 DEF Proper
  <2>2. CASE d \notin kept
    BY <1>2, <2>2 DEF Banked
  <2> QED BY <2>1, <2>2
<1> QED BY <1>7, <1>8

\* A second opinion replaces a bar on the new scale by one on it.
LEMMA RebankScale ==
  ASSUME NEW c \in Callers, ScaleInv(c), Rebank(c)
  PROVE  BarsHold' /\ Banked(bars') = Banked(bars)
<1> DEFINE case == job[c].case
           alt == [NoRows EXCEPT ![case.day] = case.alt]
           day == case.day
<1>1. /\ case \in Case /\ case.alt \in Row /\ case.against \in Sources /\ day \in Days
      /\ bars \in Bars /\ BarsHold /\ UNCHANGED feedVars
      /\ bars[day] # None /\ Ex <= day /\ case.alt.adj
  BY DEF ScaleInv, AloneInv, SeriesInv, TypeInv, TypeOK, JobOK, Case, Rebank, JobSound,
         CasePast, InCase, CaseHolds
<1>2. alt \in Rows /\ \A d \in Days : alt[d] = IF d = day THEN case.alt ELSE None
  BY <1>1, NoJobTyped DEF Rows, NoRows
<1>3. bars' = Upsert(bars, rulings, alt, case.against, Today)
  BY DEF Rebank
<1> DEFINE kept == Kept(bars, rulings, alt, case.against, Today)
<1>4. \A d \in Days : d \notin kept => bars'[d] = bars[d]
  <2> HIDE DEF alt, case
  <2> QED BY <1>1, <1>2, <1>3, UpsertEffect
<1>5. \A d \in kept : d = day /\ bars'[d] # None /\ bars'[d].adj = case.alt.adj
  <2> HIDE DEF alt, case, day
  <2>1. \A d \in kept : /\ d \in Days /\ alt[d] # None /\ bars'[d] # None
                        /\ bars'[d].adj = alt[d].adj
    BY <1>1, <1>2, <1>3, UpsertRow
  <2> QED BY <1>2, <2>1
<1> HIDE DEF kept, alt, case, day
<1>6. /\ Acted /\ Adopted /\ ~(day < Ex) /\ \A d \in Days : bars[d] # None => bars[d].adj
  <2>1. bars[day].adj /\ Acted /\ Adopted
    BY <1>1 DEF BarsHold, Plain
  <2>2. ~(day < Ex)
    BY <1>1, DaysFinite, FeedAssumption
  <2> QED BY <1>1, <2>1, <2>2 DEF BarsHold, OnOneScale
<1>7. \A d \in Days : bars'[d] # None => bars'[d].adj /\ bars[d] # None
  BY <1>1, <1>4, <1>5, <1>6
<1>8. \A d \in Days : bars'[d] # None => Plain(d, bars'[d])
  <2>1. CASE day \in kept
    BY <1>1, <1>4, <1>5, <1>6, <1>7 DEF BarsHold, Plain
  <2>2. CASE day \notin kept
    BY <1>1, <1>4, <1>5, <2>2 DEF BarsHold
  <2> QED BY <2>1, <2>2
<1>9. BarsHold'
  <2>1. UNCHANGED <<now, adjusted>>
    BY <1>1 DEF feedVars
  <2> QED BY <1>7, <1>8, <2>1
          DEF BarsHold, OnOneScale, Plain, Acted, Adopted, Today, Published
<1>10. Banked(bars') = Banked(bars)
  BY <1>1, <1>4, <1>5, <1>7 DEF Banked
<1> QED BY <1>9, <1>10

-----------------------------------------------------------------------------
\* The calls.

LEMMA BankMoves ==
  ASSUME SeriesInv, NEW c \in Callers, Bank(c)
  PROVE  Unstamped(job'[c]) /\ job'[c].from = job[c].from
         /\ job'[c].pc \in {"stamping", "resolving"}
<1> DEFINE i == job[c]
           suspects == Newest(ResolveMax, Suspects(bars, rulings, i.rows, i.src, Today))
           todo == {[day |-> d, by |-> i.src] : d \in suspects}
           pc == IF suspects = {} THEN "stamping" ELSE "resolving"
           j == [i EXCEPT !.pc = pc, !.todo = todo]
<1>1. TypeInv /\ i \in Job /\ i.pc = "answered" /\ JobSound(bars, now, i)
  BY DEF SeriesInv, TypeInv, TypeOK, Bank
<1>2. job'[c] = j
  BY <1>1, JobMoved DEF Bank
<1>3. j.pc = pc /\ j.kind = i.kind /\ j.from = i.from
  <2> HIDE DEF i, todo, pc
  <2> QED BY <1>1 DEF Job
<1>4. pc \in {"stamping", "resolving"}
  OBVIOUS
<1> HIDE DEF suspects, todo, pc, j
<1>5. i.kind # "adjudicate"
  BY <1>1 DEF JobSound, Asked, Requested
<1> QED BY <1>2, <1>3, <1>4, <1>5 DEF Unstamped, Fetching, Resolving

\* A case that closes is no case.
LEMMA CloseMoves ==
  ASSUME NEW i \in Job
  PROVE  ~Requested(Close(i)) /\ ~InCase(Close(i))
<1> DEFINE pc == IF i.todo # {} THEN "resolving"
                 ELSE IF i.kind = "adjudicate" THEN "idle" ELSE "stamping"
<1>1. AfterCase(i).pc = pc
  <2>1. AfterCase(i) = [i EXCEPT !.case = None, !.pc = pc]
    BY DEF AfterCase
  <2> HIDE DEF pc
  <2> QED BY <2>1 DEF Job
<1>2. Close(i).pc \in {"idle", "resolving", "stamping"}
  BY <1>1 DEF Close, NoJob
<1> QED BY <1>2 DEF Requested, InCase

\* What leaves a call with a request under way, and what with a case.
LEMMA WhoMoves ==
  ASSUME SeriesInv, NEW c \in Callers, Callers = {c}, [Next]_vars
  PROVE  \/ UNCHANGED <<bars, job>>
         \/ /\ Requested(job'[c]) =>
                 \/ GetStep(c) \/ Rescan(c) \/ \E s \in Sources : Answer(c, s)
                 \/ RefetchTail(c) \/ RescanRepair(c)
            /\ InCase(job'[c]) =>
                 PickSuspect(c) \/ Rebank(c) \/ \E s \in Sources : SecondOpinion(c, s)
<1>1. TypeInv /\ job[c] \in Job
  BY DEF SeriesInv, TypeInv, TypeOK
<1>2. CASE Tick \/ Environment \/ UNCHANGED vars
  BY <1>2 DEF Tick, Environment, vars, storeVars
<1>3. ASSUME job' = [job EXCEPT ![c] = NoJob]
      PROVE  ~Requested(job'[c]) /\ ~InCase(job'[c])
  <2>1. job'[c] = NoJob /\ NoJob.pc = "idle"
    BY <1>1, <1>3, JobMoved DEF NoJob
  <2> QED BY <2>1 DEF Requested, InCase
<1>4. ASSUME job' = [job EXCEPT ![c] = Close(job[c])]
      PROVE  ~Requested(job'[c]) /\ ~InCase(job'[c])
  BY <1>1, <1>4, JobMoved, CloseMoves
<1>5. ASSUME Bank(c) PROVE ~Requested(job'[c]) /\ ~InCase(job'[c])
  BY <1>5, BankMoves DEF Requested, InCase
<1>6. ASSUME Stamp(c) PROVE ~Requested(job'[c]) /\ ~InCase(job'[c])
  <2> DEFINE j == [job[c] EXCEPT !.pc = "ledger"]
  <2>1. job' = [job EXCEPT ![c] = IF job[c].repair = {} THEN NoJob ELSE j]
    BY <1>6 DEF Stamp
  <2>2. j.pc = "ledger"
    BY <1>1 DEF Job
  <2> HIDE DEF j
  <2>3. CASE job[c].repair # {}
    <3>1. job'[c] = j
      BY <1>1, <2>1, <2>3, JobMoved
    <3> QED BY <2>2, <3>1 DEF Requested, InCase
  <2> QED BY <1>3, <2>1, <2>3
<1>7. Follows(job[c], job'[c]) \/ Bank(c) \/ Stamp(c) \/ Crash(c)
  BY <1>1, WhoFollows
<1>8. CASE /\ Requested(job'[c]) => Requested(job[c]) \/ job[c].pc = "idle"
           /\ InCase(job'[c]) => Resolving(job[c])
           /\ GetStep(c) \/ Rescan(c) \/ CallStep(c) \/ Crash(c)
  <2>1. ~(PickSuspect(c) \/ Rebank(c) \/ MarkRepaired(c)
          \/ \E s \in Sources : SecondOpinion(c, s)) \/ ~Requested(job'[c])
    BY <1>8 DEF PickSuspect, Rebank, MarkRepaired, SecondOpinion, Requested
  <2>2. ~(GetStep(c) \/ Rescan(c) \/ RefetchTail(c) \/ RescanRepair(c)
          \/ \E s \in Sources : Answer(c, s)) \/ ~InCase(job'[c])
    BY <1>8 DEF GetStep, ColdFetch, DeeperFetch, TopUp, SeamRepair, Rescan, Ask, Answer,
       RefetchTail, RescanRepair, Resolving
  <2>3. ASSUME Unavailable(c) \/ RescanAgrees(c) \/ MarkRepaired(c) \/ Crash(c)
        PROVE  ~Requested(job'[c]) /\ ~InCase(job'[c])
    BY <1>3, <2>3 DEF Unavailable, RescanAgrees, MarkRepaired, Crash
  <2>4. ASSUME PassOver(c) \/ Record(c) PROVE ~Requested(job'[c]) /\ ~InCase(job'[c])
    BY <1>4, <2>4 DEF PassOver, Record
  <2> QED BY <1>5, <1>6, <1>8, <2>1, <2>2, <2>3, <2>4, Zenon DEF CallStep
<1>9. ASSUME NEW dates \in SUBSET Days, Adjudicate(c, dates)
      PROVE  ~Requested(job'[c]) /\ ~InCase(job'[c])
  <2> DEFINE todo == {[day |-> d, by |-> bars[d].src] : d \in dates}
             j == [NoJob EXCEPT !.pc = "resolving", !.kind = "adjudicate",
                                !.began = now, !.todo = todo]
  <2>1. job' = [job EXCEPT ![c] = j]
    BY <1>9 DEF Adjudicate
  <2>2. j.pc = "resolving"
    <3> HIDE DEF todo
    <3> QED BY NoJobTyped DEF JobOK, Job
  <2> HIDE DEF j
  <2>3. job'[c] = j
    BY <1>1, <2>1, JobMoved
  <2> QED BY <2>2, <2>3 DEF Requested, InCase
<1>10. CASE Bank(c) \/ Stamp(c)
  BY <1>5, <1>6, <1>10
<1>11. CASE Crash(c)
  BY <1>3, <1>11 DEF Crash
<1> QED BY <1>2, <1>7, <1>8, <1>9, <1>10, <1>11 DEF Next, Follows

\* A ruling is made by Record, and none else.
LEMMA WhoRules ==
  ASSUME [Next]_vars
  PROVE  rulings' \in {rulings, NoRulings} \/ \E c \in Callers : Record(c)
<1>1. CASE Tick \/ Environment \/ UNCHANGED vars
  BY <1>1 DEF Tick, Environment, vars, storeVars
<1>2. ASSUME NEW c \in Callers, GetStep(c) \/ Rescan(c) \/ Crash(c)
      PROVE  rulings' \in {rulings, NoRulings}
  <2>1. ASSUME NEW lookback \in Lookbacks,
               \/ ColdFetch(c, lookback) \/ DeeperFetch(c, lookback)
               \/ TopUp(c, lookback)     \/ SeamRepair(c, lookback)
        PROVE  rulings' \in {rulings, NoRulings}
    BY <2>1 DEF ColdFetch, DeeperFetch, TopUp, SeamRepair, storeVars
  <2> QED BY <1>2, <2>1 DEF GetStep, Rescan, Crash, storeVars
<1>3. ASSUME NEW c \in Callers, NEW dates \in SUBSET Days, Adjudicate(c, dates)
      PROVE  rulings' \in {rulings, NoRulings}
  BY <1>3 DEF Adjudicate, storeVars
<1>4. ASSUME NEW c \in Callers, CallStep(c), ~Record(c)
      PROVE  rulings' \in {rulings, NoRulings}
  BY <1>4 DEF CallStep, Answer, Unavailable, RefetchTail, RescanAgrees, RescanRepair,
     Refetch, Bank, PickSuspect, SecondOpinion, PassOver, Rebank, Stamp, MarkRepaired,
     storeVars
<1> QED BY <1>1, <1>2, <1>3, <1>4 DEF Next

-----------------------------------------------------------------------------
\* The rulings, the floor, the cases, the windows and the answers.

LEMMA RulingsScale ==
  ASSUME NEW c \in Callers, Callers = {c}, ScaleInv(c), [Next]_vars
  PROVE  RulingsHold'
<1>1. CASE rulings' \in {rulings, NoRulings}
  BY <1>1 DEF ScaleInv, RulingsHold, NoRulings
<1>2. CASE Record(c)
  <2> DEFINE case == job[c].case
             ruling == [src |-> case.by, frag |-> IsFragment(case)]
  <2>1. rulings \in Rulings /\ case \in Case /\ RulingsHold
        /\ (IsFragment(case) => Ex <= case.day)
    BY <1>2 DEF ScaleInv, AloneInv, SeriesInv, TypeInv, TypeOK, JobOK, Record, CaseHolds
  <2>2. rulings' = [rulings EXCEPT ![case.day] = ruling]
    BY <1>2 DEF Record
  <2>3. ruling.frag = IsFragment(case)
    OBVIOUS
  <2> HIDE DEF ruling, case
  <2> QED BY <2>1, <2>2, <2>3 DEF RulingsHold, Rulings
<1> QED BY <1>1, <1>2, WhoRules

LEMMA FlooredGoesOn ==
  ASSUME Supported, Comparable, NEW c \in Callers, Callers = {c}, ScaleInv(c), [Next]_vars
  PROVE  Floored(job[c])'
<1>1. SeriesInv /\ TypeInv /\ AloneInv(c) /\ Floored(job[c]) /\ job[c] \in Job
  BY DEF ScaleInv, AloneInv, SeriesInv, TypeInv, TypeOK
<1>2. CASE Follows(job[c], job'[c]) /\ Banked(bars') = Banked(bars) /\ meta' = meta
  BY <1>1, <1>2 DEF Floored, Follows
<1>3. ASSUME Bank(c), meta' = meta PROVE Floored(job[c])'
  <2>1. /\ \A d \in Banked(bars') : d \in Banked(bars) \/ job[c].from <= d
        /\ Unstamped(job'[c]) /\ job'[c].from = job[c].from
    BY <1>1, <1>3, BankScale, BankMoves
  <2>2. ~Unstamped(job[c])
    BY <1>3 DEF Bank, Unstamped, Resolving
  <2> QED BY <1>1, <1>3, <2>1, <2>2 DEF Floored
<1>4. ASSUME Stamp(c), bars' = bars PROVE Floored(job[c])'
  <2>1. /\ meta' # None /\ meta'.floor \in Int
        /\ meta # None => meta.floor \in Int /\ meta'.floor <= meta.floor
    BY <1>1, <1>4, FloorGoesDown
  <2>2. meta'.floor <= job[c].from /\ job[c].from \in Int
    <3>1. meta'.floor = NewFloor(c)
      BY <1>4 DEF Stamp
    <3>2. job[c].from \in Int /\ job[c].floor \in Int \cup {None}
      BY <1>1 DEF Job
    <3> QED BY <2>1, <3>1, <3>2 DEF NewFloor, LeastOf
  <2>3. \A d \in Banked(bars) : d \in Int
    BY DaysFinite DEF Banked
  <2> QED BY <1>1, <1>4, <2>1, <2>2, <2>3 DEF Floored
<1>5. ASSUME Rebank(c), meta' = meta PROVE Floored(job[c])'
  BY <1>1, <1>2, <1>5, RebankScale, ResolutionFollows
<1>6. ~Crash(c)
  BY DEF Crash, Comparable
<1>7. CASE UNCHANGED <<bars, meta>>
  BY <1>1, <1>2, <1>3, <1>4, <1>6, <1>7, WhoFollows
<1> QED BY <1>3, <1>4, <1>5, <1>7, WhoWrites

\* A case of a date before the action is not of a fragment: what is thin there was
\* thinly traded.
LEMMA CaseScale ==
  ASSUME Supported, Comparable, AdoptedInTime, NEW c \in Callers, ScaleInv(c),
         \/ PickSuspect(c) \/ Rebank(c) \/ \E s \in Sources : SecondOpinion(c, s)
  PROVE  CaseHolds(job[c])'
<1>1. /\ TypeInv /\ job[c] \in Job /\ JobOK(job[c]) /\ JobSound(bars, now, job[c])
      /\ BarsHold /\ CaseHolds(job[c]) /\ FeedHolds /\ now \in Int
      /\ Ex \in Int /\ \A d \in Days : d \in Int
  BY DaysFinite, FeedAssumption
     DEF ScaleInv, AloneInv, SeriesInv, TypeInv, TypeOK, JobOK
<1>2. CASE PickSuspect(c)
  <2>1. PICK p \in job[c].todo :
          job' = [job EXCEPT ![c] = [@ EXCEPT
              !.pc = "asking", !.todo = job[c].todo \ {p},
              !.case = [day |-> p.day, by |-> p.by, alt |-> None, against |-> None,
                        thin |-> bars[p.day] # None /\ bars[p.day].thin]]]
    BY <1>2 DEF PickSuspect
  <2> DEFINE thin == bars[p.day] # None /\ bars[p.day].thin
             case == [day |-> p.day, by |-> p.by, alt |-> None, against |-> None,
                      thin |-> thin]
             j == [job[c] EXCEPT !.pc = "asking", !.todo = job[c].todo \ {p},
                                 !.case = case]
  <2>2. j.pc = "asking" /\ j.case = case
    <3> HIDE DEF case
    <3> QED BY <1>1 DEF Job
  <2>3. case.day = p.day /\ case.thin = thin
    <3> HIDE DEF thin
    <3> QED OBVIOUS
  <2>4. job'[c] = j
    <3>1. job' = [job EXCEPT ![c] = j]
      BY <2>1
    <3> HIDE DEF j
    <3> QED BY <1>1, <3>1, JobMoved
  <2>5. p.day \in Days
    BY <1>1 DEF Job, Pending
  <2>6. thin /\ p.day < Ex => p.day \in Quiet
    BY <1>1, <2>5, Zenon DEF BarsHold, Plain
  <2> HIDE DEF j, case, thin
  <2>7. j.case.thin /\ j.case.day < Ex => j.case.day \in Quiet
    BY <2>2, <2>3, <2>6
  <2> QED BY <2>2, <2>4, <2>7 DEF CaseHolds
<1>3. CASE Rebank(c)
  <2> DEFINE j == [job[c] EXCEPT !.pc = "recording"]
  <2>1. j.pc = "recording" /\ j.case = job[c].case
    BY <1>1 DEF Job
  <2>2. job'[c] = j
    <3>1. job' = [job EXCEPT ![c] = j]
      BY <1>3 DEF Rebank
    <3> HIDE DEF j
    <3> QED BY <1>1, <3>1, JobMoved
  <2>3. Ex <= job[c].case.day
    BY <1>1, <1>3 DEF Rebank, CaseHolds
  <2> HIDE DEF j
  <2> QED BY <2>1, <2>2, <2>3 DEF CaseHolds
<1>4. ASSUME NEW s \in Sources, SecondOpinion(c, s) PROVE CaseHolds(job[c])'
  <2> DEFINE day == job[c].case.day
             alt == Served(s, day)
             case == [job[c].case EXCEPT !.alt = alt, !.against = s]
             pc == IF IsFragment(case) THEN "rebanking" ELSE "recording"
             j == [job[c] EXCEPT !.pc = pc, !.case = case]
  <2>1. /\ job[c].case \in Case /\ day \in Days /\ job[c].pc = "asking" /\ alt # None
        /\ day < Today
    BY <1>1, <1>4 DEF SecondOpinion, JobOK, Case, JobSound, CasePast, InCase, Today
  <2>2. case.day = day /\ case.thin = job[c].case.thin /\ case.alt = alt
    <3> HIDE DEF alt
    <3> QED BY <2>1 DEF Case
  <2>3. j.pc = pc /\ j.case = case
    <3> HIDE DEF case, pc
    <3> QED BY <1>1 DEF Job
  <2>4. job'[c] = j
    <3>1. job' = [job EXCEPT ![c] = j]
      BY <1>4 DEF SecondOpinion
    <3> HIDE DEF j
    <3> QED BY <1>1, <3>1, JobMoved
  <2>5. /\ Plain(day, alt) /\ (alt.adj <=> Ex <= day \/ adjusted[s])
        /\ Traded(day) /\ (Published(day) <= now /\ day < Ex => alt.settled)
    <3>1. Traded(day)
      BY <1>1, <2>1, ServedSound
    <3> QED BY <1>1, <2>1, <3>1, ServedPlain
  <2>6. Published(day) <= now
    BY <1>1, <2>1, PastIsPublished DEF Today
  <2>7. IsFragment(case) => Ex <= day
    <3> SUFFICES ASSUME case.thin, ~case.alt.thin, day < Ex PROVE FALSE
      BY <1>1, <2>1 DEF IsFragment
    <3> HIDE DEF case, alt, day
    <3>1. job[c].case.thin /\ ~alt.thin
      BY <2>2
    <3>2. day \in Quiet
      BY <1>1, <2>1, <3>1 DEF CaseHolds, day
    <3>3. alt.settled
      BY <2>5, <2>6
    <3> QED BY <2>5, <3>1, <3>2, <3>3, Zenon DEF Plain
  <2>8. \/ pc = "rebanking" /\ Ex <= day
        \/ pc = "recording" /\ (IsFragment(case) => Ex <= day)
    BY <2>7
  <2> HIDE DEF j, pc, case, alt, day
  <2> QED BY <2>2, <2>3, <2>4, <2>5, <2>8 DEF CaseHolds
<1> QED BY <1>2, <1>3, <1>4

LEMMA AskWindow ==
  ASSUME SeriesInv, NEW c \in Callers, UNCHANGED bars,
         NEW kind \in {"get", "rescan"}, NEW start, NEW from, NEW floor, NEW tail,
         NEW repair, Ask(c, kind, start, from, floor, tail, repair),
         repair = {} /\ kind = "get" =>
           \/ tail /\ Banked(bars) # {} /\ from = TopUpFrom
           \/ \A e \in Banked(bars) : from <= e
  PROVE  Window(job[c])' /\ job'[c].pc # "answered"
<1>1. PICK j : /\ job' = [job EXCEPT ![c] = j]
               /\ j.pc = "asked" /\ j.kind = kind /\ j.end = Today /\ j.from = from
               /\ j.tail = tail /\ j.repair = repair
  BY AskedJob DEF SeriesInv
<1>2. job'[c] = j
  BY <1>1, JobMoved DEF SeriesInv
<1>3. \A e \in Banked(bars) : e <= j.end
  BY <1>1 DEF SeriesInv, StoreSound
<1>4. Banked(bars') = Banked(bars) /\ TopUpFrom' = TopUpFrom
  BY DEF TopUpFrom
<1> QED BY <1>1, <1>2, <1>3, <1>4 DEF Window

\* Where no answer is unstamped the floor bounds every bar, so a deeper fetch reads
\* them all again; a top-up overlaps; a repair reaches past them all (Reaches).
LEMMA GetWindow ==
  ASSUME NEW c \in Callers, ScaleInv(c), GetStep(c)
  PROVE  Window(job[c])' /\ job'[c].pc # "answered"
<1>1. /\ SeriesInv /\ TypeInv /\ Floored(job[c]) /\ Today \in Int
      /\ \A e \in Banked(bars) : e \in Int
  BY DayBounds, DaysFinite
     DEF ScaleInv, AloneInv, SeriesInv, TypeInv, TypeOK, Today, Banked
<1>2. PICK lookback \in Lookbacks :
        \/ ColdFetch(c, lookback) \/ DeeperFetch(c, lookback)
        \/ TopUp(c, lookback)     \/ SeamRepair(c, lookback)
  BY DEF GetStep
<1>3. lookback \in Int /\ Today - lookback \in Int /\ job[c].pc = "idle"
  BY <1>1, <1>2, CacheAssumption DEF ColdFetch, DeeperFetch, TopUp, SeamRepair, Ask
<1>4. CASE ColdFetch(c, lookback)
  <2>1. Ask(c, "get", Today - lookback, Today - lookback, None, FALSE, {})
        /\ Banked(bars) = {} /\ UNCHANGED bars
    BY <1>4 DEF ColdFetch, storeVars
  <2> QED BY <1>1, <2>1, AskWindow
<1>5. CASE DeeperFetch(c, lookback)
  <2>1. Ask(c, "get", Today - lookback, Today - lookback, Floor, FALSE, {})
        /\ Banked(bars) # {} /\ Deeper(lookback) /\ UNCHANGED bars
    BY <1>5 DEF DeeperFetch, storeVars
  <2>2. ~Unstamped(job[c])
    BY <1>3 DEF Unstamped, Fetching
  <2>3. \A e \in Banked(bars) : meta # None /\ meta.floor <= e
    BY <1>1, <2>2 DEF Floored
  <2>4. Floor = meta.floor /\ Floor \in Int
    BY <1>1, <2>1, <2>3, FloorTyped DEF Floor
  <2>5. \A e \in Banked(bars) : Today - lookback <= e
    BY <1>1, <1>3, <2>1, <2>3, <2>4 DEF Deeper
  <2> QED BY <1>1, <2>1, <2>5, AskWindow
<1>6. CASE TopUp(c, lookback)
  <2>1. Ask(c, "get", Today - lookback, TopUpFrom, Floor, TRUE, {})
        /\ Banked(bars) # {} /\ UNCHANGED bars
    BY <1>6 DEF TopUp, storeVars
  <2> QED BY <1>1, <2>1, AskWindow
<1>7. CASE SeamRepair(c, lookback)
  <2> DEFINE from == LeastOf(Today - lookback, Lo(bars) - Lead)
  <2>1. Ask(c, "get", Today - lookback, from, Floor, Behind, NewSeams)
        /\ NewSeams # {} /\ UNCHANGED bars
    BY <1>7 DEF SeamRepair, BrokenScale
  <2> HIDE DEF from
  <2> QED BY <1>1, <2>1, AskWindow
<1> QED BY <1>2, <1>4, <1>5, <1>6, <1>7

LEMMA RescanWindow ==
  ASSUME NEW c \in Callers, ScaleInv(c), Rescan(c)
  PROVE  Window(job[c])' /\ job'[c].pc # "answered"
<1> DEFINE start == IF Lo(bars) > Today - RescanLookback THEN Lo(bars)
                    ELSE Today - RescanLookback
<1>1. Ask(c, "rescan", start, start, None, FALSE, {}) /\ UNCHANGED bars
  BY DEF Rescan, storeVars
<1>2. SeriesInv
  BY DEF ScaleInv, AloneInv
<1> HIDE DEF start
<1> QED BY <1>1, <1>2, AskWindow

LEMMA RefetchWindow ==
  ASSUME NEW c \in Callers, ScaleInv(c), RefetchTail(c) \/ RescanRepair(c)
  PROVE  Window(job[c])' /\ job'[c].pc # "answered"
<1>1. PICK day : Refetch(c, day) /\ job[c].pc = "answered"
  BY DEF RefetchTail, RescanRepair
<1> DEFINE j == [job[c] EXCEPT !.pc = "asked", !.from = RepairFrom(c), !.repair = {day},
                               !.rows = NoRows, !.src = None]
<1>2. TypeInv /\ job[c] \in Job
  BY DEF ScaleInv, AloneInv, SeriesInv, TypeInv, TypeOK
<1>3. j.pc = "asked" /\ j.repair # {} /\ j.end = job[c].end
  BY <1>2 DEF Job
<1>4. job' = [job EXCEPT ![c] = j] /\ bars' = bars
  BY <1>1 DEF Refetch
<1> HIDE DEF j
<1>5. job'[c] = j
  BY <1>2, <1>4, JobMoved
<1>6. \A e \in Banked(bars) : e <= j.end
  BY <1>1, <1>3 DEF ScaleInv, Window, Requested
<1>7. Banked(bars') = Banked(bars)
  BY <1>4
<1> QED BY <1>3, <1>5, <1>6, <1>7 DEF Window

\* An answer of a source is on one scale with itself and with the bars of the action,
\* and has every session before the action whole once that day has come.
LEMMA ServedScale ==
  ASSUME Supported, Comparable, AdoptedInTime, TypeInv, FeedHolds, BarsHold,
         NEW s \in Sources, NEW j,
         \A d \in Days : j.rows[d] = IF j.from <= d /\ d <= j.end THEN Served(s, d) ELSE None
  PROVE  RowsHold(j)
<1>1. /\ now \in Int /\ Today \in Int /\ Ex \in Int /\ FirstDay \in Int
      /\ \A d \in Days : d \in Int /\ FirstDay <= d
  <2>1. \A d \in Days : d \in Int /\ FirstDay <= d
    BY FeedAssumption DEF Days
  <2> QED BY <2>1, DayBounds, FeedAssumption DEF TypeInv, TypeOK, Today
<1>2. ASSUME NEW d \in Days, j.rows[d] # None
      PROVE  /\ j.rows[d].adj <=> Ex <= d \/ adjusted[s]
             /\ Plain(d, j.rows[d]) /\ (Ex <= d => Adopted)
  BY <1>2, ServedPlain DEF Plain
<1>3. Adopted => \A d \in Days : Ex <= d \/ adjusted[s]
  BY <1>1 DEF Adopted
<1>4. OnOneScale(j.rows)
  BY <1>2, <1>3 DEF OnOneScale
<1>5. \A d, e \in Days : bars[d] # None /\ Ex <= d /\ j.rows[e] # None => j.rows[e].adj
  BY <1>2, <1>3 DEF BarsHold, Plain
<1>6. CASE ~Acted
  <2>1. \A d \in Days : /\ bars[d] # None => ~bars[d].adj
                        /\ j.rows[d] # None => ~j.rows[d].adj
    BY <1>2, <1>6 DEF BarsHold, Plain
  <2> QED BY <1>2, <1>4, <1>5, <2>1 DEF RowsHold
<1>7. CASE Acted
  <2>1. ASSUME NEW d \in Days, Traded(d), j.from <= d, d <= j.end, d < Ex
        PROVE  j.rows[d] # None /\ j.rows[d].settled
    <3>1. d < Today
      BY <1>1, <1>7, <2>1 DEF Acted
    <3>2. Published(d) <= now
      BY <1>1, <3>1, PastIsPublished DEF Today
    <3> QED BY <2>1, <3>2, ServedPlain
  <2> QED BY <1>2, <1>4, <1>5, <1>7, <2>1 DEF RowsHold
<1> QED BY <1>6, <1>7

LEMMA AnswerScale ==
  ASSUME Supported, Comparable, AdoptedInTime, NEW c \in Callers, ScaleInv(c),
         NEW s \in Sources, Answer(c, s)
  PROVE  Window(job[c])' /\ RowsHold(job[c])'
<1> DEFINE rows == ServedRange(s, job[c].from, job[c].end)
           j == [job[c] EXCEPT !.pc = "answered", !.rows = rows, !.src = s]
<1>1. /\ TypeInv /\ job[c] \in Job /\ job[c].pc = "asked" /\ FeedHolds /\ BarsHold
      /\ Window(job[c]) /\ UNCHANGED feedVars /\ bars' = bars
  BY DEF ScaleInv, AloneInv, SeriesInv, TypeInv, TypeOK, Answer, storeVars
<1>2. job' = [job EXCEPT ![c] = j]
  BY DEF Answer, Supported
<1>3. /\ j.rows = rows /\ j.from = job[c].from /\ j.end = job[c].end
      /\ j.kind = job[c].kind /\ j.tail = job[c].tail /\ j.repair = job[c].repair
  <2> HIDE DEF rows
  <2> QED BY <1>1 DEF Job
<1>4. \A d \in Days : j.rows[d] = IF j.from <= d /\ d <= j.end THEN Served(s, d) ELSE None
  <2> HIDE DEF j
  <2> QED BY <1>3 DEF ServedRange
<1> HIDE DEF j, rows
<1>5. job'[c] = j
  BY <1>1, <1>2, JobMoved
<1>6. RowsHold(j)
  BY <1>1, <1>4, ServedScale
<1>7. RowsHold(job[c])'
  <2>1. UNCHANGED <<now, adjusted>>
    BY <1>1 DEF feedVars
  <2> QED BY <1>1, <1>5, <1>6, <2>1
          DEF RowsHold, OnOneScale, Plain, Acted, Adopted, Today, Published
<1>8. Window(job[c])'
  <2>1. Banked(bars') = Banked(bars) /\ TopUpFrom' = TopUpFrom
    BY <1>1 DEF TopUpFrom
  <2> QED BY <1>1, <1>3, <1>5, <2>1 DEF Window, Requested
<1> QED BY <1>7, <1>8

\* Time and the feeds leave what is said of the bars and of a call as it was.
LEMMA PlainGoesOn ==
  ASSUME SeriesInv, SeriesInv', FeedHolds, [Next]_vars
  PROVE  /\ Acted => Acted'
         /\ Adopted => Adopted'
         /\ \A d \in Days : Published(d) <= now => Published(d) <= now'
<1>1. /\ Acted => Acted'
      /\ Adopted => Adopted'
      /\ now \in Int /\ now' \in Int /\ now <= now'
  BY FeedGoesOn DEF SeriesInv, TypeInv, TypeOK
<1>2. \A d \in Days : Published(d) \in Int
  <2>1. \A d \in Days : d * SlotsPerDay \in Int
    BY DaysFinite, ClockAssumption
  <2> QED BY <2>1, ClockAssumption, FeedAssumption DEF Published
<1>3. ASSUME NEW d \in Days, Published(d) <= now PROVE Published(d) <= now'
  BY <1>1, <1>2, <1>3
<1> QED BY <1>1, <1>3

LEMMA BarsLeftAlone ==
  ASSUME SeriesInv, SeriesInv', FeedHolds, BarsHold, [Next]_vars, UNCHANGED bars
  PROVE  BarsHold'
BY PlainGoesOn DEF BarsHold, OnOneScale, Plain, Published

LEMMA JobLeftAlone ==
  ASSUME NEW c \in Callers, ScaleInv(c), SeriesInv, SeriesInv', [Next]_vars,
         UNCHANGED <<bars, job>>
  PROVE  /\ (job[c].pc = "answered" => RowsHold(job[c]))'
         /\ Window(job[c])' /\ CaseHolds(job[c])'
<1>1. (job[c].pc = "answered" => RowsHold(job[c]))'
  BY PlainGoesOn DEF ScaleInv, RowsHold, OnOneScale, Plain, Published
<1>2. Window(job[c])' /\ CaseHolds(job[c])'
  <2>1. Banked(bars') = Banked(bars) /\ TopUpFrom' = TopUpFrom
    BY DEF TopUpFrom
  <2> QED BY <2>1 DEF ScaleInv, Window, Requested, CaseHolds
<1> QED BY <1>1, <1>2

LEMMA NextScale ==
  ASSUME Supported, Comparable, AdoptedInTime, NEW c \in Callers, Callers = {c},
         ScaleInv(c), [Next]_vars
  PROVE  ScaleInv(c)'
<1>1. /\ AloneInv(c) /\ AloneInv(c)' /\ SeriesInv /\ SeriesInv' /\ FeedHolds /\ TypeInv
  BY NextAlone DEF ScaleInv, AloneInv, SeriesInv
<1>2. FeedHolds' /\ RulingsHold' /\ Floored(job[c])'
  BY <1>1, FeedGoesOn, RulingsScale, FlooredGoesOn
<1>3. BarsHold'
  <2>1. Bank(c) \/ Rebank(c) => BarsHold'
    BY BankScale, RebankScale
  <2>2. UNCHANGED bars => BarsHold'
    BY <1>1, BarsLeftAlone DEF ScaleInv
  <2> QED BY <2>1, <2>2, WhoWrites
<1> SUFFICES /\ (job[c].pc = "answered" => RowsHold(job[c]))'
             /\ Window(job[c])' /\ CaseHolds(job[c])'
  BY <1>1, <1>2, <1>3 DEF ScaleInv
<1>4. CASE UNCHANGED <<bars, job>>
  BY <1>1, <1>4, JobLeftAlone
<1>5. CASE Requested(job'[c]) /\ (GetStep(c) \/ Rescan(c) \/ RefetchTail(c) \/ RescanRepair(c))
  BY <1>5, GetWindow, RescanWindow, RefetchWindow DEF Requested, CaseHolds
<1>6. CASE Requested(job'[c]) /\ \E s \in Sources : Answer(c, s)
  BY <1>6, AnswerScale DEF Requested, CaseHolds
<1>7. CASE /\ InCase(job'[c])
           /\ PickSuspect(c) \/ Rebank(c) \/ \E s \in Sources : SecondOpinion(c, s)
  BY <1>7, CaseScale DEF InCase, Requested, Window
<1>8. CASE ~Requested(job'[c]) /\ ~InCase(job'[c])
  BY <1>8 DEF Requested, InCase, Window, CaseHolds
<1> QED BY <1>1, <1>4, <1>5, <1>6, <1>7, <1>8, WhoMoves

LEMMA InitScale ==
  ASSUME Supported, Init, NEW c \in Callers
  PROVE  ScaleInv(c)
<1>1. /\ SeriesInv /\ job[c].pc = "idle" /\ meta = None
      /\ \A d \in Days : bars[d] = None /\ rulings[d] = None
      /\ \A s \in Sources : adjusted[s] = FALSE /\ frag[s] = {}
  BY InitSeries DEF Init, FeedInit, NoJob, NoBars, NoRulings
<1>2. AloneInv(c)
  BY <1>1 DEF AloneInv, FloorKept, Fetching, Reaches, Requested
<1>3. FeedHolds /\ BarsHold /\ RulingsHold
  BY <1>1 DEF FeedHolds, BarsHold, OnOneScale, RulingsHold
<1>4. Window(job[c]) /\ Floored(job[c]) /\ CaseHolds(job[c])
  BY <1>1 DEF Window, Requested, Floored, Banked, CaseHolds
<1> QED BY <1>1, <1>2, <1>3, <1>4 DEF ScaleInv

\* The bars of a store that one caller keeps, and that no death interrupts, are on one
\* scale through a corporate action, whichever source serves which of them, whenever
\* each adjusts its history and however deep a window is asked for: what a top-up does
\* not re-read agrees with the overlap, and the rest is re-read (find_rescale before
\* upsert_ohlcv, SEAM_REPAIR_LEAD_DAYS, the floor of set_meta).
THEOREM SeriesOnOneScale ==
  ASSUME Supported, Comparable, NEW o \in Callers, Callers = {o}
  PROVE  Spec /\ []AdoptedInTime => []OneScale
<1>1. Init => ScaleInv(o)
  BY InitScale
<1>2. ScaleInv(o) /\ AdoptedInTime /\ [Next]_vars => ScaleInv(o)'
  BY NextScale
<1>3. ScaleInv(o) => OneScale
  <2> SUFFICES ASSUME ScaleInv(o), NEW d \in Banked(bars), NEW e \in Banked(bars)
               PROVE  bars[d].adj = bars[e].adj
    BY DEF OneScale
  <2>1. d \in Days /\ e \in Days /\ bars[d] \in Bar /\ bars[e] \in Bar
        /\ bars[d] # None /\ bars[e] # None
    BY DEF ScaleInv, AloneInv, SeriesInv, TypeInv, TypeOK, Bars, Banked
  <2>2. bars[d].adj <=> bars[e].adj
    BY <2>1 DEF ScaleInv, BarsHold, OnOneScale
  <2> QED BY <2>1, <2>2 DEF Bar
<1> QED BY <1>1, <1>2, <1>3, PTL DEF Spec

\* Sources that have all adjusted before the ex-date's session opens do so in time.
LEMMA EarlyAdoptersAreInTime ==
  ASSUME Ex <= FirstDay \/ (Start <= AdoptBy /\ AdoptBy < Ex * SlotsPerDay + OpenSlot)
  PROVE  Spec => []AdoptedInTime
<1> DEFINE Opened(d) == d * SlotsPerDay + OpenSlot <= now
           Bound == Adopted \/ now <= AdoptBy
           Dated == \A s \in Sources : \A d \in frag[s] : Opened(d)
           Inv == TypeInv /\ Bound /\ Dated
<1>1. /\ SlotsPerDay \in Nat \ {0} /\ OpenSlot \in Nat /\ CloseSlot \in Nat
      /\ OpenSlot < CloseSlot /\ PublishLag \in Nat /\ Ex \in Int /\ AdoptBy \in Int
      /\ \A d \in Days : d \in Int /\ d * SlotsPerDay \in Int
      /\ Ex * SlotsPerDay \in Int
  BY DaysFinite, ClockAssumption, FeedAssumption
<1>2. Init => Inv
  BY InitTyped DEF Init, FeedInit, Adopted
<1>3. Inv /\ [Next]_vars => Inv'
  <2> SUFFICES ASSUME Inv, [Next]_vars PROVE Inv'
    OBVIOUS
  <2>1. /\ TypeInv' /\ now \in Int /\ now' \in Int /\ now <= now'
        /\ frag \in [Sources -> SUBSET Days] /\ adjusted \in [Sources -> BOOLEAN]
    <3>1. TypeInv /\ TypeInv'
      BY NextTyped
    <3> QED BY <3>1, TimeGoesOn DEF TypeInv, TypeOK
  <2>2. Adopted => Adopted'
    BY <2>1, WhoFeeds DEF Truncate, Adjust, Settle, Adopted
  <2>3. now' = now \/ Tick
    BY DEF Next, Environment, FeedStep, Truncate, Adjust, Settle, vars, feedVars, GetStep,
       ColdFetch, DeeperFetch, TopUp, SeamRepair, Rescan, Adjudicate, Crash, CallStep,
       Answer, Unavailable, RefetchTail, RescanAgrees, RescanRepair, Refetch, Bank,
       PickSuspect, SecondOpinion, PassOver, Rebank, Record, Stamp, MarkRepaired
  <2>4. Bound'
    <3>1. Tick => Adopted \/ now' <= AdoptBy
      BY <1>1, <2>1 DEF Tick, MayPass, Adopted
    <3> QED BY <2>2, <2>3, <3>1
  <2>5. Dated'
    <3>1. ASSUME NEW s \in Sources, Truncate(s) PROVE Opened(Today)
      <4>1. now = Today * SlotsPerDay + Slot(now) /\ Today * SlotsPerDay \in Int
            /\ Slot(now) \in Int
        BY <1>1, <2>1 DEF Today, Day, Slot
      <4> QED BY <1>1, <3>1, <4>1 DEF Truncate
    <3>2. ASSUME NEW r \in Sources, NEW d \in frag'[r] PROVE Opened(d)
      <4>1. d \in frag[r] \/ (d = Today /\ \E s \in Sources : Truncate(s))
        BY <2>1, <3>2, WhoFeeds DEF Truncate, Adjust, Settle
      <4> QED BY <3>1, <4>1
    <3>3. ASSUME NEW r \in Sources, NEW d \in frag'[r]
          PROVE  d * SlotsPerDay + OpenSlot <= now'
      <4>1. d \in Days
        BY <2>1, <3>3 DEF TypeInv, TypeOK
      <4> QED BY <1>1, <2>1, <3>2, <3>3, <4>1
    <3> QED BY <3>3
  <2> QED BY <2>1, <2>4, <2>5
<1>4. Inv => AdoptedInTime
  <2> SUFFICES ASSUME Inv, NEW s \in Sources, NEW d \in Days, Ex <= d, Served(s, d) # None
               PROVE  Adopted
    BY DEF AdoptedInTime
  <2>1. now \in Int /\ Published(d) \in Int
    BY <1>1 DEF TypeInv, TypeOK, Published
  <2>2. Opened(d)
    <3>1. CASE d \in frag[s]
      BY <3>1
    <3>2. CASE now >= Published(d)
      BY <1>1, <2>1, <3>2 DEF Published
    <3>3. CASE d \notin frag[s] /\ ~(now >= Published(d)) /\ ~(now >= d * SlotsPerDay + OpenSlot)
      BY <3>3 DEF Served
    <3> QED BY <1>1, <2>1, <3>1, <3>2, <3>3
  <2>3. CASE Ex <= FirstDay
    BY <2>3 DEF Adopted
  <2>4. CASE AdoptBy < Ex * SlotsPerDay + OpenSlot
    <3>1. Ex * SlotsPerDay <= d * SlotsPerDay
      <4>1. CASE Ex < d
        BY <1>1, <4>1, DaysApart
      <4>2. CASE Ex = d
        BY <1>1, <4>2
      <4> QED BY <1>1, <4>1, <4>2
    <3>2. AdoptBy < now
      BY <1>1, <2>1, <2>2, <2>4, <3>1
    <3> QED BY <1>1, <2>1, <3>2
  <2> QED BY <2>3, <2>4
<1> HIDE DEF Inv
<1> QED BY <1>2, <1>3, <1>4, PTL DEF Spec
=============================================================================
