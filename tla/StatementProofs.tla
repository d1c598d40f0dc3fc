--------------------------- MODULE StatementProofs ---------------------------
(***************************************************************************)
(* Theorems about StatementArchive, for any number of processes, sections, *)
(* labels and any window: it implements PeriodArchive, and while the       *)
(* source's answers can be read it blanks no figure of a period served.    *)
(***************************************************************************)
EXTENDS StatementArchiveMC, FiniteSetTheorems, TLAPS

\* What was read section by section: no more than is filed, and no section older
\* than the income line.
Read(figures) ==
  \A s \in Sections : \A l \in Labels :
    /\ figures[s][l] <= filed[l]
    /\ figures[s][l] = 0 \/ figures[1][l] <= figures[s][l]

\* A payload in the making is figures, and empty until the income lines are read.
Making ==
  \A p \in Processes :
    /\ proc[p].pc = "migrating" => proc[p].payload # None
    /\ proc[p].pc = "asked" =>
         /\ proc[p].payload # None /\ proc[p].read < NSections
         /\ proc[p].read = 0 => proc[p].payload = NoFigures

ReadInv ==
  /\ TypeOK /\ Making
  /\ Read(archive)
  /\ cache # None /\ cache.payload # None => Read(cache.payload)
  /\ \A p \in Processes : proc[p].payload # None => Read(proc[p].payload)
-----------------------------------------------------------------------------
\* The operators, typed.

LEMMA SectionsTyped ==
  /\ 1 \in Sections /\ Sections \subseteq Int /\ Labels \subseteq Int
  /\ Revision \subseteq Int /\ 0 \in Revision /\ NoLines \in Lines
  /\ NoFigures \in Figures /\ NSections \in Nat
BY StatementAssumption
   DEF Sections, Labels, Revision, NoLines, NoFigures, Lines, Figures

LEMMA ProcTyped ==
  /\ Down \in Proc /\ Idle \in Proc
  /\ Down.pc = "down" /\ Down.payload = None /\ Down.read = 0
  /\ Idle.pc = "idle" /\ Idle.payload = None /\ Idle.read = 0
BY SectionsTyped DEF Down, Idle, Proc, PCs

LEMMA BankedTyped ==
  ASSUME TypeOK, NEW payload \in Figures
  PROVE  Banked(payload) \in Figures
BY SectionsTyped DEF TypeOK, Banked, Figures, Lines

\* What a section request is answered with is filed; what it is not, is left out.
LEMMA AnswersTyped ==
  ASSUME TypeOK, NEW lines \in Answers
  PROVE  /\ lines \in Lines
         /\ \A l \in Labels : lines[l] = 0 \/ lines[l] = filed[l]
BY SectionsTyped DEF TypeOK, Answers, Served, Within, NoLines, Lines

LEMMA FiledGrows ==
  ASSUME ReadInv, TypeOK', NEW l \in Labels, File(l) \/ Restate(l)
  PROVE  /\ \A m \in Labels : filed[m] <= filed'[m]
         /\ \A figures \in Figures : Read(figures) => Read(figures)'
<1>0. /\ filed \in [Labels -> Revision] /\ filed' \in [Labels -> Revision]
      /\ filed' = [filed EXCEPT ![l] = 1] \/ filed' = [filed EXCEPT ![l] = 2]
      /\ filed[l] = 0 \/ filed[l] = 1
      /\ filed[l] = 1 => filed' = [filed EXCEPT ![l] = 2]
  BY DEF ReadInv, TypeOK, File, Restate, Lines
<1>1. \A m \in Labels : filed[m] \in Int /\ filed'[m] \in Int /\ filed[m] <= filed'[m]
  BY <1>0, SectionsTyped DEF Revision
<1>2. ASSUME NEW figures \in Figures, Read(figures) PROVE Read(figures)'
  <2>1. \A s \in Sections : \A m \in Labels : figures[s][m] \in Int
    BY SectionsTyped DEF Figures, Lines
  <2> QED BY <1>1, <1>2, <2>1 DEF Read
<1> QED BY <1>1, <1>2
-----------------------------------------------------------------------------
\* ReadInv is inductive.

LEMMA InitRead == Init => TypeOK /\ ReadInv
<1> SUFFICES ASSUME Init PROVE TypeOK /\ ReadInv
  OBVIOUS
<1>1. filed \in Lines /\ archive \in Figures /\ archive = NoFigures
  BY SectionsTyped DEF Init, Lines, Revision
<1>2. Served \in Lines /\ \A l \in Labels : Served[l] = 0 \/ Served[l] = filed[l]
  BY <1>1, SectionsTyped DEF Served, Within, Lines
<1>3. cache # None => /\ cache \in [payload : Figures, fetched : {0}]
                      /\ cache.payload = [s \in Sections |-> Served]
  BY <1>2 DEF Init, Figures
<1>4. proc \in [Processes -> Proc] /\ \A p \in Processes : proc[p] = Down
  BY ProcTyped DEF Init
<1>5. TypeOK
  BY <1>1, <1>3, <1>4 DEF TypeOK, Init
<1>6. Read(archive)
  BY <1>1, SectionsTyped DEF Read, NoFigures, NoLines, Lines, Revision
<1>7. cache # None => Read(cache.payload)
  <2>1. \A l \in Labels : filed[l] \in Int /\ filed[l] >= 0
    BY <1>1, SectionsTyped DEF Lines, Revision
  <2> QED BY <1>2, <1>3, <2>1, SectionsTyped DEF Read
<1> QED BY <1>4, <1>5, <1>6, <1>7, ProcTyped DEF ReadInv, Making

\* The payload of a process whose section request is answered.
LEMMA SectionRead ==
  ASSUME ReadInv, NEW p \in Processes, proc[p].pc = "asked",
         NEW lines \in Answers
  PROVE  LET payload == [proc[p].payload EXCEPT ![proc[p].read + 1] = InPeriods(p, lines)]
         IN payload \in Figures /\ Read(payload)
<1> DEFINE old == proc[p].payload
           next == proc[p].read + 1
           seen == InPeriods(p, lines)
           payload == [old EXCEPT ![next] = seen]
<1>1. /\ old \in Figures /\ proc[p].read \in 0 .. NSections /\ proc[p].read < NSections
      /\ Read(old) /\ (proc[p].read = 0 => old = NoFigures)
  BY DEF ReadInv, TypeOK, Proc, Making
<1>2. next \in Sections /\ (next = 1 <=> proc[p].read = 0)
  BY <1>1, SectionsTyped DEF Sections
<1>3. /\ lines \in Lines /\ filed \in Lines
      /\ \A l \in Labels : lines[l] = 0 \/ lines[l] = filed[l]
  BY AnswersTyped DEF ReadInv, TypeOK
<1>4. seen \in Lines /\ \A l \in Labels : seen[l] = 0 \/ seen[l] = filed[l]
  BY <1>3, SectionsTyped DEF InPeriods, Within, Lines
<1>5. /\ payload \in Figures /\ payload[next] = seen
      /\ \A s \in Sections : s # next => payload[s] = old[s]
  BY <1>1, <1>2, <1>4 DEF Figures
<1>6. ASSUME NEW s \in Sections, NEW l \in Labels
      PROVE  /\ payload[s][l] <= filed[l]
             /\ payload[s][l] = 0 \/ payload[1][l] <= payload[s][l]
  <2>1. /\ filed[l] \in Revision /\ seen[l] \in Revision
        /\ old[s][l] \in Revision /\ old[1][l] \in Revision
    BY <1>1, <1>3, <1>4, SectionsTyped DEF Figures, Lines
  <2>2. /\ old[s][l] <= filed[l] /\ old[1][l] <= filed[l]
        /\ old[s][l] = 0 \/ old[1][l] <= old[s][l]
    BY <1>1, SectionsTyped DEF Read
  <2>3. CASE next = 1
    <3>1. old[s][l] = 0
      BY <1>1, <1>2, <2>3 DEF NoFigures, NoLines
    <3>2. payload[1][l] = seen[l] /\ (s # 1 => payload[s][l] = 0)
      BY <1>5, <2>3, <3>1
    <3> QED BY <1>4, <2>1, <3>2 DEF Revision
  <2>4. CASE next # 1
    <3>1. /\ payload[1][l] = old[1][l]
          /\ payload[s][l] = IF s = next THEN seen[l] ELSE old[s][l]
      BY <1>5, <2>4, SectionsTyped
    <3> QED BY <1>4, <2>1, <2>2, <3>1 DEF Revision
  <2> QED BY <2>3, <2>4
<1> QED BY <1>5, <1>6 DEF Read

\* Only the payload in hand, which is read, is ever banked or cached.
LEMMA BankedRead ==
  ASSUME ReadInv, NEW payload \in Figures, Read(payload)
  PROVE  Banked(payload) \in Figures /\ Read(Banked(payload))
<1>1. Banked(payload) \in Figures
  BY BankedTyped DEF ReadInv
<1>2. \A s \in Sections : \A l \in Labels :
        Banked(payload)[s][l] = IF l \in Periods(payload) THEN payload[s][l]
                                ELSE archive[s][l]
  BY DEF Banked
<1>3. Read(archive)
  BY DEF ReadInv
<1> QED BY <1>1, <1>2, <1>3, SectionsTyped DEF Read

\* One process moves and what is filed stays: the store is given what is read, and
\* the process goes on with what is read.
LEMMA MoveRead ==
  ASSUME ReadInv, NEW p \in Processes, NEW q \in Proc,
         UNCHANGED <<now, filed, filedAt>>,
         proc' = [proc EXCEPT ![p] = q],
         q.payload # None => Read(q.payload),
         q.pc = "migrating" => q.payload # None,
         q.pc = "asked" => /\ q.payload # None /\ q.read < NSections
                           /\ q.read = 0 => q.payload = NoFigures,
         archive' \in Figures, Read(archive'),
         cache' \in [payload : Figures \cup {None}, fetched : Int] \cup {None},
         cache' # None /\ cache'.payload # None => Read(cache'.payload)
  PROVE  ReadInv'
<1>1. /\ proc' \in [Processes -> Proc] /\ proc'[p] = q
      /\ \A o \in Processes : o # p => proc'[o] = proc[o]
  BY DEF ReadInv, TypeOK
<1>2. TypeOK'
  BY <1>1 DEF ReadInv, TypeOK
<1>3. Making'
  BY <1>1 DEF ReadInv, Making
<1>4. \A figures : Read(figures) => Read(figures)'
  BY DEF Read
<1>5. Read(archive)' /\ (cache' # None /\ cache'.payload # None => Read(cache.payload)')
  BY DEF Read
<1>6. \A o \in Processes : proc'[o].payload # None => Read(proc[o].payload)'
  <2> TAKE o \in Processes
  <2>1. proc'[o].payload # None => Read(proc'[o].payload)
    BY <1>1 DEF ReadInv
  <2> QED BY <2>1 DEF Read
<1> QED BY <1>2, <1>3, <1>5, <1>6 DEF ReadInv

\* A process that drops what it had in hand, or the cache, as it is.
LEMMA ResetRead ==
  ASSUME ReadInv, NEW p \in Processes, NEW q \in {Down, Idle},
         proc' = [proc EXCEPT ![p] = q],
         UNCHANGED <<now, filed, filedAt, cache, archive>>
  PROVE  ReadInv'
<1>1. q \in Proc /\ q.payload = None /\ q.pc \in {"down", "idle"}
  BY ProcTyped
<1>2. /\ archive' \in Figures /\ Read(archive')
      /\ cache' \in [payload : Figures \cup {None}, fetched : Int] \cup {None}
      /\ cache' # None /\ cache'.payload # None => Read(cache'.payload)
  BY DEF ReadInv, TypeOK
<1> QED BY <1>1, <1>2, MoveRead

LEMMA ConnectRead ==
  ASSUME ReadInv, NEW p \in Processes, Connect(p)
  PROVE  ReadInv'
<1>1. CASE BackfillDue
  <2> DEFINE q == [Down EXCEPT !.pc = "migrating", !.payload = cache.payload]
  <2>1. cache.payload \in Figures /\ Read(cache.payload)
    BY <1>1 DEF BackfillDue, ReadInv, TypeOK
  <2>2. /\ q \in Proc /\ q.pc = "migrating" /\ q.payload = cache.payload
    BY <2>1, ProcTyped DEF Proc, PCs
  <2>3. cache.payload # None
    BY <1>1 DEF BackfillDue
  <2>4. proc' = [proc EXCEPT ![p] = q] /\ UNCHANGED <<now, filed, filedAt, cache, archive>>
    BY <1>1 DEF Connect
  <2>5. /\ archive' \in Figures /\ Read(archive')
        /\ cache' \in [payload : Figures \cup {None}, fetched : Int] \cup {None}
        /\ cache' # None /\ cache'.payload # None => Read(cache'.payload)
    BY <2>4 DEF ReadInv, TypeOK
  <2> HIDE DEF q
  <2> QED BY <2>1, <2>2, <2>3, <2>4, <2>5, MoveRead
<1>2. CASE ~BackfillDue
  BY <1>2, ResetRead DEF Connect
<1> QED BY <1>1, <1>2

\* A new call asks for the income lines first, or reads the archive at once.
LEMMA CallRead ==
  ASSUME ReadInv, NEW p \in Processes,
         CallFresh(p) \/ \E kind \in {"statements", "history"} : CallStale(p, kind)
  PROVE  ReadInv'
<1>0. /\ archive' \in Figures /\ Read(archive')
      /\ cache' \in [payload : Figures \cup {None}, fetched : Int] \cup {None}
      /\ cache' # None /\ cache'.payload # None => Read(cache'.payload)
      /\ UNCHANGED <<now, filed, filedAt>> /\ now \in Int
  BY DEF ReadInv, TypeOK, CallFresh, CallStale
<1>1. CASE CallFresh(p)
  <2> DEFINE q == [Down EXCEPT !.pc = "reading", !.kind = "history",
                               !.payload = cache.payload, !.began = now]
  <2>1. /\ cache.payload \in Figures \cup {None}
        /\ cache.payload # None => Read(cache.payload)
    BY <1>1 DEF CallFresh, Fresh, ReadInv, TypeOK
  <2>2. q \in Proc /\ q.pc = "reading" /\ q.payload = cache.payload
    BY <1>0, <2>1, ProcTyped DEF Proc, PCs
  <2>3. proc' = [proc EXCEPT ![p] = q]
    BY <1>1 DEF CallFresh
  <2> HIDE DEF q
  <2> QED BY <1>0, <2>1, <2>2, <2>3, MoveRead
<1>2. ASSUME NEW kind \in {"statements", "history"}, CallStale(p, kind) PROVE ReadInv'
  <2> DEFINE q == [Down EXCEPT !.pc = "asked", !.kind = kind,
                               !.payload = NoFigures, !.began = now]
  <2>1. /\ q \in Proc /\ q.pc = "asked" /\ q.payload = NoFigures /\ q.read = 0
    BY <1>0, ProcTyped, SectionsTyped DEF Proc, PCs
  <2>2. NoFigures # None /\ 0 < NSections
    BY StatementAssumption, SectionsTyped
  <2>3. Read(NoFigures)
    <3>1. filed \in Lines
      BY DEF ReadInv, TypeOK
    <3> QED BY <3>1, SectionsTyped DEF Read, NoFigures, NoLines, Lines, Revision
  <2>4. proc' = [proc EXCEPT ![p] = q]
    BY <1>2 DEF CallStale
  <2> HIDE DEF q
  <2> QED BY <1>0, <2>1, <2>2, <2>3, <2>4, MoveRead
<1> QED BY <1>1, <1>2

LEMMA AskRead ==
  ASSUME ReadInv, NEW p \in Processes, ReadSection(p) \/ NoStatements(p)
  PROVE  ReadInv'
<1>0. /\ archive' \in Figures /\ Read(archive')
      /\ cache' \in [payload : Figures \cup {None}, fetched : Int] \cup {None}
      /\ cache' # None /\ cache'.payload # None => Read(cache'.payload)
      /\ UNCHANGED <<now, filed, filedAt>> /\ proc[p] \in Proc
  BY DEF ReadInv, TypeOK, ReadSection, NoStatements
<1>1. CASE NoStatements(p)
  <2> DEFINE q == [proc[p] EXCEPT !.pc = "answered", !.payload = None]
  <2>1. q \in Proc /\ q.pc = "answered" /\ q.payload = None
    BY <1>0 DEF Proc, PCs
  <2>2. proc' = [proc EXCEPT ![p] = q]
    BY <1>1 DEF NoStatements
  <2> HIDE DEF q
  <2> QED BY <1>0, <2>1, <2>2, MoveRead
<1>2. CASE ReadSection(p)
  <2> DEFINE next == proc[p].read + 1
             made(lines) == [proc[p].payload EXCEPT ![next] = InPeriods(p, lines)]
             pc == IF next = NSections THEN "answered" ELSE "asked"
             read == IF next = NSections THEN 0 ELSE next
             q(payload) == [proc[p] EXCEPT !.payload = payload, !.pc = pc, !.read = read]
  <2>1. PICK lines \in Answers : proc' = [proc EXCEPT ![p] = q(made(lines))]
    BY <1>2 DEF ReadSection
  <2>2. proc[p].pc = "asked"
    BY <1>2 DEF ReadSection
  <2>3. made(lines) \in Figures /\ Read(made(lines))
    BY <2>2, SectionRead
  <2>4. made(lines) # None
    BY <2>3, StatementAssumption
  <2>5. proc[p].read \in 0 .. NSections /\ proc[p].read < NSections
    BY <1>0, <2>2 DEF ReadInv, Making, Proc
  <2>6. next \in 1 .. NSections
    BY <2>5, SectionsTyped
  <2> HIDE DEF made, next
  <2>7. /\ pc \in PCs /\ read \in 0 .. NSections /\ pc \in {"asked", "answered"}
        /\ pc = "asked" => read < NSections /\ read # 0
    BY <2>6, SectionsTyped DEF PCs
  <2> HIDE DEF pc, read
  <2>8. /\ q(made(lines)) \in Proc /\ q(made(lines)).payload = made(lines)
        /\ q(made(lines)).pc = pc /\ q(made(lines)).read = read
    BY <1>0, <2>3, <2>7 DEF Proc
  <2> HIDE DEF q
  <2> QED BY <1>0, <2>1, <2>3, <2>4, <2>7, <2>8, MoveRead
<1> QED BY <1>1, <1>2

\* What is written to the store is what the process has in hand.
LEMMA WriteRead ==
  ASSUME ReadInv, NEW p \in Processes, Upsert(p) \/ Bank(p) \/ Backfill(p)
  PROVE  ReadInv'
<1>0. /\ proc[p] \in Proc /\ proc[p].payload \in Figures \cup {None} /\ now \in Int
      /\ proc[p].payload # None => Read(proc[p].payload)
      /\ archive \in Figures /\ Read(archive)
      /\ cache \in [payload : Figures \cup {None}, fetched : Int] \cup {None}
      /\ cache # None /\ cache.payload # None => Read(cache.payload)
      /\ UNCHANGED <<now, filed, filedAt>>
  BY DEF ReadInv, TypeOK, Proc, Upsert, Bank, Backfill
<1>1. CASE Upsert(p)
  <2> DEFINE q == [proc[p] EXCEPT !.pc = "cached"]
  <2>1. q \in Proc /\ q.pc = "cached" /\ q.payload = proc[p].payload
    BY <1>0 DEF Proc, PCs
  <2>2. proc' = [proc EXCEPT ![p] = q] /\ archive' = archive
    BY <1>1 DEF Upsert
  <2>3. /\ cache' \in [payload : Figures \cup {None}, fetched : Int]
        /\ cache'.payload = proc[p].payload
    BY <1>0, <1>1 DEF Upsert, Row
  <2> HIDE DEF q
  <2> QED BY <1>0, <2>1, <2>2, <2>3, MoveRead
<1>2. CASE Bank(p)
  <2> DEFINE q == IF proc[p].kind = "history" THEN [proc[p] EXCEPT !.pc = "reading"] ELSE Idle
  <2>1. q \in Proc /\ q.pc \in {"reading", "idle"} /\ q.payload \in {None, proc[p].payload}
    BY <1>0, ProcTyped DEF Proc, PCs
  <2>2. proc' = [proc EXCEPT ![p] = q] /\ cache' = cache
    BY <1>2 DEF Bank
  <2>3. archive' \in Figures /\ Read(archive')
    BY <1>0, <1>2, BankedRead DEF Bank
  <2> HIDE DEF q
  <2> QED BY <1>0, <2>1, <2>2, <2>3, MoveRead
<1>3. CASE Backfill(p)
  <2>1. archive' \in Figures /\ Read(archive') /\ cache' = cache
    BY <1>0, <1>3, BankedRead DEF Backfill, ReadInv, Making
  <2>2. proc' = [proc EXCEPT ![p] = Idle] /\ Idle.payload = None /\ Idle.pc = "idle"
    BY <1>3, ProcTyped DEF Backfill
  <2> QED BY <1>0, <2>1, <2>2, ProcTyped, MoveRead
<1> QED BY <1>1, <1>2, <1>3

\* The issuer files, or time passes.
LEMMA WorldRead ==
  ASSUME ReadInv, Tick \/ \E l \in Labels : File(l) \/ Restate(l)
  PROVE  ReadInv'
<1>1. CASE Tick
  <2>1. now \in Int /\ now' = now + 1 /\ UNCHANGED <<filed, filedAt, cache, archive, proc>>
    BY <1>1 DEF Tick, ReadInv, TypeOK
  <2>2. TypeOK'
    BY <2>1 DEF ReadInv, TypeOK
  <2>3. \A figures : Read(figures)' <=> Read(figures)
    BY <2>1 DEF Read
  <2> QED BY <2>1, <2>2, <2>3 DEF ReadInv, Making, Read
<1>2. ASSUME NEW l \in Labels, File(l) \/ Restate(l) PROVE ReadInv'
  <2>1. UNCHANGED <<now, cache, archive, proc>>
    BY <1>2 DEF File, Restate
  <2>2. filed' \in Lines /\ filedAt' \in [Labels -> Int]
    BY <1>2 DEF ReadInv, TypeOK, File, Restate, Lines, Revision
  <2>3. TypeOK'
    BY <2>1, <2>2 DEF ReadInv, TypeOK
  <2>4. /\ archive \in Figures /\ (cache # None => cache.payload \in Figures \cup {None})
        /\ \A p \in Processes : proc[p].payload \in Figures \cup {None}
    BY DEF ReadInv, TypeOK, Proc
  <2>5. \A m \in Labels : filed[m] <= filed'[m]
    BY <1>2, <2>3, FiledGrows
  <2>6. \A figures \in Figures : Read(figures) =>
          \A s \in Sections : \A m \in Labels :
            /\ figures[s][m] <= filed'[m]
            /\ figures[s][m] = 0 \/ figures[1][m] <= figures[s][m]
    BY <1>2, <2>3, FiledGrows DEF Read
  <2>7. /\ Read(archive)' /\ (cache' # None /\ cache'.payload # None => Read(cache.payload)')
        /\ \A p \in Processes : proc'[p].payload # None => Read(proc[p].payload)'
    BY <2>1, <2>4, <2>6 DEF ReadInv, Read
  <2> QED BY <2>1, <2>3, <2>7 DEF ReadInv, Making
<1> QED BY <1>1, <1>2

LEMMA NextRead == ReadInv /\ [Next]_vars => ReadInv'
<1> SUFFICES ASSUME ReadInv, [Next]_vars PROVE ReadInv'
  OBVIOUS
<1>1. CASE UNCHANGED vars
  BY <1>1 DEF vars, ReadInv, TypeOK, Making, Read
<1>2. CASE Tick \/ \E l \in Labels : File(l) \/ Restate(l)
  BY <1>2, WorldRead
<1>3. ASSUME NEW p \in Processes, ProcessStep(p) PROVE ReadInv'
  <2>1. CASE Unavailable(p) \/ ReadHistory(p) \/ Crash(p)
    BY <2>1, ResetRead DEF Unavailable, ReadHistory, Crash
  <2> QED BY <1>3, <2>1, ConnectRead, CallRead, AskRead, WriteRead DEF ProcessStep
<1> QED BY <1>1, <1>2, <1>3 DEF Next

\* Every figure the processes have in hand, cached or archived is one the issuer has
\* filed, and no section of it is older than the income line beside it.
THEOREM EveryFigureRead == Spec => []ReadInv
BY InitRead, NextRead, PTL DEF Spec

\* Whatever the processes, their crashes and the issuer interleave, the cache row, the
\* archive and what each process holds keep their shape.
THEOREM TypeCorrect == Spec => []TypeOK
<1>1. ReadInv => TypeOK
  BY DEF ReadInv
<1> QED BY <1>1, EveryFigureRead, PTL
-----------------------------------------------------------------------------
\* The archive implements PeriodArchive.

Rows == [l \in Labels |-> IF archive[1][l] = 0 THEN None
                          ELSE [s \in Sections |-> archive[s][l]]]

LEMMA InitArchive == Init => Archive!Init
<1> SUFFICES ASSUME Init PROVE Archive!Init
  OBVIOUS
<1>1. \A l \in Labels : archive[1][l] = 0
  BY SectionsTyped DEF Init, NoFigures, NoLines
<1> QED BY <1>1 DEF Init, Archive!Init, Labels, Archive!Labels

\* What is banked are whole rows of the payload, read as PeriodArchive asks.
LEMMA BankIsAbstract ==
  ASSUME ReadInv, NEW payload \in Figures, Read(payload),
         archive' = Banked(payload), filed' = filed
  PROVE  Archive!Bank
<1> USE DEF Archive!Labels, Archive!Sections, Labels, Sections
<1>1. ASSUME NEW l \in Labels
      PROVE  Rows'[l] = Rows[l] \/ Archive!IsRead(Rows'[l], l)
  <2>1. \A s \in Sections : archive'[s][l] = IF l \in Periods(payload) THEN payload[s][l]
                                                ELSE archive[s][l]
    BY DEF Banked
  <2>2. CASE l \notin Periods(payload)
    <3>1. \A s \in Sections : archive'[s][l] = archive[s][l]
      BY <2>1, <2>2
    <3>2. [s \in Sections |-> archive'[s][l]] = [s \in Sections |-> archive[s][l]]
      BY <3>1
    <3>3. archive'[1][l] = archive[1][l]
      BY <3>1, SectionsTyped
    <3> HIDE DEF Sections
    <3> QED BY <3>2, <3>3 DEF Rows
  <2>3. CASE l \in Periods(payload)
    <3>1. /\ payload[1][l] # 0 /\ filed[l] \in Revision
          /\ \A s \in Sections : payload[s][l] \in Revision
      BY <2>3, SectionsTyped DEF Periods, Held, Figures, Lines, ReadInv, TypeOK
    <3>2. Rows'[l] = [s \in Sections |-> payload[s][l]]
      BY <2>1, <2>3, <3>1, SectionsTyped DEF Rows
    <3>3. Rows'[l] # None
      BY <3>1, <3>2, StatementAssumption
    <3>4. \A s \in Sections : /\ payload[s][l] <= filed[l]
                              /\ payload[s][l] = 0 \/ payload[1][l] <= payload[s][l]
      BY DEF Read
    <3>5. \A s \in Sections : Rows'[l][s] = payload[s][l]
      BY <3>2
    <3>6. /\ payload[1][l] \in 1 .. filed[l]
          /\ \A s \in Sections : \/ payload[s][l] = 0
                                 \/ payload[s][l] \in payload[1][l] .. filed[l]
      <4> HIDE DEF Sections
      <4>1. payload[1][l] \in Revision /\ payload[1][l] <= filed[l]
        BY <3>1, <3>4, SectionsTyped
      <4>2. payload[1][l] \in 1 .. filed[l]
        BY <3>1, <4>1 DEF Revision
      <4>3. ASSUME NEW s \in Sections
            PROVE  payload[s][l] = 0 \/ payload[s][l] \in payload[1][l] .. filed[l]
        <5>1. payload[s][l] \in Revision
          BY <3>1
        <5> QED BY <3>1, <3>4, <4>1, <5>1 DEF Revision
      <4> QED BY <4>2, <4>3
    <3>7. Rows'[l][1] = payload[1][l]
      BY <3>5, SectionsTyped
    <3> QED BY <3>3, <3>5, <3>6, <3>7 DEF Archive!IsRead
  <2> QED BY <2>2, <2>3
<1> QED BY <1>1 DEF Archive!Bank, Rows

LEMMA NextArchive ==
  ReadInv /\ [Next]_vars => [Archive!Next]_<<filed, Rows>>
<1> SUFFICES ASSUME ReadInv, [Next]_vars PROVE [Archive!Next]_<<filed, Rows>>
  OBVIOUS
<1>1. CASE UNCHANGED <<filed, archive>>
  BY <1>1 DEF Rows
<1>2. ASSUME NEW l \in Labels, File(l) \/ Restate(l) PROVE Archive!Next
  <2>1. /\ archive' = archive /\ filed \in Lines
        /\ \/ filed[l] = 0 /\ filed' = [filed EXCEPT ![l] = 1]
           \/ filed[l] = 1 /\ filed' = [filed EXCEPT ![l] = 2]
    BY <1>2 DEF File, Restate, ReadInv, TypeOK
  <2> QED BY <2>1 DEF Archive!Next, Archive!Issue, Archive!Labels, Labels
<1>3. ASSUME NEW p \in Processes, Bank(p) \/ Backfill(p) PROVE [Archive!Next]_<<filed, Rows>>
  <2>1. /\ proc[p].payload \in Figures \cup {None} /\ filed' = filed
        /\ proc[p].payload # None => Read(proc[p].payload)
        /\ Backfill(p) => proc[p].payload # None
    BY <1>3 DEF ReadInv, Making, TypeOK, Proc, Bank, Backfill
  <2>2. CASE proc[p].payload = None
    BY <1>1, <1>3, <2>1, <2>2 DEF Bank
  <2>3. CASE proc[p].payload # None
    BY <1>3, <2>1, <2>3, BankIsAbstract DEF Bank, Backfill, Archive!Next
  <2> QED BY <2>2, <2>3
<1> QED
  BY <1>1, <1>2, <1>3
     DEF Next, ProcessStep, vars, Tick, Connect, CallFresh, CallStale, ReadSection,
         NoStatements, Unavailable, Upsert, ReadHistory, Crash

\* The archive of the adapter, filled by any number of processes from answers read in
\* several requests, is an implementation of the abstract one: its rows are only ever
\* replaced whole, by rows read from what is filed, and none is ever lost.
THEOREM ArchiveImplemented == Spec => ArchiveSpec
<1>1. ReadInv /\ [Next]_vars => [Archive!Next]_<<filed, Rows>>
  BY NextArchive
<1> QED
  BY <1>1, InitArchive, EveryFigureRead, PTL DEF Spec, ArchiveSpec, Archive!Spec, Rows
-----------------------------------------------------------------------------
\* While every section can be read, a period still served keeps its figures.

\* Of the periods still served, the sections up to this one were read.
Whole(figures, upTo) ==
  \A s \in 1 .. upTo : \A l \in Periods(figures) \cap Newest(filed) : figures[s][l] # 0

SectionsOf(q) == IF q.pc = "asked" THEN q.read ELSE NSections

KeptInv ==
  /\ cache # None /\ cache.payload # None => Whole(cache.payload, NSections)
  /\ \A p \in Processes :
       proc[p].payload # None => Whole(proc[p].payload, SectionsOf(proc[p]))

\* What is filed after it pushes a period out of the window, never into it.
LEMMA WindowMoves ==
  ASSUME ReadInv, ReadInv', NEW k \in Labels, File(k) \/ Restate(k)
  PROVE  \A l \in Held(filed) : l \in Newest(filed)' => l \in Newest(filed)
<1>1. Held(filed) \subseteq Held(filed)' /\ Held(filed)' \subseteq Labels
  <2>1. \A l \in Labels : filed[l] \in Nat /\ filed'[l] \in Nat
    BY DEF ReadInv, TypeOK, Lines, Revision
  <2>2. \A l \in Labels : filed[l] <= filed'[l]
    BY FiledGrows DEF ReadInv
  <2> QED BY <2>1, <2>2 DEF Held
<1>2. ASSUME NEW l \in Held(filed), l \in Newest(filed)' PROVE l \in Newest(filed)
  <2> DEFINE later == {m \in Held(filed) : m > l}
             laterNow == {m \in Held(filed)' : m > l}
  <2>1. IsFiniteSet(laterNow)
    <3>1. IsFiniteSet(Labels)
      BY FS_Interval, StatementAssumption DEF Labels
    <3> QED BY <1>1, <3>1, FS_Subset
  <2>2. later \subseteq laterNow
    BY <1>1
  <2>3. /\ Cardinality(later) \in Nat /\ Cardinality(laterNow) \in Nat
        /\ Cardinality(later) <= Cardinality(laterNow)
    BY <2>1, <2>2, FS_Subset, FS_CardinalityType
  <2>4. Cardinality(laterNow) < Window
    BY <1>2 DEF Newest
  <2>5. Cardinality(later) < Window
    BY <2>3, <2>4, StatementAssumption
  <2> QED BY <2>5 DEF Newest
<1> QED BY <1>2

\* One process moves and nothing is filed.
LEMMA MoveKept ==
  ASSUME KeptInv, NEW p \in Processes, NEW q,
         filed' = filed, proc \in [Processes -> Proc], proc' = [proc EXCEPT ![p] = q],
         q.payload # None => Whole(q.payload, SectionsOf(q)),
         cache' # None /\ cache'.payload # None => Whole(cache'.payload, NSections)
  PROVE  KeptInv'
<1>1. /\ proc'[p] = q /\ \A o \in Processes : o # p => proc'[o] = proc[o]
  OBVIOUS
<1>2. ASSUME NEW o \in Processes, proc'[o].payload # None
      PROVE  Whole(proc'[o].payload, SectionsOf(proc'[o]))
  BY <1>1, <1>2 DEF KeptInv
<1>3. /\ cache' # None /\ cache'.payload # None => Whole(cache.payload, NSections)'
      /\ \A o \in Processes :
           proc'[o].payload # None => Whole(proc[o].payload, SectionsOf(proc[o]))'
  BY <1>2 DEF Whole, Newest, SectionsOf
<1> QED BY <1>3 DEF KeptInv

LEMMA SectionKept ==
  ASSUME ReadInv, KeptInv, Unreadable = FALSE, NEW p \in Processes,
         proc[p].pc = "asked"
  PROVE  Whole([proc[p].payload EXCEPT ![proc[p].read + 1] = InPeriods(p, Served)],
               proc[p].read + 1)
<1> DEFINE old == proc[p].payload
           next == proc[p].read + 1
           seen == InPeriods(p, Served)
           payload == [old EXCEPT ![next] = seen]
<1>1. /\ old \in Figures /\ old # None /\ next \in Sections
      /\ proc[p].read \in Nat /\ Whole(old, proc[p].read)
  <2>1. /\ old \in Figures /\ old # None /\ proc[p].read \in 0 .. NSections
        /\ proc[p].read < NSections
    BY DEF ReadInv, TypeOK, Proc, Making
  <2>2. Whole(old, SectionsOf(proc[p])) /\ SectionsOf(proc[p]) = proc[p].read
    BY <2>1 DEF KeptInv, SectionsOf
  <2> QED BY <2>1, <2>2, SectionsTyped DEF Sections
<1>2. /\ payload[next] = seen
      /\ \A s \in Sections : s # next => payload[s] = old[s]
  BY <1>1 DEF Figures
<1>3. \A l \in Newest(filed) : Served[l] # 0
  BY DEF Served, Within, Newest, Held
<1>4. ASSUME NEW s \in 1 .. next, NEW l \in Periods(payload) \cap Newest(filed)
      PROVE  payload[s][l] # 0
  <2>1. s \in Sections /\ (s # next => s \in 1 .. proc[p].read)
    BY <1>1, SectionsTyped DEF Sections
  <2>2. CASE s = 1
    BY <1>4, <2>2 DEF Periods, Held
  <2>3. CASE s # 1
    <3>1. next # 1 /\ proc[p].read # 0
      BY <1>1, <2>1, <2>3
    <3>2. Periods(payload) = Periods(old)
      BY <1>2, <3>1, SectionsTyped DEF Periods
    <3>3. CASE s = next
      <4>1. seen = Within(Periods(old), Served)
        BY <3>1 DEF InPeriods
      <4> QED BY <1>2, <1>3, <3>2, <3>3, <4>1, <1>4 DEF Within, Periods, Held
    <3>4. CASE s # next
      BY <1>1, <1>2, <1>4, <2>1, <3>2, <3>4 DEF Whole
    <3> QED BY <3>3, <3>4
  <2> QED BY <2>2, <2>3
<1> QED BY <1>4 DEF Whole

LEMMA InitKept == Init => KeptInv
<1> SUFFICES ASSUME Init PROVE KeptInv
  OBVIOUS
<1>1. \A p \in Processes : proc[p].payload = None
  BY ProcTyped DEF Init
<1>2. cache # None => cache.payload = [s \in Sections |-> Served]
  BY DEF Init
<1>3. Whole([s \in Sections |-> Served], NSections)
  BY DEF Whole, Sections, Served, Within, Newest, Held
<1> QED BY <1>1, <1>2, <1>3 DEF KeptInv

LEMMA StepKept ==
  ASSUME ReadInv, KeptInv, Unreadable = FALSE,
         NEW p \in Processes, ProcessStep(p)
  PROVE  KeptInv'
<1>0. /\ proc \in [Processes -> Proc] /\ filed' = filed
      /\ (cache # None /\ cache.payload # None => Whole(cache.payload, NSections))
      /\ (proc[p].payload # None => Whole(proc[p].payload, SectionsOf(proc[p])))
  BY DEF ReadInv, TypeOK, KeptInv, ProcessStep, Connect, Backfill, CallFresh, CallStale,
         ReadSection, NoStatements, Unavailable, Upsert, Bank, ReadHistory, Crash
<1>1. CASE Backfill(p) \/ Unavailable(p) \/ ReadHistory(p) \/ Crash(p)
  <2>1. /\ cache' = cache
        /\ \E q \in {Idle, Down} : q.payload = None /\ proc' = [proc EXCEPT ![p] = q]
    BY <1>1, ProcTyped DEF Backfill, Unavailable, ReadHistory, Crash
  <2> QED BY <1>0, <2>1, MoveKept
<1>2. CASE Connect(p)
  <2>1. CASE ~BackfillDue
    BY <1>0, <1>2, <2>1, ProcTyped, MoveKept DEF Connect
  <2>2. CASE BackfillDue
    <3> DEFINE q == [Down EXCEPT !.pc = "migrating", !.payload = cache.payload]
    <3>1. q.pc = "migrating" /\ q.payload = cache.payload
      BY ProcTyped DEF Proc
    <3>2. proc' = [proc EXCEPT ![p] = q] /\ cache' = cache
      BY <1>2, <2>2 DEF Connect
    <3>3. cache # None
      BY <2>2 DEF BackfillDue
    <3> HIDE DEF q
    <3> QED BY <1>0, <3>1, <3>2, <3>3, MoveKept DEF SectionsOf
  <2> QED BY <2>1, <2>2
<1>3. CASE CallFresh(p)
  <2> DEFINE q == [Down EXCEPT !.pc = "reading", !.kind = "history",
                               !.payload = cache.payload, !.began = now]
  <2>1. q.pc = "reading" /\ q.payload = cache.payload
    BY ProcTyped DEF Proc
  <2>2. proc' = [proc EXCEPT ![p] = q] /\ cache' = cache /\ cache # None
    BY <1>3 DEF CallFresh, Fresh
  <2> HIDE DEF q
  <2> QED BY <1>0, <2>1, <2>2, MoveKept DEF SectionsOf
<1>4. ASSUME NEW kind \in {"statements", "history"}, CallStale(p, kind) PROVE KeptInv'
  <2> DEFINE q == [Down EXCEPT !.pc = "asked", !.kind = kind,
                               !.payload = NoFigures, !.began = now]
  <2>1. q.pc = "asked" /\ q.read = 0
    BY ProcTyped DEF Proc
  <2>2. Whole(q.payload, 0)
    BY DEF Whole
  <2>3. proc' = [proc EXCEPT ![p] = q] /\ cache' = cache
    BY <1>4 DEF CallStale
  <2> HIDE DEF q
  <2> QED BY <1>0, <2>1, <2>2, <2>3, MoveKept DEF SectionsOf
<1>5. CASE NoStatements(p)
  <2> DEFINE q == [proc[p] EXCEPT !.pc = "answered", !.payload = None]
  <2>1. q.payload = None
    BY <1>0 DEF Proc
  <2>2. proc' = [proc EXCEPT ![p] = q] /\ cache' = cache
    BY <1>5 DEF NoStatements
  <2> HIDE DEF q
  <2> QED BY <1>0, <2>1, <2>2, MoveKept
<1>6. CASE ReadSection(p)
  <2> DEFINE next == proc[p].read + 1
             made == [proc[p].payload EXCEPT ![next] = InPeriods(p, Served)]
             pc == IF next = NSections THEN "answered" ELSE "asked"
             read == IF next = NSections THEN 0 ELSE next
             q == [proc[p] EXCEPT !.payload = made, !.pc = pc, !.read = read]
  <2>1. proc' = [proc EXCEPT ![p] = q] /\ cache' = cache /\ proc[p].pc = "asked"
    BY <1>6 DEF ReadSection, Answers
  <2>2. Whole(made, next)
    BY <2>1, SectionKept
  <2>3. next \in Int /\ (pc = "asked" => read = next) /\ (pc # "asked" => next = NSections)
    BY <1>0 DEF Proc
  <2> HIDE DEF made, pc, read
  <2>4. q.payload = made /\ q.pc = pc /\ q.read = read
    BY <1>0 DEF Proc
  <2>5. Whole(made, SectionsOf(q))
    BY <2>2, <2>3, <2>4 DEF SectionsOf
  <2> HIDE DEF q
  <2> QED BY <1>0, <2>1, <2>4, <2>5, MoveKept
<1>7. CASE Upsert(p)
  <2> DEFINE q == [proc[p] EXCEPT !.pc = "cached"]
  <2>1. q.pc = "cached" /\ q.payload = proc[p].payload
    BY <1>0 DEF Proc
  <2>2. /\ proc' = [proc EXCEPT ![p] = q] /\ proc[p].pc = "answered"
        /\ cache'.payload = proc[p].payload
    BY <1>7 DEF Upsert, Row
  <2> HIDE DEF q
  <2> QED BY <1>0, <2>1, <2>2, MoveKept DEF SectionsOf
<1>8. CASE Bank(p)
  <2> DEFINE q == IF proc[p].kind = "history" THEN [proc[p] EXCEPT !.pc = "reading"] ELSE Idle
  <2>1. q.pc \in {"reading", "idle"} /\ q.payload \in {None, proc[p].payload}
    BY <1>0, ProcTyped DEF Proc
  <2>2. proc' = [proc EXCEPT ![p] = q] /\ cache' = cache /\ proc[p].pc = "cached"
    BY <1>8 DEF Bank
  <2> HIDE DEF q
  <2> QED BY <1>0, <2>1, <2>2, MoveKept DEF SectionsOf
<1> QED
  BY <1>1, <1>2, <1>3, <1>4, <1>5, <1>6, <1>7, <1>8 DEF ProcessStep

LEMMA NextKept ==
  ASSUME ReadInv, ReadInv', KeptInv, Unreadable = FALSE, [Next]_vars
  PROVE  KeptInv'
<1>1. CASE UNCHANGED <<filed, cache, proc>>
  BY <1>1 DEF KeptInv, Whole, Newest, SectionsOf
<1>2. ASSUME NEW k \in Labels, File(k) \/ Restate(k) PROVE KeptInv'
  <2>1. UNCHANGED <<cache, proc>>
    BY <1>2 DEF File, Restate
  <2>2. ASSUME NEW figures \in Figures, Read(figures), NEW upTo, Whole(figures, upTo)
        PROVE  Whole(figures, upTo)'
    <3>1. Periods(figures) \subseteq Held(filed)
      <4>1. \A l \in Labels : figures[1][l] \in Nat /\ filed[l] \in Nat
                             /\ figures[1][l] <= filed[l]
        BY <2>2, SectionsTyped DEF Read, Figures, Lines, Revision, ReadInv, TypeOK
      <4> QED BY <4>1 DEF Periods, Held
    <3> QED BY <1>2, <2>2, <3>1, WindowMoves DEF Whole
  <2>3. /\ cache # None => cache.payload \in Figures \cup {None}
        /\ \A p \in Processes : proc[p].payload \in Figures \cup {None}
    BY DEF ReadInv, TypeOK, Proc
  <2>4. cache # None /\ cache.payload # None => Whole(cache.payload, NSections)'
    <3> SUFFICES ASSUME cache # None, cache.payload # None
                 PROVE  Whole(cache.payload, NSections)'
      OBVIOUS
    <3>1. Whole(cache.payload, NSections) /\ Read(cache.payload) /\ cache.payload \in Figures
      BY <2>3 DEF KeptInv, ReadInv
    <3> QED BY <2>1, <2>2, <3>1 DEF Whole
  <2>5. ASSUME NEW p \in Processes, proc[p].payload # None
        PROVE  Whole(proc[p].payload, SectionsOf(proc[p]))'
    <3>1. /\ Whole(proc[p].payload, SectionsOf(proc[p])) /\ Read(proc[p].payload)
          /\ proc[p].payload \in Figures
      BY <2>3, <2>5 DEF KeptInv, ReadInv
    <3> QED BY <2>1, <2>2, <3>1 DEF Whole, SectionsOf
  <2> QED BY <2>1, <2>4, <2>5 DEF KeptInv
<1>3. ASSUME NEW p \in Processes, ProcessStep(p) PROVE KeptInv'
  BY <1>3, StepKept
<1> QED BY <1>1, <1>2, <1>3 DEF Next, vars, Tick

LEMMA StepKeepsFigures ==
  ASSUME ReadInv, KeptInv, [Next]_vars
  PROVE  \A s \in Sections : \A l \in Newest(filed) :
           archive[s][l] # 0 => archive'[s][l] # 0
<1>1. CASE archive' = archive
  BY <1>1
<1>2. ASSUME NEW p \in Processes, Bank(p) \/ Backfill(p), proc[p].payload # None
      PROVE  \A s \in Sections : \A l \in Newest(filed) :
               archive[s][l] # 0 => archive'[s][l] # 0
  <2>1. archive' = Banked(proc[p].payload) /\ Whole(proc[p].payload, NSections)
    BY <1>2 DEF Bank, Backfill, KeptInv, SectionsOf
  <2>2. \A l \in Newest(filed) : l \in Labels
    BY DEF Newest, Held
  <2> QED BY <2>1, <2>2 DEF Banked, Whole, Sections
<1>3. \A p \in Processes : Bank(p) \/ Backfill(p) =>
        archive' = archive \/ proc[p].payload # None
  BY DEF Bank, ReadInv, Making, Backfill
<1> QED
  BY <1>1, <1>2, <1>3
     DEF Next, ProcessStep, vars, Tick, File, Restate, Connect, CallFresh, CallStale,
         ReadSection, NoStatements, Unavailable, Upsert, ReadHistory, Crash

\* As long as every section answered can be read, nothing the processes, the issuer or
\* a refused request do blanks an archived figure of a period the source still serves.
THEOREM FiguresKept ==
  ASSUME Unreadable = FALSE PROVE Spec => FigureKeptInWindow
<1>1. ReadInv /\ KeptInv /\ [Next]_vars => KeptInv'
  BY NextRead, NextKept
<1>2. ReadInv /\ KeptInv /\ [Next]_vars =>
        [\A s \in Sections : \A l \in Newest(filed) :
           archive[s][l] # 0 => archive'[s][l] # 0]_vars
  BY StepKeepsFigures
<1> QED
  BY <1>1, <1>2, InitKept, EveryFigureRead, PTL DEF Spec, FigureKeptInWindow
-----------------------------------------------------------------------------
\* While every section can be read, what is served is recent.

\* Sections up to this one have every period still served that was filed before the
\* instant since; a payload of None says there was none.
Current(lines, at, payload, upTo, since) ==
  \A l \in Newest(lines) : at[l] < since =>
    payload # None /\ \A s \in 1 .. upTo : payload[s][l] = lines[l]

Fetching(q) == q.pc \in {"asked", "answered", "cached"}

CurrentCache ==
  cache # None =>
    /\ cache.fetched <= now
    /\ Current(filed, filedAt, cache.payload, NSections, cache.fetched - MaxCallTicks)

\* A call under way is short, and has what was filed before it began.
CurrentCall(q) ==
  Fetching(q) => /\ q.began <= now /\ now <= q.began + MaxCallTicks
                 /\ Current(filed, filedAt, q.payload, SectionsOf(q), q.began)

RecentInv == CurrentCache /\ \A p \in Processes : CurrentCall(proc[p])

\* What is filed now was filed before no call, and no row, there is.
LEMMA CurrentAsFiled ==
  ASSUME ReadInv, ReadInv', NEW k \in Labels, File(k) \/ Restate(k),
         NEW payload, NEW upTo, NEW since \in Int, since <= now,
         Current(filed, filedAt, payload, upTo, since)
  PROVE  Current(filed', filedAt', payload, upTo, since)
<1>1. /\ now \in Int /\ filedAt \in [Labels -> Int] /\ filed \in Lines
      /\ filedAt' = [filedAt EXCEPT ![k] = now]
      /\ \A l \in Labels : l # k => filed'[l] = filed[l]
  BY DEF ReadInv, TypeOK, File, Restate, Lines
<1>2. ASSUME NEW l \in Newest(filed'), filedAt'[l] < since
      PROVE  l \in Newest(filed) /\ filedAt'[l] = filedAt[l] /\ filed'[l] = filed[l]
  <2>1. l \in Labels /\ filed'[l] # 0
    BY DEF Newest, Held
  <2>2. l # k
    BY <1>1, <1>2
  <2>3. l \in Held(filed)
    BY <1>1, <2>1, <2>2 DEF Held
  <2> QED BY <1>1, <1>2, <2>1, <2>2, <2>3, WindowMoves
<1> QED BY <1>2 DEF Current

\* One process moves and nothing is filed.
LEMMA MoveRecent ==
  ASSUME RecentInv, NEW p \in Processes, NEW q,
         UNCHANGED <<now, filed, filedAt>>, proc \in [Processes -> Proc],
         proc' = [proc EXCEPT ![p] = q], CurrentCall(q), CurrentCache'
  PROVE  RecentInv'
<1>1. \A o \in Processes : CurrentCall(proc'[o])
  BY DEF RecentInv
<1>2. \A o \in Processes : CurrentCall(proc[o])'
  BY <1>1 DEF CurrentCall, Fetching, SectionsOf
<1> QED BY <1>2 DEF RecentInv

\* A section answered now has all that is filed of the periods served.
LEMMA SectionCurrent ==
  ASSUME ReadInv, Unreadable = FALSE, NEW p \in Processes, proc[p].pc = "asked",
         Current(filed, filedAt, proc[p].payload, proc[p].read, proc[p].began)
  PROVE  Current(filed, filedAt,
                 [proc[p].payload EXCEPT ![proc[p].read + 1] = InPeriods(p, Served)],
                 proc[p].read + 1, proc[p].began)
<1> DEFINE old == proc[p].payload
           next == proc[p].read + 1
           seen == InPeriods(p, Served)
           payload == [old EXCEPT ![next] = seen]
<1>1. /\ old \in Figures /\ next \in Sections /\ proc[p].read \in 0 .. NSections
  BY SectionsTyped DEF ReadInv, TypeOK, Proc, Making, Sections
<1>2. /\ payload[next] = seen /\ payload # None
      /\ \A s \in Sections : s # next => payload[s] = old[s]
  <2>1. Served \in Lines
    BY AnswersTyped DEF Answers, ReadInv
  <2>2. seen \in Lines
    BY <2>1, SectionsTyped DEF InPeriods, Within, Lines
  <2>3. payload \in Figures
    BY <1>1, <2>2 DEF Figures
  <2> QED BY <1>1, <2>3, StatementAssumption DEF Figures
<1>3. ASSUME NEW l \in Newest(filed), filedAt[l] < proc[p].began
      PROVE  \A s \in 1 .. next : payload[s][l] = filed[l]
  <2>1. l \in Labels /\ filed[l] # 0 /\ Served[l] = filed[l]
    BY DEF Newest, Held, Served, Within
  <2>2. \A s \in 1 .. proc[p].read : old[s][l] = filed[l]
    BY <1>3 DEF Current
  <2>3. proc[p].read # 0 => l \in Periods(old)
    BY <1>1, <2>1, <2>2 DEF Periods, Held
  <2>4. seen[l] = filed[l]
    BY <2>1, <2>3 DEF InPeriods, Within
  <2>5. \A s \in 1 .. next : s \in Sections /\ (s = next \/ s \in 1 .. proc[p].read)
    BY <1>1, SectionsTyped DEF Sections
  <2>6. ASSUME NEW s \in 1 .. next PROVE payload[s][l] = filed[l]
    <3>1. CASE s = next
      BY <1>2, <2>4, <3>1
    <3>2. CASE s # next
      BY <1>2, <2>2, <2>5, <3>2
    <3> QED BY <3>1, <3>2
  <2> QED BY <2>6
<1> HIDE DEF payload
<1>4. Current(filed, filedAt, payload, next, proc[p].began)
  BY <1>2, <1>3 DEF Current
<1> QED BY <1>4 DEF payload

LEMMA InitRecent == Init => RecentInv
<1> SUFFICES ASSUME Init PROVE RecentInv
  OBVIOUS
<1>1. \A p \in Processes : ~Fetching(proc[p])
  BY ProcTyped DEF Init, Fetching
<1>2. \A l \in Newest(filed) : filedAt[l] = 0
  BY DEF Init, Newest, Held
<1>3. now = 0 /\ (cache # None => cache.fetched = 0) /\ MaxCallTicks \in Nat
  BY StatementAssumption DEF Init
<1>4. CurrentCache
  BY <1>2, <1>3 DEF CurrentCache, Current
<1> QED BY <1>1, <1>4 DEF RecentInv, CurrentCall

LEMMA StepRecent ==
  ASSUME ReadInv, RecentInv, Unreadable = FALSE, NEW p \in Processes, ProcessStep(p)
  PROVE  RecentInv'
<1>0. /\ proc \in [Processes -> Proc] /\ proc[p] \in Proc /\ CurrentCall(proc[p])
      /\ UNCHANGED <<now, filed, filedAt>> /\ now \in Int /\ MaxCallTicks \in Nat
      /\ Answers = {Served}
  BY StatementAssumption
     DEF ReadInv, TypeOK, RecentInv, Answers, ProcessStep, Connect, Backfill, CallFresh,
         CallStale, ReadSection, NoStatements, Unavailable, Upsert, Bank, ReadHistory, Crash
<1>1. ASSUME cache' = cache PROVE CurrentCache'
  BY <1>0, <1>1 DEF RecentInv, CurrentCache
<1>2. ASSUME NEW q, q.pc \notin {"asked", "answered", "cached"}, cache' = cache,
             proc' = [proc EXCEPT ![p] = q]
      PROVE  RecentInv'
  BY <1>0, <1>1, <1>2, MoveRecent DEF CurrentCall, Fetching
<1>3. CASE Backfill(p) \/ Unavailable(p) \/ ReadHistory(p) \/ Crash(p)
  <2>1. /\ cache' = cache
        /\ \E q \in {Idle, Down} : proc' = [proc EXCEPT ![p] = q]
    BY <1>3 DEF Backfill, Unavailable, ReadHistory, Crash
  <2> QED BY <1>2, <2>1, ProcTyped
<1>4. CASE Connect(p)
  <2> DEFINE q == [Down EXCEPT !.pc = "migrating", !.payload = cache.payload]
  <2>1. q.pc = "migrating"
    BY ProcTyped DEF Proc
  <2>2. cache' = cache /\ \E r \in {q, Idle} : proc' = [proc EXCEPT ![p] = r]
    BY <1>4 DEF Connect
  <2> HIDE DEF q
  <2> QED BY <1>2, <2>1, <2>2, ProcTyped
<1>5. CASE CallFresh(p)
  <2> DEFINE q == [Down EXCEPT !.pc = "reading", !.kind = "history",
                               !.payload = cache.payload, !.began = now]
  <2>1. q.pc = "reading"
    BY ProcTyped DEF Proc
  <2>2. proc' = [proc EXCEPT ![p] = q] /\ cache' = cache
    BY <1>5 DEF CallFresh
  <2> HIDE DEF q
  <2> QED BY <1>2, <2>1, <2>2
<1>6. ASSUME NEW kind \in {"statements", "history"}, CallStale(p, kind) PROVE RecentInv'
  <2> DEFINE q == [Down EXCEPT !.pc = "asked", !.kind = kind,
                               !.payload = NoFigures, !.began = now]
  <2>1. q.pc = "asked" /\ q.read = 0 /\ q.payload = NoFigures /\ q.began = now
    BY ProcTyped DEF Proc
  <2>2. proc' = [proc EXCEPT ![p] = q] /\ cache' = cache
    BY <1>6 DEF CallStale
  <2>3. NoFigures # None
    BY SectionsTyped, StatementAssumption
  <2> HIDE DEF q
  <2>4. CurrentCall(q)
    BY <1>0, <2>1, <2>3 DEF CurrentCall, Current, SectionsOf
  <2> QED BY <1>0, <1>1, <2>2, <2>4, MoveRecent
<1>7. CASE NoStatements(p)
  <2> DEFINE q == [proc[p] EXCEPT !.pc = "answered", !.payload = None]
  <2>1. q.pc = "answered" /\ q.began = proc[p].began
    BY <1>0 DEF Proc
  <2>2. proc' = [proc EXCEPT ![p] = q] /\ cache' = cache /\ proc[p].pc = "asked"
    BY <1>7 DEF NoStatements
  <2>3. Newest(filed) = {}
    <3>1. Served = NoLines
      BY <1>0, <1>7 DEF NoStatements
    <3>2. \A l \in Newest(filed) : Served[l] # 0 /\ NoLines[l] = 0
      BY DEF Served, Within, Newest, Held, NoLines
    <3> QED BY <3>1, <3>2
  <2> HIDE DEF q
  <2>4. CurrentCall(q)
    BY <1>0, <2>1, <2>2, <2>3 DEF CurrentCall, Current, Fetching
  <2> QED BY <1>0, <1>1, <2>2, <2>4, MoveRecent
<1>8. CASE ReadSection(p)
  <2> DEFINE next == proc[p].read + 1
             made == [proc[p].payload EXCEPT ![next] = InPeriods(p, Served)]
             pc == IF next = NSections THEN "answered" ELSE "asked"
             read == IF next = NSections THEN 0 ELSE next
             q == [proc[p] EXCEPT !.payload = made, !.pc = pc, !.read = read]
  <2>1. proc' = [proc EXCEPT ![p] = q] /\ cache' = cache /\ proc[p].pc = "asked"
    BY <1>0, <1>8 DEF ReadSection
  <2>2. Current(filed, filedAt, made, next, proc[p].began)
    BY <1>0, <2>1, SectionCurrent DEF CurrentCall, Fetching, SectionsOf
  <2>3. /\ next \in Int /\ (pc = "asked" => read = next) /\ pc \in {"asked", "answered"}
        /\ pc # "asked" => next = NSections
    BY <1>0 DEF Proc
  <2> HIDE DEF made, pc, read
  <2>4. q.payload = made /\ q.pc = pc /\ q.read = read /\ q.began = proc[p].began
    BY <1>0 DEF Proc
  <2>5. Current(filed, filedAt, made, SectionsOf(q), q.began)
    BY <2>2, <2>3, <2>4 DEF SectionsOf
  <2> HIDE DEF q
  <2>6. CurrentCall(q)
    BY <1>0, <2>1, <2>4, <2>5 DEF CurrentCall, Fetching
  <2> QED BY <1>0, <1>1, <2>1, <2>6, MoveRecent
<1>9. CASE Upsert(p)
  <2> DEFINE q == [proc[p] EXCEPT !.pc = "cached"]
  <2>1. q.pc = "cached" /\ q.payload = proc[p].payload /\ q.began = proc[p].began
    BY <1>0 DEF Proc
  <2>2. /\ proc' = [proc EXCEPT ![p] = q] /\ proc[p].pc = "answered"
        /\ cache'.payload = proc[p].payload /\ cache'.fetched = now
    BY <1>9 DEF Upsert, Row
  <2> HIDE DEF q
  <2>3. /\ proc[p].began <= now /\ now <= proc[p].began + MaxCallTicks
        /\ proc[p].began \in Int
        /\ Current(filed, filedAt, proc[p].payload, NSections, proc[p].began)
    BY <1>0, <2>2 DEF CurrentCall, Fetching, SectionsOf, Proc
  <2>4. CurrentCall(q)
    BY <2>1, <2>3 DEF CurrentCall, SectionsOf
  <2>5. filedAt \in [Labels -> Int] /\ Newest(filed) \subseteq Labels
    BY DEF ReadInv, TypeOK, Newest, Held
  <2>6. Current(filed, filedAt, proc[p].payload, NSections, now - MaxCallTicks)
    BY <1>0, <2>3, <2>5 DEF Current
  <2>7. CurrentCache'
    BY <1>0, <2>2, <2>6 DEF CurrentCache
  <2> QED BY <1>0, <2>2, <2>4, <2>7, MoveRecent
<1>10. CASE Bank(p)
  <2> DEFINE q == IF proc[p].kind = "history" THEN [proc[p] EXCEPT !.pc = "reading"] ELSE Idle
  <2>1. q.pc \in {"reading", "idle"}
    BY <1>0, ProcTyped DEF Proc
  <2>2. proc' = [proc EXCEPT ![p] = q] /\ cache' = cache
    BY <1>10 DEF Bank
  <2> HIDE DEF q
  <2> QED BY <1>2, <2>1, <2>2
<1> QED
  BY <1>3, <1>4, <1>5, <1>6, <1>7, <1>8, <1>9, <1>10 DEF ProcessStep

LEMMA NextRecent ==
  ASSUME ReadInv, ReadInv', RecentInv, Unreadable = FALSE, [Next]_vars
  PROVE  RecentInv'
<1>0. /\ now \in Int /\ MaxCallTicks \in Nat
      /\ \A p \in Processes : proc[p].pc \in PCs /\ proc[p].began \in Int
      /\ cache # None => cache.fetched \in Int
  BY StatementAssumption DEF ReadInv, TypeOK, Proc
<1>1. CASE UNCHANGED <<now, filed, filedAt, cache, proc>>
  BY <1>1 DEF RecentInv, CurrentCache, CurrentCall, Fetching, SectionsOf
<1>2. CASE Tick
  <2>1. /\ now' = now + 1 /\ UNCHANGED <<filed, filedAt, cache, proc>>
        /\ \A p \in Processes : Fetching(proc[p]) => now - proc[p].began < MaxCallTicks
    BY <1>2 DEF Tick, Fetching
  <2>2. CurrentCache'
    BY <1>0, <2>1 DEF RecentInv, CurrentCache
  <2>3. ASSUME NEW p \in Processes PROVE CurrentCall(proc[p])'
    BY <1>0, <2>1 DEF RecentInv, CurrentCall, Fetching, SectionsOf
  <2> QED BY <2>2, <2>3 DEF RecentInv
<1>3. ASSUME NEW k \in Labels, File(k) \/ Restate(k) PROVE RecentInv'
  <2>1. UNCHANGED <<now, cache, proc>>
    BY <1>3 DEF File, Restate
  <2>2. CurrentCache'
    <3> SUFFICES ASSUME cache # None PROVE CurrentCache'
      BY <2>1 DEF CurrentCache
    <3>1. /\ cache.fetched <= now
          /\ Current(filed, filedAt, cache.payload, NSections, cache.fetched - MaxCallTicks)
      BY DEF RecentInv, CurrentCache
    <3>2. cache.fetched - MaxCallTicks \in Int /\ cache.fetched - MaxCallTicks <= now
      BY <1>0, <3>1
    <3>3. Current(filed', filedAt', cache.payload, NSections, cache.fetched - MaxCallTicks)
      BY <1>3, <3>1, <3>2, CurrentAsFiled
    <3> QED BY <2>1, <3>1, <3>3 DEF CurrentCache
  <2>3. ASSUME NEW p \in Processes, Fetching(proc[p]) PROVE CurrentCall(proc[p])'
    <3>1. /\ proc[p].began <= now /\ now <= proc[p].began + MaxCallTicks
          /\ Current(filed, filedAt, proc[p].payload, SectionsOf(proc[p]), proc[p].began)
      BY <2>3 DEF RecentInv, CurrentCall
    <3>2. Current(filed', filedAt', proc[p].payload, SectionsOf(proc[p]), proc[p].began)
      BY <1>0, <1>3, <3>1, CurrentAsFiled
    <3> QED BY <2>1, <3>1, <3>2 DEF CurrentCall, SectionsOf
  <2>4. \A p \in Processes : CurrentCall(proc[p])'
    BY <2>1, <2>3 DEF CurrentCall, Fetching
  <2> QED BY <2>2, <2>4 DEF RecentInv
<1>4. ASSUME NEW p \in Processes, ProcessStep(p) PROVE RecentInv'
  BY <1>4, StepRecent
<1> QED BY <1>1, <1>2, <1>3, <1>4 DEF Next, vars

\* As long as every section answered can be read, a fresh answer lacks no section of
\* what was filed longer ago than the TTL and one slow call, whichever of the racing
\* calls wrote the row last and whatever was filed between the requests of one.
THEOREM ServedAlwaysRecent ==
  ASSUME Unreadable = FALSE PROVE Spec => []ServedIsRecent
<1>1. ReadInv /\ RecentInv /\ [Next]_vars => RecentInv'
  BY NextRead, NextRecent
<1>2. ReadInv /\ RecentInv => ServedIsRecent
  <2> SUFFICES ASSUME ReadInv, RecentInv, Fresh, NEW s \in Sections, NEW l \in Newest(filed),
                      filedAt[l] <= now - TTL - MaxCallTicks
               PROVE  cache.payload # None /\ cache.payload[s][l] = filed[l]
    BY DEF ServedIsRecent
  <2>1. cache # None /\ now - cache.fetched < TTL
    BY DEF Fresh
  <2>2. /\ now \in Int /\ cache.fetched \in Int /\ TTL \in Nat /\ MaxCallTicks \in Nat
        /\ filedAt[l] \in Int
    BY <2>1, StatementAssumption DEF ReadInv, TypeOK, Newest, Held
  <2>3. filedAt[l] < cache.fetched - MaxCallTicks
    BY <2>1, <2>2
  <2> QED BY <2>1, <2>3 DEF RecentInv, CurrentCache, Current, Sections
<1> QED BY <1>1, <1>2, InitRecent, EveryFigureRead, PTL DEF Spec
-----------------------------------------------------------------------------
\* What is banked of what is fetched.

\* The last writer of the cache row has its payload banked, or is about to; or the
\* row is from before the archive, which is empty, and nobody is past its backfill.
RowBanked ==
  cache # None /\ cache.payload # None =>
    \/ Periods(cache.payload) \subseteq Periods(archive)
    \/ \E p \in Processes : proc[p].pc = "cached" /\ proc[p].payload = cache.payload
    \/ /\ Periods(archive) = {}
       /\ \A p \in Processes : \/ proc[p].pc = "down"
                               \/ /\ proc[p].pc = "migrating"
                                  /\ proc[p].payload = cache.payload

BankedInv == ~torn => RowBanked

\* One call at a time: who banks has the payload of the cache row.
RowCurrent ==
  cache # None /\ cache.payload # None =>
    \/ \A s \in Sections : \A l \in Periods(cache.payload) :
         archive[s][l] = cache.payload[s][l]
    \/ \E p \in Processes : proc[p].pc = "cached"
    \/ /\ Periods(archive) = {}
       /\ \A p \in Processes : proc[p].pc \in {"down", "migrating"}

OneAtATime == \A p, q \in Processes : Working(p) /\ Working(q) => p = q
BanksTheRow ==
  \A p \in Processes : proc[p].pc \in {"migrating", "cached"} =>
    proc[p].payload = cache.payload

AloneInv ==
  ~overlapped => /\ OneAtATime /\ BanksTheRow
                 /\ ~torn => RowCurrent /\ HistoryReachesLive

LEMMA MCStep == [MCNext]_mcvars => [Next]_vars
BY DEF MCNext, mcvars

LEMMA MCRead == MCSpec => []ReadInv
<1>1. MCInit => ReadInv
  BY InitRead DEF MCInit
<1>2. ReadInv /\ [MCNext]_mcvars => ReadInv'
  BY MCStep, NextRead
<1> QED BY <1>1, <1>2, PTL DEF MCSpec

\* Banking a payload puts its periods into the archive and takes none out.
LEMMA BankingAdds ==
  ASSUME ReadInv, NEW payload, archive' = Banked(payload)
  PROVE  /\ Periods(payload) \subseteq Periods(archive')
         /\ Periods(archive) \subseteq Periods(archive')
         /\ \A s \in Sections : \A l \in Periods(payload) : archive'[s][l] = payload[s][l]
<1>1. \A s \in Sections : \A l \in Labels :
        archive'[s][l] = IF l \in Periods(payload) THEN payload[s][l] ELSE archive[s][l]
  BY DEF Banked
<1>2. \A l \in Periods(payload) : l \in Labels /\ payload[1][l] # 0
  BY DEF Periods, Held
<1>3. 1 \in Sections
  BY SectionsTyped
<1> QED BY <1>1, <1>2, <1>3 DEF Periods, Held

\* What a process does to the store, and where it goes.
Writes(p) ==
  /\ proc[p].pc = "answered" /\ proc'[p].pc = "cached"
  /\ proc'[p].payload = proc[p].payload /\ cache'.payload = proc[p].payload
  /\ UNCHANGED archive
Banks(p) ==
  /\ \/ proc[p].pc = "cached" /\ proc'[p].pc \in {"reading", "idle"}
     \/ proc[p].pc = "migrating" /\ proc'[p].pc = "idle" /\ proc[p].payload # None
  /\ proc'[p].pc = "reading" => proc'[p].payload = proc[p].payload
  /\ archive' = IF proc[p].payload = None THEN archive ELSE Banked(proc[p].payload)
  /\ UNCHANGED cache
Dies(p) == proc'[p].pc = "down" /\ UNCHANGED <<cache, archive>>
Connects(p) ==
  /\ proc[p].pc = "down"
  /\ IF BackfillDue THEN proc'[p].pc = "migrating" /\ proc'[p].payload = cache.payload
     ELSE proc'[p].pc = "idle"
  /\ UNCHANGED <<cache, archive>>
Reads(p) ==
  /\ proc[p].pc = "idle" /\ cache # None
  /\ proc'[p].pc = "reading" /\ proc'[p].payload = cache.payload
  /\ UNCHANGED <<cache, archive>>
Asks(p) ==
  /\ proc[p].pc \in {"idle", "asked", "reading"}
  /\ proc'[p].pc \in {"idle", "asked", "answered"}
  /\ UNCHANGED <<cache, archive>>

LEMMA StepIsOne ==
  ASSUME ReadInv, NEW p \in Processes, ProcessStep(p)
  PROVE  /\ Writes(p) \/ Banks(p) \/ Dies(p) \/ Connects(p) \/ Reads(p) \/ Asks(p)
         /\ \A o \in Processes \ {p} : proc'[o] = proc[o]
<1>0. proc \in [Processes -> Proc] /\ proc[p] \in Proc
  BY DEF ReadInv, TypeOK
<1>1. ASSUME NEW q, proc' = [proc EXCEPT ![p] = q]
      PROVE  proc'[p] = q /\ \A o \in Processes \ {p} : proc'[o] = proc[o]
  BY <1>0, <1>1
<1>2. CASE Connect(p)
  <2> DEFINE q == [Down EXCEPT !.pc = "migrating", !.payload = cache.payload]
  <2>1. q.pc = "migrating" /\ q.payload = cache.payload
    BY ProcTyped DEF Proc
  <2>2. /\ proc' = [proc EXCEPT ![p] = IF BackfillDue THEN q ELSE Idle]
        /\ UNCHANGED <<cache, archive>> /\ proc[p].pc = "down"
    BY <1>2 DEF Connect
  <2> HIDE DEF q
  <2> QED BY <1>1, <2>1, <2>2, ProcTyped DEF Connects
<1>3. CASE Crash(p)
  BY <1>1, <1>3, ProcTyped DEF Crash, Dies
<1>4. CASE CallFresh(p)
  <2> DEFINE q == [Down EXCEPT !.pc = "reading", !.kind = "history",
                               !.payload = cache.payload, !.began = now]
  <2>1. q.pc = "reading" /\ q.payload = cache.payload
    BY ProcTyped DEF Proc
  <2>2. /\ proc' = [proc EXCEPT ![p] = q] /\ proc[p].pc = "idle"
        /\ UNCHANGED <<cache, archive>> /\ cache # None
    BY <1>4 DEF CallFresh, Fresh
  <2> HIDE DEF q
  <2> QED BY <1>1, <2>1, <2>2 DEF Reads
<1>5. ASSUME NEW kind \in {"statements", "history"}, CallStale(p, kind)
      PROVE  Asks(p) /\ \A o \in Processes \ {p} : proc'[o] = proc[o]
  <2> DEFINE q == [Down EXCEPT !.pc = "asked", !.kind = kind,
                               !.payload = NoFigures, !.began = now]
  <2>1. q.pc = "asked"
    BY ProcTyped DEF Proc
  <2>2. /\ proc' = [proc EXCEPT ![p] = q] /\ proc[p].pc = "idle"
        /\ UNCHANGED <<cache, archive>>
    BY <1>5 DEF CallStale
  <2> HIDE DEF q
  <2> QED BY <1>1, <2>1, <2>2 DEF Asks
<1>6. CASE NoStatements(p)
  <2> DEFINE q == [proc[p] EXCEPT !.pc = "answered", !.payload = None]
  <2>1. q.pc = "answered"
    BY <1>0 DEF Proc
  <2>2. /\ proc' = [proc EXCEPT ![p] = q] /\ proc[p].pc = "asked"
        /\ UNCHANGED <<cache, archive>>
    BY <1>6 DEF NoStatements
  <2> HIDE DEF q
  <2> QED BY <1>1, <2>1, <2>2 DEF Asks
<1>7. CASE ReadSection(p)
  <2> DEFINE next == proc[p].read + 1
             made(lines) == [proc[p].payload EXCEPT ![next] = InPeriods(p, lines)]
             pc == IF next = NSections THEN "answered" ELSE "asked"
             read == IF next = NSections THEN 0 ELSE next
             q(payload) == [proc[p] EXCEPT !.payload = payload, !.pc = pc, !.read = read]
  <2>1. PICK lines \in Answers : proc' = [proc EXCEPT ![p] = q(made(lines))]
    BY <1>7 DEF ReadSection
  <2>2. proc[p].pc = "asked" /\ UNCHANGED <<cache, archive>>
    BY <1>7 DEF ReadSection
  <2>3. pc \in {"asked", "answered"}
    OBVIOUS
  <2> HIDE DEF made, pc, read
  <2>4. q(made(lines)).pc = pc
    BY <1>0 DEF Proc
  <2> HIDE DEF q
  <2> QED BY <1>1, <2>1, <2>2, <2>3, <2>4 DEF Asks
<1>8. CASE Unavailable(p) \/ ReadHistory(p)
  BY <1>1, <1>8, ProcTyped DEF Unavailable, ReadHistory, Asks
<1>9. CASE Upsert(p)
  <2> DEFINE q == [proc[p] EXCEPT !.pc = "cached"]
  <2>1. q.pc = "cached" /\ q.payload = proc[p].payload
    BY <1>0 DEF Proc
  <2>2. /\ proc' = [proc EXCEPT ![p] = q] /\ proc[p].pc = "answered"
        /\ cache'.payload = proc[p].payload /\ UNCHANGED archive
    BY <1>9 DEF Upsert, Row
  <2> HIDE DEF q
  <2> QED BY <1>1, <2>1, <2>2 DEF Writes
<1>10. CASE Bank(p)
  <2> DEFINE q == IF proc[p].kind = "history" THEN [proc[p] EXCEPT !.pc = "reading"] ELSE Idle
  <2>1. q.pc \in {"reading", "idle"} /\ (q.pc = "reading" => q.payload = proc[p].payload)
    BY <1>0, ProcTyped DEF Proc
  <2>2. /\ proc' = [proc EXCEPT ![p] = q] /\ proc[p].pc = "cached" /\ UNCHANGED cache
        /\ archive' = IF proc[p].payload = None THEN archive ELSE Banked(proc[p].payload)
    BY <1>10 DEF Bank
  <2> HIDE DEF q
  <2> QED BY <1>1, <2>1, <2>2 DEF Banks
<1>11. CASE Backfill(p)
  BY <1>1, <1>11, ProcTyped DEF Backfill, Banks, ReadInv, Making
<1> QED BY <1>2, <1>3, <1>4, <1>5, <1>6, <1>7, <1>8, <1>9, <1>10, <1>11 DEF ProcessStep

\* Any other step leaves the store and the processes alone.
LEMMA WorldLeaves ==
  ASSUME [Next]_vars, \A p \in Processes : ~ProcessStep(p)
  PROVE  UNCHANGED <<cache, archive, proc>>
BY DEF Next, vars, Tick, File, Restate

LEMMA StepBanked ==
  ASSUME ReadInv, RowBanked, NEW p \in Processes, ProcessStep(p),
         ~(proc[p].pc = "cached" /\ proc'[p].pc = "down")
  PROVE  RowBanked'
<1>0. \A o \in Processes \ {p} : proc'[o] = proc[o]
  BY StepIsOne
<1>1. CASE Writes(p)
  BY <1>1 DEF Writes, RowBanked
<1>2. CASE Banks(p)
  <2>1. cache' = cache /\ Periods(archive) \subseteq Periods(archive')
    BY <1>2, BankingAdds DEF Banks
  <2>2. ASSUME cache # None, cache.payload # None, proc[p].payload = cache.payload
        PROVE  Periods(cache.payload) \subseteq Periods(archive')
    BY <1>2, <2>2, BankingAdds DEF Banks
  <2>3. ASSUME cache # None, cache.payload # None PROVE RowBanked'
    <3>1. CASE proc[p].payload = cache.payload
      BY <2>1, <2>2, <2>3, <3>1 DEF RowBanked, Periods
    <3>2. CASE Periods(cache.payload) \subseteq Periods(archive)
      BY <2>1, <3>2 DEF RowBanked, Periods
    <3>3. CASE \E o \in Processes \ {p} :
                 proc[o].pc = "cached" /\ proc[o].payload = cache.payload
      BY <1>0, <2>1, <3>3 DEF RowBanked
    <3> QED BY <1>2, <2>3, <3>1, <3>2, <3>3 DEF RowBanked, Banks
  <2> QED BY <2>1, <2>3 DEF RowBanked
<1>3. CASE Dies(p) \/ Connects(p) \/ Reads(p) \/ Asks(p)
  <2>1. UNCHANGED <<cache, archive>>
    BY <1>3 DEF Dies, Connects, Reads, Asks
  <2> SUFFICES ASSUME cache # None, cache.payload # None PROVE RowBanked'
    BY <2>1 DEF RowBanked
  <2>2. CASE Periods(cache.payload) \subseteq Periods(archive)
    BY <2>1, <2>2 DEF RowBanked
  <2>3. CASE \E o \in Processes : proc[o].pc = "cached" /\ proc[o].payload = cache.payload
    <3>1. proc[p].pc # "cached"
      BY <1>3 DEF Dies, Connects, Reads, Asks
    <3> QED BY <1>0, <2>1, <2>3, <3>1 DEF RowBanked
  <2>4. CASE /\ Periods(archive) = {}
             /\ \A o \in Processes :
                  \/ proc[o].pc = "down"
                  \/ proc[o].pc = "migrating" /\ proc[o].payload = cache.payload
    <3>1. Dies(p) \/ Connects(p)
      BY <1>3, <2>4 DEF Reads, Asks
    <3>2. CASE Connects(p) /\ BackfillDue
      BY <1>0, <2>1, <2>4, <3>2 DEF RowBanked, Connects
    <3>3. BackfillDue
      BY <2>4 DEF BackfillDue, Periods
    <3>4. CASE Dies(p)
      BY <1>0, <2>1, <2>4, <3>4 DEF RowBanked, Dies
    <3> QED BY <3>1, <3>2, <3>3, <3>4
  <2> QED BY <2>2, <2>3, <2>4 DEF RowBanked
<1> QED BY <1>1, <1>2, <1>3, StepIsOne

\* One process moves, and never are two at work.
LEMMA StepAlone ==
  ASSUME ReadInv, NEW p \in Processes, ProcessStep(p), OneAtATime, OneAtATime',
         BanksTheRow
  PROVE  /\ BanksTheRow'
         /\ RowCurrent /\ HistoryReachesLive
            /\ ~(proc[p].pc = "cached" /\ proc'[p].pc = "down")
            => RowCurrent' /\ HistoryReachesLive'
<1>0. /\ \A o \in Processes \ {p} : proc'[o] = proc[o]
      /\ 1 \in Sections /\ \A l \in Periods(cache.payload) : l \in Labels
  BY StepIsOne, SectionsTyped DEF Periods, Held
<1>a. ASSUME proc[p].pc \notin {"down", "idle"} \/ proc'[p].pc \notin {"down", "idle"}
      PROVE  \A o \in Processes \ {p} : proc'[o].pc \in {"down", "idle"}
  BY <1>0, <1>a DEF OneAtATime, Working
<1>1. CASE Writes(p)
  <2>1. \A o \in Processes \ {p} : proc'[o].pc \in {"down", "idle"}
    BY <1>1, <1>a DEF Writes
  <2>2. BanksTheRow'
    BY <1>1, <2>1 DEF Writes, BanksTheRow
  <2>3. RowCurrent'
    BY <1>1 DEF Writes, RowCurrent
  <2>4. HistoryReachesLive'
    BY <1>1, <2>1 DEF Writes, HistoryReachesLive
  <2> QED BY <2>2, <2>3, <2>4
<1>2. CASE Banks(p)
  <2>1. \A o \in Processes \ {p} : proc'[o].pc \in {"down", "idle"}
    BY <1>2, <1>a DEF Banks
  <2>2. BanksTheRow'
    BY <1>2, <2>1 DEF Banks, BanksTheRow
  <2>3. cache' = cache /\ proc[p].payload = cache.payload
    BY <1>2 DEF Banks, BanksTheRow
  <2>4. ASSUME cache.payload # None
        PROVE  /\ Periods(cache.payload) \subseteq Periods(archive')
               /\ \A s \in Sections : \A l \in Periods(cache.payload) :
                    archive'[s][l] = cache.payload[s][l]
    <3>1. archive' = Banked(cache.payload)
      BY <1>2, <2>3, <2>4 DEF Banks
    <3> QED BY <3>1, BankingAdds
  <2>5. RowCurrent'
    BY <2>3, <2>4 DEF RowCurrent
  <2>6. proc'[p].pc = "reading" => proc'[p].payload = cache.payload
    BY <1>2, <2>3 DEF Banks
  <2>7. HistoryReachesLive'
    BY <2>1, <2>4, <2>6 DEF HistoryReachesLive, Periods
  <2> QED BY <2>2, <2>5, <2>7
<1>3. CASE Dies(p)
  <2>1. BanksTheRow'
    BY <1>0, <1>3 DEF Dies, BanksTheRow
  <2>2. ASSUME RowCurrent, ~(proc[p].pc = "cached" /\ proc'[p].pc = "down")
        PROVE  RowCurrent'
    BY <1>0, <1>3, <2>2 DEF Dies, RowCurrent
  <2>3. HistoryReachesLive => HistoryReachesLive'
    BY <1>0, <1>3 DEF Dies, HistoryReachesLive
  <2> QED BY <2>1, <2>2, <2>3
<1>4. CASE Connects(p)
  <2>1. BanksTheRow'
    BY <1>0, <1>4 DEF Connects, BanksTheRow
  <2>2. ASSUME RowCurrent PROVE RowCurrent'
    <3> SUFFICES ASSUME cache # None, cache.payload # None PROVE RowCurrent'
      BY <1>4 DEF Connects, RowCurrent
    <3>1. CASE \A s \in Sections : \A l \in Periods(cache.payload) :
                 archive[s][l] = cache.payload[s][l]
      BY <1>4, <3>1 DEF Connects, RowCurrent
    <3>2. CASE \E o \in Processes : proc[o].pc = "cached"
      BY <1>0, <1>4, <3>2 DEF Connects, RowCurrent
    <3>3. CASE Periods(archive) = {} /\ \A o \in Processes : proc[o].pc \in {"down", "migrating"}
      <4>1. BackfillDue
        BY <3>3 DEF BackfillDue, Periods
      <4> QED BY <1>0, <1>4, <3>3, <4>1 DEF Connects, RowCurrent
    <3> QED BY <2>2, <3>1, <3>2, <3>3 DEF RowCurrent
  <2>3. HistoryReachesLive => HistoryReachesLive'
    BY <1>0, <1>4 DEF Connects, HistoryReachesLive
  <2> QED BY <2>1, <2>2, <2>3
<1>5. CASE Reads(p)
  <2>1. \A o \in Processes \ {p} : proc[o].pc \in {"down", "idle"}
    BY <1>0, <1>5, <1>a DEF Reads
  <2>2. BanksTheRow'
    BY <1>0, <1>5 DEF Reads, BanksTheRow
  <2>3. ASSUME RowCurrent, cache.payload # None
        PROVE  \A s \in Sections : \A l \in Periods(cache.payload) :
                 archive[s][l] = cache.payload[s][l]
    <3>1. cache # None /\ proc[p].pc = "idle"
      BY <1>5 DEF Reads
    <3> QED BY <2>1, <2>3, <3>1 DEF RowCurrent
  <2>4. RowCurrent => RowCurrent'
    BY <1>5, <2>3 DEF Reads, RowCurrent
  <2>5. ASSUME RowCurrent, cache.payload # None
        PROVE  Periods(cache.payload) \subseteq Periods(archive)
    <3>1. \A l \in Periods(cache.payload) : archive[1][l] = cache.payload[1][l]
      BY <1>0, <2>3, <2>5
    <3> QED BY <1>0, <3>1 DEF Periods, Held
  <2>6. RowCurrent => HistoryReachesLive'
    BY <1>0, <1>5, <2>1, <2>5 DEF Reads, HistoryReachesLive, Periods
  <2> QED BY <2>2, <2>4, <2>6
<1>6. CASE Asks(p)
  <2>1. BanksTheRow'
    BY <1>0, <1>6 DEF Asks, BanksTheRow
  <2>2. RowCurrent => RowCurrent'
    BY <1>0, <1>6 DEF Asks, RowCurrent
  <2>3. HistoryReachesLive => HistoryReachesLive'
    BY <1>0, <1>6 DEF Asks, HistoryReachesLive
  <2> QED BY <2>1, <2>2, <2>3
<1> QED BY <1>1, <1>2, <1>3, <1>4, <1>5, <1>6, StepIsOne

\* What the two history variables say of a step.
LEMMA StepRemembered ==
  ASSUME [MCNext]_mcvars
  PROVE  /\ ~torn' => ~torn /\ \A p \in Processes :
                              ~(proc[p].pc = "cached" /\ proc'[p].pc = "down")
         /\ ~overlapped' /\ (~overlapped => OneAtATime) => ~overlapped /\ OneAtATime'
<1>1. CASE MCNext
  <2>1. torn' = (torn \/ \E p \in Processes : proc[p].pc = "cached" /\ proc'[p].pc = "down")
    BY <1>1 DEF MCNext
  <2>2. overlapped' = (overlapped \/ \E p, q \in Processes :
                                       p # q /\ Working(p)' /\ Working(q)')
    BY <1>1 DEF MCNext
  <2> QED BY <2>1, <2>2 DEF OneAtATime
<1>2. CASE UNCHANGED mcvars
  <2>1. proc' = proc /\ (torn' <=> torn) /\ (overlapped' <=> overlapped)
    BY <1>2 DEF mcvars, vars
  <2>2. \A p \in Processes : ~(proc[p].pc = "cached" /\ proc'[p].pc = "down")
    BY <2>1
  <2>3. OneAtATime => OneAtATime'
    BY <2>1 DEF OneAtATime, Working
  <2> QED BY <2>1, <2>2, <2>3
<1> QED BY <1>1, <1>2

LEMMA NextBanked == ASSUME ReadInv, BankedInv, [MCNext]_mcvars PROVE BankedInv'
<1> SUFFICES ASSUME ~torn' PROVE RowBanked'
  BY DEF BankedInv
<1>1. /\ RowBanked /\ [Next]_vars
      /\ \A p \in Processes : ~(proc[p].pc = "cached" /\ proc'[p].pc = "down")
  BY StepRemembered, MCStep DEF BankedInv
<1>2. CASE \E p \in Processes : ProcessStep(p)
  BY <1>1, <1>2, StepBanked
<1>3. CASE \A p \in Processes : ~ProcessStep(p)
  <2>1. UNCHANGED <<cache, archive, proc>>
    BY <1>1, <1>3, WorldLeaves
  <2> QED BY <1>1, <2>1 DEF RowBanked, Periods
<1> QED BY <1>2, <1>3

LEMMA NextAlone == ASSUME ReadInv, AloneInv, [MCNext]_mcvars PROVE AloneInv'
<1> SUFFICES ASSUME ~overlapped'
             PROVE  /\ OneAtATime' /\ BanksTheRow'
                    /\ ~torn' => RowCurrent' /\ HistoryReachesLive'
  BY DEF AloneInv
<1>1. /\ OneAtATime /\ OneAtATime' /\ BanksTheRow /\ [Next]_vars
      /\ ~torn => RowCurrent /\ HistoryReachesLive
  BY StepRemembered, MCStep DEF AloneInv
<1>2. ~torn' => ~torn /\ \A p \in Processes : ~(proc[p].pc = "cached" /\ proc'[p].pc = "down")
  BY StepRemembered
<1>3. ASSUME NEW p \in Processes, ProcessStep(p)
      PROVE  /\ BanksTheRow'
             /\ ~torn' => RowCurrent' /\ HistoryReachesLive'
  BY <1>1, <1>2, <1>3, StepAlone
<1>4. CASE \A p \in Processes : ~ProcessStep(p)
  <2>1. UNCHANGED <<cache, archive, proc>>
    BY <1>1, <1>4, WorldLeaves
  <2>2. BanksTheRow'
    BY <1>1, <2>1 DEF BanksTheRow
  <2>3. RowCurrent => RowCurrent'
    BY <2>1 DEF RowCurrent, Periods
  <2>4. HistoryReachesLive => HistoryReachesLive'
    BY <2>1 DEF HistoryReachesLive, Periods
  <2> QED BY <1>1, <1>2, <2>2, <2>3, <2>4
<1> QED BY <1>1, <1>3, <1>4

LEMMA InitBanked == MCInit => BankedInv /\ AloneInv
<1> SUFFICES ASSUME MCInit PROVE RowBanked /\ OneAtATime /\ BanksTheRow
                                 /\ RowCurrent /\ HistoryReachesLive
  BY DEF BankedInv, AloneInv
<1>1. \A p \in Processes : proc[p].pc = "down"
  BY ProcTyped DEF MCInit, Init
<1>2. Periods(archive) = {}
  BY SectionsTyped DEF MCInit, Init, Periods, Held, NoFigures, NoLines
<1> QED BY <1>1, <1>2
           DEF RowBanked, OneAtATime, Working, BanksTheRow, RowCurrent, HistoryReachesLive

\* However many processes share the database and wherever they die but for the gap
\* between the two writes of a fetch, every period a fetch saw is a row of the archive
\* by the time nobody is writing.
THEOREM EveryPeriodBanked == MCSpec => []BankedUnlessTorn
<1>1. ReadInv /\ BankedInv /\ [MCNext]_mcvars => BankedInv'
  BY NextBanked
<1>2. BankedInv => BankedUnlessTorn
  BY StatementAssumption DEF BankedInv, BankedUnlessTorn, RowBanked, EveryFetchBanked
<1> QED BY <1>1, <1>2, InitBanked, MCRead, PTL DEF MCSpec

LEMMA AlwaysAlone == MCSpec => []AloneInv
<1>1. ReadInv /\ AloneInv /\ [MCNext]_mcvars => AloneInv'
  BY NextAlone
<1> QED BY <1>1, InitBanked, MCRead, PTL DEF MCSpec

\* While no two calls overlap and none died between its two writes, the archive holds
\* the figures of the newest fetch.
THEOREM CurrentWhenAlone == MCSpec => []CurrentOneAtATime
<1>1. AloneInv => CurrentOneAtATime
  BY StatementAssumption
     DEF AloneInv, CurrentOneAtATime, ArchiveIsCurrent, RowCurrent
<1> QED BY <1>1, AlwaysAlone, PTL

\* While no two calls overlap and none died between its two writes, a history answer
\* reaches every period of the live answer it is built on.
THEOREM HistoryWhenAlone == MCSpec => []HistoryOneAtATime
<1>1. AloneInv => HistoryOneAtATime
  BY DEF AloneInv, HistoryOneAtATime
<1> QED BY <1>1, AlwaysAlone, PTL
=============================================================================
