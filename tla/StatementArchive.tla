-------------------------- MODULE StatementArchive --------------------------
(***************************************************************************)
(* The statements of one (symbol, period): the cache row of md_statements, *)
(* the archive md_statement_periods grown from it, get_statements and      *)
(* get_statement_history of adapter.py over both, and the backfill         *)
(* init_schema runs when a process first connects.                         *)
(*                                                                         *)
(* A period label is a number.  Its figures are one revision per section,  *)
(* 0 not there, 1 provisional, 2 restated; the issuer files the sections   *)
(* of a period together, and Vietcap serves each on a request of its own,  *)
(* the income statement (section 1) first.  A step ends at a commit or at  *)
(* a request; Crash loses what a process held in memory.                   *)
(***************************************************************************)
EXTENDS Integers, FiniteSets

CONSTANTS
  Processes,     \* processes sharing the database, one call at a time each
  NSections,     \* _SECTIONS
  LastLabel,     \* labels are 1 .. LastLabel
  Window,        \* _PERIOD_WINDOW
  FiledBefore,   \* the most periods filed before the model starts
  Restatable,    \* labels whose figures may be restated
  Unreadable,    \* may a section be answered by nothing that can be read?
  TTL,           \* STATEMENTS_TTL_S
  MaxCallTicks,  \* the ticks a call may outlive
  End,           \* the last instant
  CanCrash,      \* may a process die and be restarted?
  None

Labels == 1 .. LastLabel
Sections == 1 .. NSections
Revision == 0 .. 2
Lines == [Labels -> Revision]
Figures == [Sections -> Lines]
NoLines == [l \in Labels |-> 0]
NoFigures == [s \in Sections |-> NoLines]

ASSUME StatementAssumption ==
  /\ Processes # {} /\ NSections \in Nat \ {0} /\ LastLabel \in Nat
  /\ Window \in Nat \ {0} /\ FiledBefore \in 0 .. LastLabel
  /\ Restatable \subseteq Labels /\ Unreadable \in BOOLEAN /\ CanCrash \in BOOLEAN
  /\ TTL \in Nat /\ MaxCallTicks \in Nat /\ End \in Nat
  /\ None \notin Figures /\ None \notin [Sections -> Revision]

VARIABLES
  now,
  filed,    \* what the issuer has filed, as the source would serve it
  filedAt,  \* label -> when its current figures were filed
  cache,    \* the md_statements row, or None
  archive,  \* md_statement_periods: the banked figures; no row, no income line
  proc      \* what each process is doing

vars == <<now, filed, filedAt, cache, archive, proc>>

PCs == {"down", "migrating", "idle", "asked", "answered", "cached", "reading"}
Proc == [pc : PCs, kind : {"statements", "history"},
         payload : Figures \cup {None}, read : 0 .. NSections, began : Int]

Down == [pc |-> "down", kind |-> "statements", payload |-> None,
         read |-> 0, began |-> 0]
Idle == [Down EXCEPT !.pc = "idle"]

TypeOK ==
  /\ now \in Int /\ filed \in Lines /\ filedAt \in [Labels -> Int]
  /\ cache \in [payload : Figures \cup {None}, fetched : Int] \cup {None}
  /\ archive \in Figures
  /\ proc \in [Processes -> Proc]

Held(lines) == {l \in Labels : lines[l] # 0}
Within(labels, lines) == [l \in Labels |-> IF l \in labels THEN lines[l] ELSE 0]

\* The periods a payload has: those of its income statement.
Periods(payload) == Held(payload[1])

\* What a section request is answered with: the newest Window periods filed.
Newest(lines) ==
  {l \in Held(lines) : Cardinality({m \in Held(lines) : m > l}) < Window}
Served == Within(Newest(filed), filed)

Init ==
  /\ now = 0
  /\ \E n \in 0 .. FiledBefore : filed = [l \in Labels |-> IF l <= n THEN 1 ELSE 0]
  /\ filedAt = [l \in Labels |-> 0]
  /\ cache \in {None} \cup  \* or a row older than the archive
       IF Held(filed) = {} THEN {}
       ELSE {[payload |-> [s \in Sections |-> Served], fetched |-> 0]}
  /\ archive = NoFigures
  /\ proc = [p \in Processes |-> Down]
-----------------------------------------------------------------------------
\* The issuer files the next period, or restates one.

File(l) ==
  /\ filed[l] = 0 /\ \A m \in Labels : m < l => filed[m] # 0
  /\ filed' = [filed EXCEPT ![l] = 1] /\ filedAt' = [filedAt EXCEPT ![l] = now]
  /\ UNCHANGED <<now, cache, archive, proc>>

Restate(l) ==
  /\ filed[l] = 1 /\ l \in Restatable
  /\ filed' = [filed EXCEPT ![l] = 2] /\ filedAt' = [filedAt EXCEPT ![l] = now]
  /\ UNCHANGED <<now, cache, archive, proc>>

Tick ==
  /\ now < End
  /\ \A p \in Processes : proc[p].pc \in {"asked", "answered", "cached", "reading"}
                          => now - proc[p].began < MaxCallTicks
  /\ now' = now + 1
  /\ UNCHANGED <<filed, filedAt, cache, archive, proc>>
-----------------------------------------------------------------------------
\* bank_statement_periods: every period of a payload gets its own row, written
\* whole over the one of before.  Mutated: rows are written once; the archive is;
\* what a payload lacks of a row is kept.
BankedOnce(payload) ==
  [s \in Sections |-> [l \in Labels |->
     IF archive[1][l] = 0 THEN payload[s][l] ELSE archive[s][l]]]
BankedWhenEmpty(payload) == IF Held(archive[1]) = {} THEN payload ELSE archive
BankedByCell(payload) ==
  [s \in Sections |-> [l \in Labels |->
     IF payload[s][l] # 0 THEN payload[s][l] ELSE archive[s][l]]]

Banked(payload) ==
  [s \in Sections |-> [l \in Labels |->
     IF l \in Periods(payload) THEN payload[s][l] ELSE archive[s][l]]]

\* Mutated: no backfill.
BackfillDropped == FALSE

\* The pairs _backfill_statement_archive selects: cached, nothing archived.
BackfillDue == cache # None /\ cache.payload # None /\ Held(archive[1]) = {}

Connect(p) ==
  /\ proc[p].pc = "down"
  /\ proc' = [proc EXCEPT ![p] =
       IF BackfillDue THEN [Down EXCEPT !.pc = "migrating", !.payload = cache.payload]
       ELSE Idle]
  /\ UNCHANGED <<now, filed, filedAt, cache, archive>>

Backfill(p) ==
  /\ proc[p].pc = "migrating"
  /\ archive' = Banked(proc[p].payload)
  /\ proc' = [proc EXCEPT ![p] = Idle]
  /\ UNCHANGED <<now, filed, filedAt, cache>>
-----------------------------------------------------------------------------
\* Mutated: a row of any age is fresh.
FreshAtAnyAge == cache # None

Fresh == cache # None /\ now - cache.fetched < TTL

\* get_statements answered from the cache changes nothing; get_statement_history
\* goes on to the archive with that answer.
CallFresh(p) ==
  /\ proc[p].pc = "idle" /\ Fresh
  /\ proc' = [proc EXCEPT ![p] = [Down EXCEPT
       !.pc = "reading", !.kind = "history", !.payload = cache.payload, !.began = now]]
  /\ UNCHANGED <<now, filed, filedAt, cache, archive>>

CallStale(p, kind) ==
  /\ proc[p].pc = "idle" /\ ~Fresh
  /\ proc' = [proc EXCEPT ![p] = [Down EXCEPT
       !.pc = "asked", !.kind = kind, !.payload = NoFigures, !.began = now]]
  /\ UNCHANGED <<now, filed, filedAt, cache, archive>>

\* Mutated: a section the source refuses is a section without rows.
AnswersRefusedIsEmpty == {Served, NoLines}

\* A null, a 4xx or a body that is no JSON reads as None: no statements if it is
\* the income section, and a section without rows (`or {}`) if it is a later one.
Answers == IF Unreadable THEN {Served, NoLines} ELSE {Served}

\* No income line of any period: there are no statements to ask the rest of.
NoStatements(p) ==
  /\ proc[p].pc = "asked" /\ proc[p].read = 0 /\ NoLines \in Answers
  /\ proc' = [proc EXCEPT ![p] = [@ EXCEPT !.pc = "answered", !.payload = None]]
  /\ UNCHANGED <<now, filed, filedAt, cache, archive>>

\* _lines reads the later sections at the periods of the income statement.
InPeriods(p, lines) ==
  IF proc[p].read = 0 THEN lines ELSE Within(Periods(proc[p].payload), lines)

ReadSection(p) ==
  /\ proc[p].pc = "asked"
  /\ \E lines \in Answers :
       /\ proc[p].read = 0 => lines # NoLines
       /\ LET next == proc[p].read + 1
              payload == [proc[p].payload EXCEPT ![next] = InPeriods(p, lines)]
          IN proc' = [proc EXCEPT ![p] = [@ EXCEPT !.payload = payload,
               !.pc = IF next = NSections THEN "answered" ELSE "asked",
               !.read = IF next = NSections THEN 0 ELSE next]]
  /\ UNCHANGED <<now, filed, filedAt, cache, archive>>

\* One of the requests of an answer (a section, the line names, a bank's ratios) is
\* refused: the whole answer is.
Unavailable(p) ==
  /\ proc[p].pc = "asked"
  /\ proc' = [proc EXCEPT ![p] = Idle]
  /\ UNCHANGED <<now, filed, filedAt, cache, archive>>

\* Mutated: the row carries no readable time.
RowUndated(payload) == [payload |-> payload, fetched |-> None]

Row(payload) == [payload |-> payload, fetched |-> now]

\* upsert_statements; a payload of None is the negative cache.
Upsert(p) ==
  /\ proc[p].pc = "answered"
  /\ cache' = Row(proc[p].payload)
  /\ proc' = [proc EXCEPT ![p] = [@ EXCEPT !.pc = "cached"]]
  /\ UNCHANGED <<now, filed, filedAt, archive>>

Bank(p) ==
  /\ proc[p].pc = "cached"
  /\ archive' = IF proc[p].payload = None THEN archive ELSE Banked(proc[p].payload)
  /\ proc' = [proc EXCEPT ![p] =
       IF proc[p].kind = "history" THEN [@ EXCEPT !.pc = "reading"] ELSE Idle]
  /\ UNCHANGED <<now, filed, filedAt, cache>>

\* get_statement_history reads the archive and answers.
ReadHistory(p) ==
  /\ proc[p].pc = "reading"
  /\ proc' = [proc EXCEPT ![p] = Idle]
  /\ UNCHANGED <<now, filed, filedAt, cache, archive>>

Crash(p) ==
  /\ CanCrash /\ proc[p].pc # "down"
  /\ proc' = [proc EXCEPT ![p] = Down]
  /\ UNCHANGED <<now, filed, filedAt, cache, archive>>

ProcessStep(p) ==
  \/ Connect(p) \/ Backfill(p)
  \/ CallFresh(p) \/ \E kind \in {"statements", "history"} : CallStale(p, kind)
  \/ ReadSection(p) \/ NoStatements(p) \/ Unavailable(p)
  \/ Upsert(p) \/ Bank(p) \/ ReadHistory(p)
  \/ Crash(p)

Next ==
  \/ Tick
  \/ \E l \in Labels : File(l) \/ Restate(l)
  \/ \E p \in Processes : ProcessStep(p)

Spec == Init /\ [][Next]_vars
-----------------------------------------------------------------------------
\* The abstract archive this one is an implementation of.

Archive == INSTANCE PeriodArchive WITH
  rows <- [l \in Labels |-> IF archive[1][l] = 0 THEN None
                            ELSE [s \in Sections |-> archive[s][l]]]

\* The archive only ever takes whole rows, each read section by section from what
\* the issuer had filed and none of it older than its income line, and never loses
\* a row: whatever the processes, their crashes and the backfill interleave
\* (bank_statement_periods, which replaces a row as a whole).
ArchiveSpec == Archive!Spec
-----------------------------------------------------------------------------
\* Every period a fetch saw is a row of the archive by the time nobody is writing,
\* the fetches of before the archive existed included (bank_statement_periods after
\* upsert_statements, and _backfill_statement_archive).
EveryFetchBanked ==
  /\ \A p \in Processes : proc[p].pc \notin {"down", "migrating", "cached"}
  /\ cache # None /\ cache.payload # None
  => Periods(cache.payload) \subseteq Periods(archive)

\* For a process alone with the database, the archive holds the figures of the
\* newest fetch, section by section: a restated figure replaces the provisional one.
ArchiveIsCurrent ==
  /\ \A p \in Processes : proc[p].pc \notin {"down", "migrating", "cached"}
  /\ cache # None /\ cache.payload # None
  => \A s \in Sections : \A l \in Periods(cache.payload) :
       archive[s][l] = cache.payload[s][l]

\* A history answer reaches every period the live answer it is built on has
\* (get_statement_history refreshes first, then reads the archive).
HistoryReachesLive ==
  \A p \in Processes :
    proc[p].pc = "reading" /\ proc[p].payload # None =>
      Periods(proc[p].payload) \subseteq Periods(archive)

\* No answer served from the cache lacks a section of what the issuer filed longer
\* ago than the TTL and one slow call, whatever calls raced to write the row and
\* whatever was filed between the requests of one answer.
ServedIsRecent ==
  Fresh =>
    \A s \in Sections : \A l \in Newest(filed) :
      filedAt[l] <= now - TTL - MaxCallTicks =>
        cache.payload # None /\ cache.payload[s][l] = filed[l]

\* A figure the archive has is not lost while the source still serves its period:
\* neither a request refused in the middle of an answer nor a period filed between
\* two of them blanks one (_section raising, the periods of _lines).
FigureKeptInWindow ==
  [][\A s \in Sections : \A l \in Newest(filed) :
       archive[s][l] # 0 => archive'[s][l] # 0]_vars

\* A banked figure is never replaced by an older one (schema.sql:65-66).  Not kept:
\* StatementsRacing.cfg.
FigureNeverReverts ==
  [][\A s \in Sections : \A l \in Labels :
       archive'[s][l] # 0 => archive'[s][l] >= archive[s][l]]_vars

\* A figure once banked stays, whatever the source goes on to serve (schema.sql:59-64,
\* db.py:87-93).  Not kept: StatementsShift.cfg, StatementsUnreadable.cfg.
FigureNeverLost ==
  [][\A s \in Sections : \A l \in Labels :
       archive[s][l] # 0 => archive'[s][l] # 0]_vars
=============================================================================
