------------------------------ MODULE RowCaches ------------------------------
(***************************************************************************)
(* The caches that replace all the rows of a key at once: the corporate    *)
(* events of a symbol (get_events) or the members of an index              *)
(* (get_index_constituents), over a database file that several processes   *)
(* share and that the first connection of each migrates (db.py).  The two  *)
(* share no row: a behaviour is about one key of one kind.                 *)
(*                                                                         *)
(* An item is an event or a stock, its row a version of it, 0 not listed.  *)
(* A step ends at a commit, a request or a PRAGMA read; Crash loses what a *)
(* process held in memory, never what it committed.                        *)
(***************************************************************************)
EXTENDS Integers, FiniteSets

CONSTANTS
  Processes,     \* processes sharing the database, one call at a time each
  NTables,       \* tables _migrate adds columns to
  NColumns,      \* columns it adds to each
  NItems,        \* items are 1 .. NItems, the newest event the greatest
  ListedBefore,  \* how many items are listed before the model starts
  Revisable,     \* events that may be revised
  Withdrawable,  \* events that may be taken off the calendar
  PageSize,      \* _EVENT_PAGE
  MaxPages,      \* _EVENT_MAX_PAGES
  Unreadable,    \* event pages that may be answered by nothing that can be read
  Partial,       \* event pages that may come without their rows or without totalPages
  TTL,           \* EVENTS_TTL_S, MEMBERS_TTL_S
  MaxCallTicks,  \* the ticks a call may outlive
  End,           \* the last instant
  None

Tables == 1 .. NTables
Columns == Tables \X (1 .. NColumns)
Kinds == {"events", "members"}
Items == 1 .. NItems
Version == 0 .. 2
Row == Items \X (1 .. 2)
Rows == [Row -> 0 .. MaxPages]  \* how many of each: no key keeps a row unique

ASSUME RowAssumption ==
  /\ NTables \in Nat /\ NColumns \in Nat /\ NItems \in Nat
  /\ ListedBefore \in 0 .. NItems
  /\ Revisable \subseteq Items /\ Withdrawable \subseteq Items
  /\ PageSize \in Nat \ {0} /\ MaxPages \in Nat \ {0}
  /\ Unreadable \subseteq Nat /\ Partial \subseteq Nat
  /\ TTL \in Nat /\ MaxCallTicks \in Nat /\ End \in Nat
  /\ None \notin Int

VARIABLES
  now,
  kind,     \* of which kind the key is
  listed,   \* what the source would serve of it: item -> version
  since,    \* item -> since when it would
  columns,  \* the added columns the tables of the file have
  stored,   \* md_events or md_index_members: the rows of the key
  meta,     \* md_fetch_meta: when it was fetched, or None
  short,    \* is a list that was cut short stored?  History: the file does not say
  proc      \* what each process is doing

vars == <<now, kind, listed, since, columns, stored, meta, short, proc>>
world == <<kind, listed, since>>
file == <<columns, stored, meta, short>>

PCs == {"down", "failed", "migrating", "idle", "asked", "answered", "replaced"}
Proc == [pc : PCs, table : 0 .. NTables, todo : SUBSET Columns,
         page : 0 .. MaxPages - 1, rows : Rows, short : BOOLEAN, began : Int]

NoRows == [r \in Row |-> 0]
Down == [pc |-> "down", table |-> 0, todo |-> {},
         page |-> 0, rows |-> NoRows, short |-> FALSE, began |-> 0]
Failed == [Down EXCEPT !.pc = "failed"]
Idle == [Down EXCEPT !.pc = "idle"]

TypeOK ==
  /\ now \in Int /\ kind \in Kinds
  /\ listed \in [Items -> Version] /\ since \in [Items -> Int]
  /\ columns \subseteq Columns /\ stored \in Rows /\ meta \in Int \cup {None}
  /\ short \in BOOLEAN
  /\ proc \in [Processes -> Proc]

Listed == {i \in Items : listed[i] # 0}
RowsOf(items) == [r \in Row |-> IF r[1] \in items /\ listed[r[1]] = r[2] THEN 1 ELSE 0]

\* A file of an earlier release has the older of the columns of each table.
Init ==
  /\ now = 0
  /\ kind \in Kinds
  /\ listed = [i \in Items |-> IF i <= ListedBefore THEN 1 ELSE 0]
  /\ since = [i \in Items |-> 0]
  /\ \E n \in [Tables -> 0 .. NColumns] : columns = {c \in Columns : c[2] <= n[c[1]]}
  /\ stored = NoRows /\ meta = None /\ short = FALSE
  /\ proc = [p \in Processes |-> Down]
-----------------------------------------------------------------------------
\* The calendar is revised, the index reviewed, and time passes.

Relist(of, to) ==
  /\ kind = of
  /\ listed' = to
  /\ since' = [i \in Items |-> IF to[i] = listed[i] THEN since[i] ELSE now]
  /\ UNCHANGED <<now, kind, file, proc>>

\* A newer event than any on the calendar.
Announce(i) ==
  /\ \A j \in Listed : j < i
  /\ Relist("events", [listed EXCEPT ![i] = 1])

Revise(i) ==
  /\ i \in Revisable /\ listed[i] = 1
  /\ Relist("events", [listed EXCEPT ![i] = 2])

Withdraw(i) ==
  /\ i \in Withdrawable \cap Listed
  /\ Relist("events", [listed EXCEPT ![i] = 0])

\* One stock leaves the index, another joins.
Review(out, in) ==
  /\ out \in Listed /\ in \notin Listed
  /\ Relist("members", [listed EXCEPT ![out] = 0, ![in] = 1])

Calling(p) == proc[p].pc \in {"asked", "answered", "replaced"}

Tick ==
  /\ now < End
  /\ \A p \in Processes : Calling(p) => now - proc[p].began < MaxCallTicks
  /\ now' = now + 1
  /\ UNCHANGED <<world, file, proc>>
-----------------------------------------------------------------------------
\* connect: the first of a process runs _migrate, table after table.  Mutated: the
\* first of its columns tells the table is whole.
MissingByFirst(t) ==
  IF <<t, 1>> \in columns THEN {} ELSE {c \in Columns \ columns : c[1] = t}

\* Mutated: the columns a table already has are not looked up.
MissingUnchecked(t) == {c \in Columns : c[1] = t}

Missing(t) == {c \in Columns \ columns : c[1] = t}

Connect(p) ==
  /\ proc[p].pc \in {"down", "failed"}
  /\ proc' = [proc EXCEPT ![p] = [Down EXCEPT !.pc = "migrating"]]
  /\ UNCHANGED <<now, world, file>>

\* The columns of the next table are read once, before any of them is added.
Inspect(p) ==
  /\ proc[p].pc = "migrating" /\ proc[p].todo = {}
  /\ LET t == proc[p].table + 1
     IN proc' = [proc EXCEPT ![p] =
          IF t \in Tables THEN [@ EXCEPT !.table = t, !.todo = Missing(t)] ELSE Idle]
  /\ UNCHANGED <<now, world, file>>

\* A column another process has added since the table was read is a duplicate: the
\* connection fails, and the next one starts over.
AfterAlter(q, c) == IF c \in columns THEN Failed ELSE [q EXCEPT !.todo = @ \ {c}]

\* ALTER TABLE commits at once.
Alter(p) ==
  /\ proc[p].pc = "migrating"
  /\ \E c \in proc[p].todo :
       /\ \A d \in proc[p].todo : c[2] <= d[2]
       /\ columns' = columns \cup {c}
       /\ proc' = [proc EXCEPT ![p] = AfterAlter(@, c)]
  /\ UNCHANGED <<now, world, stored, meta, short>>
-----------------------------------------------------------------------------
\* get_events and get_index_constituents.

Fresh == meta # None /\ now - meta < TTL

\* Served from the store, which changes nothing: members only if there are some.
ServesStored == Fresh /\ (kind = "members" => stored # NoRows)

Call(p) ==
  /\ proc[p].pc = "idle" /\ ~ServesStored
  /\ proc' = [proc EXCEPT ![p] = [Down EXCEPT !.pc = "asked", !.began = now]]
  /\ UNCHANGED <<now, world, file>>

\* The source is unavailable: the events call raises, the members one serves what
\* is stored.
Unavailable(p) ==
  /\ proc[p].pc = "asked"
  /\ proc' = [proc EXCEPT ![p] = Idle]
  /\ UNCHANGED <<now, world, file>>

\* The calendar is served newest first, a page per request.
PageOf(page) ==
  {i \in Listed : Cardinality({j \in Listed : j > i}) \div PageSize = page}

\* Mutated: the walk ends only where the source says so.
IsLastAsServed(page) == (page + 1) * PageSize >= Cardinality(Listed)

IsLast(page) ==
  \/ (page + 1) * PageSize >= Cardinality(Listed)  \* totalPages
  \/ page + 1 = MaxPages

ReadPage(p) ==
  /\ proc[p].pc = "asked" /\ kind = "events"
  /\ LET page == proc[p].page
         served == RowsOf(PageOf(page))
         rows == [r \in Row |-> proc[p].rows[r] + served[r]]
     IN proc' = [proc EXCEPT ![p] =
          IF IsLast(page) THEN [@ EXCEPT !.pc = "answered", !.page = 0, !.rows = rows]
          ELSE [@ EXCEPT !.page = page + 1, !.rows = rows]]
  /\ UNCHANGED <<now, world, file>>

\* A list without rows ends the walk, and so does one without a count of pages that
\* can be read, which counts as one page: on whatever page, and however many follow.
PartialPage(p) ==
  /\ proc[p].pc = "asked" /\ kind = "events"
  /\ proc[p].page \in Partial
  /\ LET page == proc[p].page
         whole == RowsOf(PageOf(page))
     IN \E served \in {NoRows, whole} :
          proc' = [proc EXCEPT ![p] = [@ EXCEPT !.pc = "answered", !.page = 0,
            !.rows = [r \in Row |-> proc[p].rows[r] + served[r]],
            !.short = ~IsLast(page) \/ served # whole]]
  /\ UNCHANGED <<now, world, file>>

\* Mutated: a later page that cannot be read ends the list.
AfterUnreadableEnding(q) == [q EXCEPT !.pc = "answered", !.page = 0]

\* No list on the first page is a symbol without events; on a later one, the list
\* would be short, and the call raises.
AfterUnreadable(q) ==
  IF q.page = 0 THEN [q EXCEPT !.pc = "answered", !.short = Listed # {}] ELSE Idle

UnreadablePage(p) ==
  /\ proc[p].pc = "asked" /\ kind = "events"
  /\ proc[p].page \in Unreadable
  /\ proc' = [proc EXCEPT ![p] = AfterUnreadable(@)]
  /\ UNCHANGED <<now, world, file>>

\* Anything but a list of members reads as no members.
ReadMembers(p) ==
  /\ proc[p].pc = "asked" /\ kind = "members"
  /\ \E rows \in {NoRows, RowsOf(Listed)} :
       proc' = [proc EXCEPT ![p] = [@ EXCEPT !.pc = "answered", !.rows = rows]]
  /\ UNCHANGED <<now, world, file>>

\* Mutated: members are replaced whatever the answer.
IsAnswerAlways(q) == TRUE

\* An empty membership is no answer; an empty calendar is one.
IsAnswer(q) == kind = "members" => q.rows # NoRows

\* replace_events, replace_index_members: the delete and the inserts are one commit.
Replace(p) ==
  /\ proc[p].pc = "answered" /\ IsAnswer(proc[p])
  /\ stored' = proc[p].rows /\ short' = proc[p].short
  /\ proc' = [proc EXCEPT ![p] =
       [@ EXCEPT !.pc = "replaced", !.rows = NoRows, !.short = FALSE]]
  /\ UNCHANGED <<now, world, columns, meta>>

KeepStored(p) ==
  /\ proc[p].pc = "answered" /\ ~IsAnswer(proc[p])
  /\ proc' = [proc EXCEPT ![p] = Idle]
  /\ UNCHANGED <<now, world, file>>

\* set_meta, a commit of its own.
Stamp(p) ==
  /\ proc[p].pc = "replaced"
  /\ meta' = now
  /\ proc' = [proc EXCEPT ![p] = Idle]
  /\ UNCHANGED <<now, world, columns, stored, short>>

Crash(p) ==
  /\ proc[p].pc # "down"
  /\ proc' = [proc EXCEPT ![p] = Down]
  /\ UNCHANGED <<now, world, file>>

Migration(p) == Connect(p) \/ Inspect(p) \/ Alter(p)

CallStep(p) ==
  \/ Call(p) \/ Unavailable(p)
  \/ ReadPage(p) \/ PartialPage(p) \/ UnreadablePage(p) \/ ReadMembers(p)
  \/ Replace(p) \/ KeepStored(p) \/ Stamp(p)

Next ==
  \/ Tick
  \/ \E i \in Items : Announce(i) \/ Revise(i) \/ Withdraw(i)
  \/ \E out, in \in Items : Review(out, in)
  \/ \E p \in Processes : Migration(p) \/ CallStep(p) \/ Crash(p)

Spec == Init /\ [][Next]_vars

\* A process whose connection fails connects again, and gets on with it.
FairSpec == Spec /\ \A p \in Processes : WF_vars(Migration(p))
-----------------------------------------------------------------------------
\* A process that has a connection has every column its statements name, whoever else
\* was adding them, and wherever one died half way (init_schema before _initialised).
ConnectedIsMigrated ==
  \A p \in Processes : proc[p].pc \notin {"down", "failed", "migrating"} => columns = Columns

\* However many connections fail on a column another process has just added, a
\* process gets one in the end, unless processes go on dying for ever (_migrate,
\* which starts from what the tables have).
Connects ==
  <>[][~\E p \in Processes : Crash(p)]_vars =>
    \A p \in Processes : []<>(proc[p].pc \notin {"failed", "migrating"})

\* The walk stops at _EVENT_MAX_PAGES: an event with so many newer ones is not asked for.
Within(i) ==
  kind = "events" => Cardinality({j \in Listed : j > i}) < MaxPages * PageSize

\* While the marker is fresh, the rows are those of every item as it has stood for
\* longer than the TTL and two slow calls, one that wrote the rows and one that set
\* the marker: nothing left out by a later page that could not be read, nothing left
\* over from before, whatever calls raced or died between the rows and the marker
\* (replace_events, then set_meta).  A list the walk ended too early shows less, until
\* the next one replaces it: ListedIsServed, HalfListNeverFresh.
FreshIsRecent ==
  Fresh /\ ~short => \A i \in Items :
    since[i] <= now - TTL - 2 * MaxCallTicks /\ Within(i) =>
      \A v \in 1 .. 2 : stored[<<i, v>>] > 0 <=> listed[i] = v

\* Members once stored are served ever after: neither an outage, an empty answer nor
\* a death in the middle of a refresh blanks them (get_index_constituents).
MembersStay == [][kind = "members" /\ stored # NoRows => stored' # NoRows]_vars

\* A failed fetch is never cached as no events (base.py:73-76), nor as fewer
\* (vietcap.py:566-568).  Not kept: EventsUnreadable.cfg, EventsShift.cfg.
ListedIsServed ==
  kind = "events" /\ Fresh =>
    \A i \in Listed : since[i] <= now - TTL - 2 * MaxCallTicks =>
      \E v \in 1 .. 2 : stored[<<i, v>>] > 0

\* Nor is a part of the list, which reads as events that do not exist (the same
\* comment).  Not kept where a page comes without totalPages: EventsUnreadable.cfg.
HalfListNeverFresh == stored # NoRows => ListedIsServed

\* A calendar shows an event once (md_events has no key that says so).  Not kept when
\* an event is announced between two pages: EventsShift.cfg.
ListedOnce == \A r \in Row : stored[r] <= 1
=============================================================================
