--------------------------- MODULE RowCacheProofs ---------------------------
(***************************************************************************)
(* What holds of the row caches for every number of processes, tables,     *)
(* columns, items and pages: the types, that a connection is never handed  *)
(* out over a file whose migration is half done, that members once stored  *)
(* stay, and that a fresh marker vouches for recent rows.                  *)
(***************************************************************************)
EXTENDS RowCaches, FiniteSetTheorems, TLAPS

\* While the pages are walked, no row has been served more often than pages were read.
Walked(q) == q.pc = "asked" => \A r \in Row : q.rows[r] <= q.page

TypeInv == TypeOK /\ \A p \in Processes : Walked(proc[p])

\* What a process still has to do for the migration: the tables before the one it is at
\* are whole, and of that one it still has every missing column before it.
HasColumns(q) ==
  /\ q.pc = "migrating" =>
       \A c \in Columns : c[1] <= q.table => c \in columns \cup q.todo
  /\ q.pc = "migrating" => \A c \in q.todo : c[1] = q.table
  /\ q.pc \notin {"down", "failed", "migrating"} => Columns \subseteq columns

MigrationInv == TypeInv /\ \A p \in Processes : HasColumns(proc[p])
-----------------------------------------------------------------------------
\* The shapes a process passes through.

LEMMA RowsTyped ==
  /\ NoRows \in Rows /\ \A r \in Row : NoRows[r] = 0
  /\ \A items : RowsOf(items) \in [Row -> {0, 1}]
BY RowAssumption DEF NoRows, Rows, RowsOf

LEMMA DownTyped ==
  /\ Down \in Proc /\ Down.pc = "down" /\ Down.table = 0 /\ Down.todo = {}
  /\ Down.page = 0 /\ Down.rows = NoRows /\ Down.short = FALSE
<1>1. NoRows \in Rows /\ 0 \in 0 .. NTables /\ 0 \in 0 .. MaxPages - 1
  BY RowsTyped, RowAssumption
<1> QED
  BY <1>1 DEF Down, Proc, PCs

LEMMA StatesTyped ==
  /\ Failed \in Proc /\ Failed.pc = "failed"
  /\ Idle \in Proc /\ Idle.pc = "idle"
  /\ [Down EXCEPT !.pc = "migrating"] \in Proc
  /\ [Down EXCEPT !.pc = "migrating"].pc = "migrating"
  /\ [Down EXCEPT !.pc = "migrating"].table = 0
  /\ [Down EXCEPT !.pc = "migrating"].todo = {}
  /\ \A t \in Int : /\ [Down EXCEPT !.pc = "asked", !.began = t] \in Proc
                    /\ [Down EXCEPT !.pc = "asked", !.began = t].pc = "asked"
                    /\ [Down EXCEPT !.pc = "asked", !.began = t].page = 0
                    /\ [Down EXCEPT !.pc = "asked", !.began = t].rows = NoRows
BY DownTyped DEF Failed, Idle, Proc, PCs

LEMMA ItemsTyped ==
  ASSUME TypeOK, NEW i \in Items, NEW v \in Version
  PROVE  [listed EXCEPT ![i] = v] \in [Items -> Version]
BY DEF TypeOK

LEMMA RelistTyped ==
  ASSUME TypeInv, NEW of, NEW to \in [Items -> Version], Relist(of, to)
  PROVE  TypeInv'
BY DEF TypeInv, TypeOK, Relist, file, Walked

\* One process moves, its record stays a record and a walk is counted.
LEMMA ProcTyped ==
  ASSUME TypeInv, NEW p \in Processes, NEW q \in Proc, Walked(q),
         proc' = [proc EXCEPT ![p] = q],
         now' \in Int, UNCHANGED world,
         columns' \subseteq Columns, stored' \in Rows, meta' \in Int \cup {None},
         short' \in BOOLEAN
  PROVE  TypeInv'
<1>1. proc' \in [Processes -> Proc]
  BY DEF TypeInv, TypeOK
<1>2. \A o \in Processes : Walked(proc'[o])
  BY DEF TypeInv, TypeOK
<1> QED
  BY <1>1, <1>2 DEF TypeInv, TypeOK, world, Walked

LEMMA InitTyped == Init => TypeInv
<1> SUFFICES ASSUME Init PROVE TypeInv
  OBVIOUS
<1>1. listed \in [Items -> Version] /\ since \in [Items -> Int]
  BY DEF Init, Version
<1>2. columns \subseteq Columns
  BY DEF Init
<1>3. proc \in [Processes -> Proc] /\ \A p \in Processes : Walked(proc[p])
  BY DownTyped DEF Init, Walked
<1>4. stored \in Rows /\ meta \in Int \cup {None} /\ short \in BOOLEAN
  BY RowsTyped DEF Init
<1>5. now \in Int /\ kind \in Kinds
  BY DEF Init
<1> QED
  BY <1>1, <1>2, <1>3, <1>4, <1>5 DEF TypeInv, TypeOK

LEMMA WorldTyped ==
  ASSUME TypeInv,
         Tick \/ (\E i \in Items : Announce(i) \/ Revise(i) \/ Withdraw(i))
              \/ (\E out, in \in Items : Review(out, in))
  PROVE  TypeInv'
<1>1. CASE Tick
  BY <1>1 DEF Tick, TypeInv, TypeOK, world, file, Walked
<1>2. ASSUME NEW i \in Items, Announce(i) PROVE TypeInv'
  <2>1. [listed EXCEPT ![i] = 1] \in [Items -> Version]
    BY ItemsTyped DEF TypeInv, Version
  <2> QED
    BY <1>2, <2>1, RelistTyped DEF Announce
<1>3. ASSUME NEW i \in Items, Revise(i) PROVE TypeInv'
  <2>1. [listed EXCEPT ![i] = 2] \in [Items -> Version]
    BY ItemsTyped DEF TypeInv, Version
  <2> QED
    BY <1>3, <2>1, RelistTyped DEF Revise
<1>4. ASSUME NEW i \in Items, Withdraw(i) PROVE TypeInv'
  <2>1. [listed EXCEPT ![i] = 0] \in [Items -> Version]
    BY ItemsTyped DEF TypeInv, Version
  <2> QED
    BY <1>4, <2>1, RelistTyped DEF Withdraw
<1>5. ASSUME NEW out \in Items, NEW in \in Items, Review(out, in) PROVE TypeInv'
  <2>1. [listed EXCEPT ![out] = 0, ![in] = 1] \in [Items -> Version]
    BY DEF TypeInv, TypeOK, Version
  <2> QED
    BY <1>5, <2>1, RelistTyped DEF Review
<1> QED
  BY <1>1, <1>2, <1>3, <1>4, <1>5

\* A page adds a row at most once, and the walk ends at the last page it may read.
LEMMA PageTyped ==
  ASSUME TypeInv, NEW p \in Processes, ReadPage(p)
  PROVE  TypeInv'
<1> DEFINE q == proc[p]
           served == RowsOf(PageOf(q.page))
           rows == [r \in Row |-> q.rows[r] + served[r]]
           last == [q EXCEPT !.pc = "answered", !.page = 0, !.rows = rows]
           next == [q EXCEPT !.page = q.page + 1, !.rows = rows]
<1>1. q \in Proc /\ q.pc = "asked" /\ \A r \in Row : q.rows[r] <= q.page
  BY DEF TypeInv, TypeOK, ReadPage, Walked
<1>2. q.page \in 0 .. MaxPages - 1 /\ q.rows \in [Row -> 0 .. MaxPages]
  BY <1>1 DEF Proc, Rows
<1>3. served \in [Row -> {0, 1}]
  BY RowsTyped
<1>4. \A r \in Row : q.rows[r] + served[r] \in 0 .. q.page + 1
  <2> SUFFICES ASSUME NEW r \in Row PROVE q.rows[r] + served[r] \in 0 .. q.page + 1
    OBVIOUS
  <2>1. q.rows[r] \in 0 .. MaxPages /\ q.rows[r] <= q.page /\ served[r] \in {0, 1}
    BY <1>1, <1>2, <1>3
  <2> HIDE DEF q, served
  <2> QED
    BY <1>2, <2>1, RowAssumption
<1>5. rows \in Rows /\ \A r \in Row : rows[r] <= q.page + 1
  <2> HIDE DEF q, served
  <2> QED
    BY <1>2, <1>4, RowAssumption DEF Rows
<1>6. last \in Proc /\ Walked(last)
  <2>1. 0 \in 0 .. MaxPages - 1
    BY RowAssumption
  <2> HIDE DEF q, rows
  <2> QED
    BY <1>1, <1>5, <2>1 DEF Proc, PCs, Walked
<1>7. CASE IsLast(q.page)
  <2>1. proc' = [proc EXCEPT ![p] = last]
    BY <1>7 DEF ReadPage
  <2> HIDE DEF last
  <2> QED
    BY <1>6, <2>1, ProcTyped DEF ReadPage, TypeInv, TypeOK, world, file
<1>8. CASE ~IsLast(q.page)
  <2>1. proc' = [proc EXCEPT ![p] = next]
    BY <1>8 DEF ReadPage
  <2>2. q.page + 1 \in 0 .. MaxPages - 1
    BY <1>2, <1>8, RowAssumption DEF IsLast
  <2>3. next \in Proc /\ Walked(next)
    <3> HIDE DEF q, rows
    <3> QED
      BY <1>1, <1>5, <2>2 DEF Proc, PCs, Walked
  <2> HIDE DEF next
  <2> QED
    BY <2>1, <2>3, ProcTyped DEF ReadPage, TypeInv, TypeOK, world, file
<1> QED
  BY <1>7, <1>8

LEMMA PartialTyped ==
  ASSUME TypeInv, NEW p \in Processes, PartialPage(p)
  PROVE  TypeInv'
<1> DEFINE q == proc[p]
           whole == RowsOf(PageOf(q.page))
<1>1. PICK served \in {NoRows, whole} :
        proc' = [proc EXCEPT ![p] = [q EXCEPT !.pc = "answered", !.page = 0,
          !.rows = [r \in Row |-> q.rows[r] + served[r]],
          !.short = ~IsLast(q.page) \/ served # whole]]
  BY DEF PartialPage
<1> DEFINE rows == [r \in Row |-> q.rows[r] + served[r]]
           cut == ~IsLast(q.page) \/ served # whole
           ended == [q EXCEPT !.pc = "answered", !.page = 0, !.rows = rows, !.short = cut]
<1>2. q \in Proc /\ q.pc = "asked" /\ \A r \in Row : q.rows[r] <= q.page
  BY DEF TypeInv, TypeOK, PartialPage, Walked
<1>3. q.page \in 0 .. MaxPages - 1 /\ q.rows \in [Row -> 0 .. MaxPages]
  BY <1>2 DEF Proc, Rows
<1>4. \A r \in Row : served[r] \in {0, 1}
  BY <1>1, RowsTyped
<1>5. rows \in Rows
  <2>1. ASSUME NEW r \in Row PROVE q.rows[r] + served[r] \in 0 .. MaxPages
    <3>1. q.rows[r] \in 0 .. MaxPages /\ q.rows[r] <= q.page /\ served[r] \in {0, 1}
      BY <1>2, <1>3, <1>4
    <3> HIDE DEF q
    <3> QED BY <1>3, <3>1, RowAssumption
  <2> HIDE DEF q
  <2> QED BY <2>1 DEF Rows
<1>6. ended \in Proc /\ Walked(ended)
  <2>1. 0 \in 0 .. MaxPages - 1 /\ cut \in BOOLEAN
    BY RowAssumption
  <2> HIDE DEF q, rows, cut
  <2> QED BY <1>2, <1>5, <2>1 DEF Proc, PCs, Walked
<1>7. proc' = [proc EXCEPT ![p] = ended]
  BY <1>1
<1> HIDE DEF ended
<1> QED BY <1>6, <1>7, ProcTyped DEF PartialPage, TypeInv, TypeOK, world, file

LEMMA MigrationTyped ==
  ASSUME TypeInv, NEW p \in Processes, Migration(p)
  PROVE  TypeInv'
<1>1. proc[p] \in Proc
  BY DEF TypeInv, TypeOK
<1>2. CASE Connect(p)
  <2>1. Walked([Down EXCEPT !.pc = "migrating"])
    BY StatesTyped DEF Walked
  <2> QED
    BY <1>2, <2>1, StatesTyped, ProcTyped DEF Connect, TypeInv, TypeOK, world, file
<1>3. CASE Inspect(p)
  <2> DEFINE t == proc[p].table + 1
             q == IF t \in Tables THEN [proc[p] EXCEPT !.table = t, !.todo = Missing(t)] ELSE Idle
  <2>1. proc' = [proc EXCEPT ![p] = q]
    BY <1>3 DEF Inspect
  <2>2. q \in Proc /\ Walked(q)
    <3>1. CASE t \in Tables
      <4>1. Missing(t) \in SUBSET Columns /\ t \in 0 .. NTables
        BY <3>1, RowAssumption DEF Missing, Tables
      <4>2. q = [proc[p] EXCEPT !.table = t, !.todo = Missing(t)]
        BY <3>1
      <4> HIDE DEF t, q
      <4> QED
        BY <1>1, <1>3, <4>1, <4>2 DEF Proc, Inspect, Walked
    <3>2. CASE t \notin Tables
      BY <3>2, StatesTyped DEF Walked
    <3> QED
      BY <3>1, <3>2
  <2> HIDE DEF q
  <2> QED
    BY <1>3, <2>1, <2>2, ProcTyped DEF Inspect, TypeInv, TypeOK, world, file
<1>4. CASE Alter(p)
  <2>1. PICK c \in proc[p].todo :
          /\ columns' = columns \cup {c}
          /\ proc' = [proc EXCEPT ![p] = AfterAlter(proc[p], c)]
    BY <1>4 DEF Alter
  <2>2. columns' \subseteq Columns
    BY <1>1, <2>1 DEF TypeInv, TypeOK, Proc
  <2>3. AfterAlter(proc[p], c) \in Proc /\ Walked(AfterAlter(proc[p], c))
    BY <1>1, <1>4, StatesTyped DEF Proc, Alter, AfterAlter, Walked
  <2> QED
    BY <1>4, <2>1, <2>2, <2>3, ProcTyped DEF Alter, TypeInv, TypeOK, world
<1> QED
  BY <1>2, <1>3, <1>4 DEF Migration

LEMMA CallTyped ==
  ASSUME TypeInv, NEW p \in Processes, CallStep(p) \/ Crash(p)
  PROVE  TypeInv'
<1>1. proc[p] \in Proc
  BY DEF TypeInv, TypeOK
<1>2. Walked(Down) /\ Walked(Idle) /\ Down \in Proc /\ Idle \in Proc
  BY DownTyped, StatesTyped DEF Walked
<1>3. CASE Call(p)
  <2> DEFINE q == [Down EXCEPT !.pc = "asked", !.began = now]
  <2>1. now \in Int /\ \A r \in Row : NoRows[r] = 0
    BY RowsTyped DEF TypeInv, TypeOK
  <2>2. q \in Proc /\ q.page = 0 /\ q.rows = NoRows
    BY <2>1, StatesTyped
  <2>3. proc' = [proc EXCEPT ![p] = q]
    BY <1>3 DEF Call
  <2> HIDE DEF q
  <2>4. Walked(q)
    BY <2>1, <2>2 DEF Walked
  <2> QED
    BY <1>3, <2>2, <2>3, <2>4, ProcTyped DEF Call, TypeInv, TypeOK, world, file
<1>4. CASE Unavailable(p)
  BY <1>2, <1>4, ProcTyped DEF Unavailable, TypeInv, TypeOK, world, file
<1>5. CASE ReadPage(p)
  BY <1>5, PageTyped
<1>6. CASE PartialPage(p)
  BY <1>6, PartialTyped
<1>7. CASE UnreadablePage(p)
  <2>1. /\ AfterUnreadable(proc[p]) \in Proc
        /\ Walked(AfterUnreadable(proc[p]))
    BY <1>1, <1>2 DEF AfterUnreadable, Proc, PCs, Walked
  <2> QED
    BY <1>7, <2>1, ProcTyped DEF UnreadablePage, TypeInv, TypeOK, world, file
<1>8. CASE ReadMembers(p)
  <2>1. PICK rows \in {NoRows, RowsOf(Listed)} :
          proc' = [proc EXCEPT ![p] = [@ EXCEPT !.pc = "answered", !.rows = rows]]
    BY <1>8 DEF ReadMembers
  <2>2. rows \in Rows
    BY RowsTyped, RowAssumption DEF Rows
  <2>3. /\ [proc[p] EXCEPT !.pc = "answered", !.rows = rows] \in Proc
        /\ Walked([proc[p] EXCEPT !.pc = "answered", !.rows = rows])
    BY <1>1, <2>2 DEF Proc, PCs, Walked
  <2> QED
    BY <1>8, <2>1, <2>3, ProcTyped DEF ReadMembers, TypeInv, TypeOK, world, file
<1>9. CASE Replace(p)
  <2> DEFINE q == [proc[p] EXCEPT !.pc = "replaced", !.rows = NoRows, !.short = FALSE]
  <2>1. q \in Proc /\ Walked(q) /\ proc[p].rows \in Rows /\ proc[p].short \in BOOLEAN
    BY <1>1, RowsTyped DEF Proc, PCs, Walked
  <2>2. proc' = [proc EXCEPT ![p] = q]
    BY <1>9 DEF Replace
  <2> HIDE DEF q
  <2> QED
    BY <1>9, <2>1, <2>2, ProcTyped DEF Replace, TypeInv, TypeOK, world
<1>10. CASE KeepStored(p)
  BY <1>2, <1>10, ProcTyped DEF KeepStored, TypeInv, TypeOK, world, file
<1>11. CASE Stamp(p)
  BY <1>2, <1>11, ProcTyped DEF Stamp, TypeInv, TypeOK, world
<1>12. CASE Crash(p)
  BY <1>2, <1>12, ProcTyped DEF Crash, TypeInv, TypeOK, world, file
<1> QED
  BY <1>3, <1>4, <1>5, <1>6, <1>7, <1>8, <1>9, <1>10, <1>11, <1>12
     DEF CallStep

LEMMA StepTyped == TypeInv /\ [Next]_vars => TypeInv'
<1> SUFFICES ASSUME TypeInv, [Next]_vars PROVE TypeInv'
  OBVIOUS
<1>1. CASE UNCHANGED vars
  BY <1>1 DEF TypeInv, TypeOK, vars, Walked
<1> QED
  BY <1>1, WorldTyped, MigrationTyped, CallTyped DEF Next

\* The shape of every row, of the marker and of what every process holds, through
\* every step of any number of processes.
THEOREM TypeCorrect == Spec => []TypeOK
<1>1. TypeInv => TypeOK
  BY DEF TypeInv
<1> QED
  BY <1>1, InitTyped, StepTyped, PTL DEF Spec
-----------------------------------------------------------------------------
\* Columns are only added: what a process knows of them stays true.
LEMMA ColumnsStay ==
  ASSUME columns \subseteq columns', NEW q, HasColumns(q)
  PROVE  HasColumns(q)'
BY DEF HasColumns

\* One process moves and knows what it should: the others still do.
LEMMA OthersKeep ==
  ASSUME MigrationInv, TypeInv', columns \subseteq columns',
         NEW p \in Processes, NEW q, proc' = [proc EXCEPT ![p] = q], HasColumns(q)'
  PROVE  MigrationInv'
<1>1. ASSUME NEW o \in Processes PROVE HasColumns(proc[o])'
  <2>1. CASE o = p
    <3>1. proc'[o] = q
      BY <2>1 DEF MigrationInv, TypeInv, TypeOK
    <3> QED
      BY <3>1
  <2>2. CASE o # p
    <3>1. proc'[o] = proc[o] /\ HasColumns(proc[o])
      BY <2>2 DEF MigrationInv, TypeInv, TypeOK
    <3> QED
      BY <3>1 DEF HasColumns
  <2> QED
    BY <2>1, <2>2
<1> QED
  BY <1>1 DEF MigrationInv

LEMMA MigrationKept ==
  ASSUME MigrationInv, NEW p \in Processes, Migration(p)
  PROVE  MigrationInv'
<1>1. proc[p] \in Proc /\ HasColumns(proc[p])
  BY DEF MigrationInv, TypeInv, TypeOK
<1>2. TypeInv'
  BY MigrationTyped DEF MigrationInv
<1>3. \A c \in Columns : c[1] \in 1 .. NTables
  BY DEF Columns, Tables
<1>4. CASE Connect(p)
  <2> DEFINE q == [Down EXCEPT !.pc = "migrating"]
  <2>1. q.pc = "migrating" /\ q.table = 0 /\ q.todo = {}
    BY StatesTyped
  <2>2. columns' = columns /\ proc' = [proc EXCEPT ![p] = q]
    BY <1>4 DEF Connect, file
  <2> HIDE DEF q
  <2>3. HasColumns(q)'
    BY <1>3, <2>1 DEF HasColumns
  <2> QED
    BY <1>2, <2>2, <2>3, OthersKeep
<1>5. CASE Inspect(p)
  <2> DEFINE t == proc[p].table + 1
             read == [proc[p] EXCEPT !.table = t, !.todo = Missing(t)]
  <2>1. columns' = columns /\ proc[p].pc = "migrating" /\ proc[p].todo = {}
    BY <1>5 DEF Inspect, file
  <2>2. \A c \in Columns : c[1] <= proc[p].table => c \in columns
    BY <1>1, <2>1 DEF HasColumns
  <2>3. proc[p].table \in 0 .. NTables
    BY <1>1 DEF Proc
  <2>4. CASE t \in Tables
    <3>1. proc' = [proc EXCEPT ![p] = read]
      BY <1>5, <2>4 DEF Inspect
    <3>2. read.pc = "migrating" /\ read.table = t /\ read.todo = Missing(t)
      BY <1>1, <2>1 DEF Proc
    <3>3. \A c \in Columns : c[1] <= t => c \in columns \cup Missing(t)
      BY <1>3, <2>2, <2>3, RowAssumption DEF Missing
    <3>4. \A c \in Missing(t) : c[1] = t
      BY DEF Missing
    <3> HIDE DEF t, read
    <3>5. HasColumns(read)
      BY <3>2, <3>3, <3>4 DEF HasColumns
    <3> QED
      BY <1>2, <2>1, <3>1, <3>5, ColumnsStay, OthersKeep
  <2>5. CASE t \notin Tables
    <3>1. proc' = [proc EXCEPT ![p] = Idle]
      BY <1>5, <2>5 DEF Inspect
    <3>2. \A c \in Columns : c[1] <= proc[p].table
      BY <1>3, <2>3, <2>5, RowAssumption DEF Tables
    <3>3. HasColumns(Idle)
      BY <2>2, <3>2, StatesTyped DEF HasColumns
    <3> QED
      BY <1>2, <2>1, <3>1, <3>3, ColumnsStay, OthersKeep
  <2> QED
    BY <2>4, <2>5
<1>6. CASE Alter(p)
  <2>1. PICK c \in proc[p].todo :
          /\ columns' = columns \cup {c}
          /\ proc' = [proc EXCEPT ![p] = AfterAlter(proc[p], c)]
    BY <1>6 DEF Alter
  <2>2. CASE c \in columns
    <3>1. proc' = [proc EXCEPT ![p] = Failed]
      BY <2>1, <2>2 DEF AfterAlter
    <3>2. HasColumns(Failed)'
      BY StatesTyped DEF HasColumns
    <3> QED
      BY <1>2, <2>1, <3>1, <3>2, OthersKeep
  <2>3. CASE c \notin columns
    <3>0. PICK q : q = [proc[p] EXCEPT !.todo = @ \ {c}]
      OBVIOUS
    <3>1. proc' = [proc EXCEPT ![p] = q]
      BY <2>1, <2>3, <3>0 DEF AfterAlter
    <3>2. q.pc = "migrating" /\ q.table = proc[p].table /\ q.todo = proc[p].todo \ {c}
      BY <1>1, <1>6, <3>0 DEF Proc, Alter
    <3>3. /\ \A d \in Columns : d[1] <= proc[p].table => d \in columns \cup proc[p].todo
          /\ \A d \in proc[p].todo : d[1] = proc[p].table
      BY <1>1, <1>6 DEF HasColumns, Alter
    <3>4. HasColumns(q)'
      BY <2>1, <3>2, <3>3 DEF HasColumns
    <3> QED
      BY <1>2, <2>1, <3>1, <3>4, OthersKeep
  <2> QED
    BY <2>2, <2>3
<1> QED
  BY <1>4, <1>5, <1>6 DEF Migration

\* A call is made over a connection, and ends idle or dead.
LEMMA CallKept ==
  ASSUME MigrationInv, NEW p \in Processes, CallStep(p) \/ Crash(p)
  PROVE  MigrationInv'
<1>1. proc[p] \in Proc /\ HasColumns(proc[p])
  BY DEF MigrationInv, TypeInv, TypeOK
<1>2. TypeInv'
  BY CallTyped DEF MigrationInv
<1>3. columns' = columns
  BY DEF CallStep, Call, Unavailable, ReadPage, PartialPage, UnreadablePage, ReadMembers,
         Replace, KeepStored, Stamp, Crash, file
<1>4. \A o \in Processes : o # p => proc'[o] = proc[o]
  BY DEF CallStep, Call, Unavailable, ReadPage, PartialPage, UnreadablePage, ReadMembers,
         Replace, KeepStored, Stamp, Crash, MigrationInv, TypeInv, TypeOK
<1>5. \/ proc'[p].pc = "down"
      \/ /\ proc[p].pc \notin {"down", "failed", "migrating"}
         /\ proc'[p].pc \notin {"down", "failed", "migrating"}
  <2>1. CASE Crash(p)
    BY <2>1, DownTyped DEF Crash, MigrationInv, TypeInv, TypeOK
  <2>2. CASE Call(p)
    <3>1. [Down EXCEPT !.pc = "asked", !.began = now].pc = "asked"
      BY StatesTyped DEF MigrationInv, TypeInv, TypeOK
    <3> QED
      BY <2>2, <3>1 DEF Call, MigrationInv, TypeInv, TypeOK
  <2>3. CASE Unavailable(p) \/ KeepStored(p) \/ Stamp(p)
    BY <2>3, StatesTyped DEF Unavailable, KeepStored, Stamp, MigrationInv, TypeInv, TypeOK
  <2>4. CASE ReadPage(p)
    BY <1>1, <2>4 DEF ReadPage, MigrationInv, TypeInv, TypeOK, Proc
  <2>5. CASE UnreadablePage(p)
    BY <1>1, <2>5, StatesTyped
    DEF UnreadablePage, AfterUnreadable, MigrationInv, TypeInv, TypeOK, Proc
  <2>6. CASE ReadMembers(p)
    BY <1>1, <2>6 DEF ReadMembers, MigrationInv, TypeInv, TypeOK, Proc
  <2>7. CASE Replace(p)
    BY <1>1, <2>7 DEF Replace, MigrationInv, TypeInv, TypeOK, Proc
  <2>8. CASE PartialPage(p)
    BY <1>1, <2>8 DEF PartialPage, MigrationInv, TypeInv, TypeOK, Proc
  <2> QED
    BY <2>1, <2>2, <2>3, <2>4, <2>5, <2>6, <2>7, <2>8 DEF CallStep
<1>6. HasColumns(proc[p])'
  BY <1>1, <1>3, <1>5 DEF HasColumns
<1> QED
  BY <1>2, <1>3, <1>4, <1>6 DEF MigrationInv, HasColumns

LEMMA MigrationStep == MigrationInv /\ [Next]_vars => MigrationInv'
<1> SUFFICES ASSUME MigrationInv, [Next]_vars PROVE MigrationInv'
  OBVIOUS
<1>1. TypeInv'
  BY StepTyped DEF MigrationInv
<1>2. CASE UNCHANGED <<columns, proc>>
  BY <1>1, <1>2 DEF MigrationInv, HasColumns
<1>3. CASE \E p \in Processes : Migration(p) \/ CallStep(p) \/ Crash(p)
  BY <1>3, MigrationKept, CallKept
<1> QED
  BY <1>2, <1>3 DEF Next, vars, Tick, Announce, Revise, Withdraw, Review, Relist, file

\* Whatever processes migrate the file at once, and wherever one of them died: who has
\* a connection has every column, of any number of tables.
THEOREM NeverHalfMigrated == Spec => []ConnectedIsMigrated
<1>1. Init => MigrationInv
  BY InitTyped, DownTyped DEF Init, MigrationInv, HasColumns
<1>2. MigrationInv => ConnectedIsMigrated
  BY DEF MigrationInv, HasColumns, ConnectedIsMigrated, TypeInv, TypeOK
<1> QED
  BY <1>1, <1>2, MigrationStep, PTL DEF Spec

\* Members once stored are replaced by members, or not at all.
THEOREM MembersAlwaysStay == Spec => MembersStay
<1>1. TypeInv /\ [Next]_vars => [kind = "members" /\ stored # NoRows => stored' # NoRows]_vars
  <2> SUFFICES ASSUME Next, kind = "members", stored # NoRows, stored' # stored
               PROVE  stored' # NoRows
    BY DEF vars
  <2>1. PICK p \in Processes : Replace(p)
    BY DEF Next, Tick, Announce, Revise, Withdraw, Review, Relist, Migration, Connect,
           Inspect, Alter, CallStep, Call, Unavailable, ReadPage, PartialPage,
           UnreadablePage, ReadMembers, KeepStored, Stamp, Crash, file
  <2> QED
    BY <2>1 DEF Replace, IsAnswer
<1> QED
  BY <1>1, InitTyped, StepTyped, PTL DEF Spec, MembersStay
-----------------------------------------------------------------------------
\* What a fresh marker vouches for.

\* Listed newer than the item.
Newer(ls, i) == {j \in Items : ls[j] # 0 /\ j > i}

InReach(of, ls, i) == of = "events" => Cardinality(Newer(ls, i)) < MaxPages * PageSize

\* The rows show the item as it is listed.
Shown(ls, rows, i) == \A v \in 1 .. 2 : rows[<<i, v>>] > 0 <=> ls[i] = v

\* They show so every item that has stood since before the instant t.
Faithful(of, ls, at, rows, t) ==
  \A i \in Items : at[i] < t /\ InReach(of, ls, i) => Shown(ls, rows, i)

\* Pages walked show nothing that is not listed, and all of what is on them.
WalkHolds(ls, at, q) ==
  \A i \in Items : at[i] < q.began =>
    /\ \A v \in 1 .. 2 : q.rows[<<i, v>>] > 0 => ls[i] = v
    /\ ls[i] # 0 /\ Cardinality(Newer(ls, i)) < q.page * PageSize =>
         q.rows[<<i, ls[i]>>] > 0

\* Between a writer of the rows and the marker of another call, both short, another
\* may have written: every instant a marker can vouch for is two calls ago.
CallHolds(of, ls, at, rows, cut, t, q) ==
  q.pc \in {"asked", "answered", "replaced"} =>
    /\ q.began <= t /\ t <= q.began + MaxCallTicks
    /\ q.pc = "asked" /\ of = "events" => WalkHolds(ls, at, q)
    /\ q.pc = "answered" /\ ~q.short /\ (of = "members" => q.rows # NoRows) =>
         Faithful(of, ls, at, q.rows, q.began)
    /\ q.pc = "replaced" /\ ~cut => Faithful(of, ls, at, rows, q.began - MaxCallTicks)

FreshInv ==
  /\ meta # None => meta <= now
  /\ meta # None /\ ~short =>
       Faithful(kind, listed, since, stored, meta - 2 * MaxCallTicks)
  /\ \A p \in Processes : CallHolds(kind, listed, since, stored, short, now, proc[p])

\* Nothing but the oldest event is taken off the calendar: the code does not promise
\* more (EventsShift.cfg).
Calendar == \A i \in Withdrawable : \A j \in Items : i <= j

LEMMA NewerTyped ==
  ASSUME NEW ls, NEW i
  PROVE  IsFiniteSet(Newer(ls, i)) /\ Cardinality(Newer(ls, i)) \in Nat
<1>1. IsFiniteSet(Items)
  BY FS_Interval, RowAssumption DEF Items
<1>2. Newer(ls, i) \subseteq Items
  BY DEF Newer
<1>3. IsFiniteSet(Newer(ls, i))
  BY <1>1, <1>2, FS_Subset
<1> QED BY <1>3, FS_CardinalityType

LEMMA NewerGrows ==
  ASSUME NEW old, NEW new, NEW i, Newer(old, i) \subseteq Newer(new, i)
  PROVE  Cardinality(Newer(old, i)) <= Cardinality(Newer(new, i))
BY NewerTyped, FS_Subset

LEMMA NextPage ==
  ASSUME NEW m \in Nat, NEW n \in Nat, m < n
  PROVE  m * PageSize + PageSize <= n * PageSize
<1>1. PageSize \in Nat
  BY RowAssumption
<1>2. (n - m - 1) * PageSize >= 0
  BY <1>1
<1>3. (n - m - 1) * PageSize = n * PageSize - m * PageSize - PageSize
  BY <1>1
<1> QED BY <1>1, <1>2, <1>3

\* The page an event is on.
LEMMA OnPage ==
  ASSUME NEW n \in Nat, NEW k \in Nat, k * PageSize <= n, n < k * PageSize + PageSize
  PROVE  n \div PageSize = k
<1> DEFINE m == n \div PageSize
<1>1. PageSize \in Nat \ {0}
  BY RowAssumption
<1>2. m \in Nat /\ m * PageSize <= n /\ n < m * PageSize + PageSize
  BY <1>1
<1> HIDE DEF m
<1>3. m * PageSize \in Nat /\ k * PageSize \in Nat
  BY <1>1, <1>2
<1>4. ~(m < k)
  BY <1>1, <1>2, <1>3, NextPage
<1>5. ~(k < m)
  BY <1>1, <1>2, <1>3, NextPage
<1>6. m = k
  BY <1>2, <1>4, <1>5
<1> QED BY <1>6 DEF m

\* What the rows of a set of items show.
LEMMA RowsShow ==
  ASSUME NEW items \in SUBSET Items, NEW i \in Items, NEW v \in 1 .. 2
  PROVE  /\ RowsOf(items)[<<i, v>>] \in {0, 1}
         /\ RowsOf(items)[<<i, v>>] = 1 <=> i \in items /\ listed[i] = v
<1>1. <<i, v>> \in Row
  BY DEF Row
<1> QED BY <1>1 DEF RowsOf
-----------------------------------------------------------------------------
\* FreshInv is inductive.

\* What has stood for a while still does, and no further back on the calendar.
LEMMA StandsStill ==
  ASSUME Calendar, TypeInv,
         (\E i \in Items : Announce(i) \/ Revise(i) \/ Withdraw(i))
           \/ (\E out, in \in Items : Review(out, in))
  PROVE  /\ UNCHANGED <<now, kind, file, proc>>
         /\ \A i \in Items : since'[i] # now => listed'[i] = listed[i] /\ since'[i] = since[i]
         /\ kind = "events" => \A i \in Items : Newer(listed, i) \subseteq Newer(listed', i)
<1>0. listed \in [Items -> Version] /\ since \in [Items -> Int] /\ Items \subseteq Int
  BY DEF TypeInv, TypeOK, Items
<1>1. ASSUME NEW of, NEW to, Relist(of, to)
      PROVE  /\ UNCHANGED <<now, kind, file, proc>> /\ kind = of /\ listed' = to
             /\ \A i \in Items : since'[i] # now => to[i] = listed[i] /\ since'[i] = since[i]
  BY <1>1 DEF Relist
<1>2. ASSUME NEW k \in Items, Announce(k)
      PROVE  /\ Relist("events", listed')
             /\ \A i \in Items : Newer(listed, i) \subseteq Newer(listed', i)
  <2>1. Relist("events", listed') /\ listed' = [listed EXCEPT ![k] = 1]
    BY <1>2 DEF Announce, Relist
  <2> QED BY <1>0, <2>1 DEF Newer
<1>3. ASSUME NEW k \in Items, Revise(k)
      PROVE  /\ Relist("events", listed')
             /\ \A i \in Items : Newer(listed, i) \subseteq Newer(listed', i)
  <2>1. Relist("events", listed') /\ listed' = [listed EXCEPT ![k] = 2]
    BY <1>3 DEF Revise, Relist
  <2> QED BY <1>0, <2>1 DEF Newer
<1>4. ASSUME NEW k \in Items, Withdraw(k)
      PROVE  /\ Relist("events", listed')
             /\ \A i \in Items : Newer(listed, i) \subseteq Newer(listed', i)
  <2>1. /\ Relist("events", listed') /\ listed' = [listed EXCEPT ![k] = 0]
        /\ k \in Withdrawable
    BY <1>4 DEF Withdraw, Relist
  <2>2. \A j \in Items : k <= j
    BY <2>1 DEF Calendar
  <2> QED BY <1>0, <2>1, <2>2 DEF Newer
<1>5. ASSUME NEW out \in Items, NEW in \in Items, Review(out, in)
      PROVE  Relist("members", listed')
  BY <1>5 DEF Review, Relist
<1> QED BY <1>1, <1>2, <1>3, <1>4, <1>5

LEMMA FaithfulStays ==
  ASSUME NEW of, NEW old, NEW new, NEW at, NEW at2, NEW rows, NEW t,
         Faithful(of, old, at, rows, t),
         \A i \in Items : at2[i] < t => new[i] = old[i] /\ at2[i] = at[i],
         of = "events" => \A i \in Items : Newer(old, i) \subseteq Newer(new, i)
  PROVE  Faithful(of, new, at2, rows, t)
<1> SUFFICES ASSUME NEW i \in Items, at2[i] < t, InReach(of, new, i)
             PROVE  Shown(new, rows, i)
  BY DEF Faithful
<1>1. InReach(of, old, i)
  <2> DEFINE limit == MaxPages * PageSize
  <2>1. limit \in Int
    BY RowAssumption
  <2> HIDE DEF limit
  <2> QED BY <2>1, NewerTyped, NewerGrows DEF InReach, limit
<1> QED BY <1>1 DEF Faithful, Shown

LEMMA FaithfulEarlier ==
  ASSUME TypeInv, NEW rows, NEW t \in Int, NEW u \in Int, u <= t,
         Faithful(kind, listed, since, rows, t)
  PROVE  Faithful(kind, listed, since, rows, u)
BY DEF Faithful, TypeInv, TypeOK

LEMMA WorldFresh ==
  ASSUME Calendar, TypeInv, TypeInv', FreshInv,
         (\E i \in Items : Announce(i) \/ Revise(i) \/ Withdraw(i))
           \/ (\E out, in \in Items : Review(out, in))
  PROVE  FreshInv'
<1>1. /\ now' = now /\ kind' = kind /\ stored' = stored /\ meta' = meta
      /\ short' = short /\ proc' = proc
      /\ \A i \in Items : since'[i] # now => listed'[i] = listed[i] /\ since'[i] = since[i]
      /\ kind = "events" => \A i \in Items : Newer(listed, i) \subseteq Newer(listed', i)
  BY StandsStill DEF file
<1>2. /\ now \in Int /\ MaxCallTicks \in Nat /\ since' \in [Items -> Int]
      /\ meta # None => meta \in Int
      /\ \A p \in Processes : proc[p] \in Proc /\ proc[p].began \in Int
                             /\ proc[p].page \in Nat
  BY RowAssumption DEF TypeInv, TypeOK, Proc
<1>3. ASSUME NEW rows, NEW t \in Int, t <= now, Faithful(kind, listed, since, rows, t)
      PROVE  Faithful(kind', listed', since', rows, t)
  <2>1. \A i \in Items : since'[i] < t => listed'[i] = listed[i] /\ since'[i] = since[i]
    BY <1>1, <1>2, <1>3
  <2> QED BY <1>1, <1>3, <2>1, FaithfulStays
<1>4. /\ meta # None => meta <= now
      /\ meta # None /\ ~short =>
           Faithful(kind', listed', since', stored, meta - 2 * MaxCallTicks)
  BY <1>2, <1>3 DEF FreshInv
<1>5. ASSUME NEW p \in Processes
      PROVE  CallHolds(kind', listed', since', stored, short, now, proc[p])
  <2> DEFINE q == proc[p]
  <2> SUFFICES ASSUME q.pc \in {"asked", "answered", "replaced"}
               PROVE  CallHolds(kind', listed', since', stored, short, now, q)
    BY DEF CallHolds
  <2>1. CallHolds(kind, listed, since, stored, short, now, q)
    BY DEF FreshInv
  <2>2. q.began <= now /\ now <= q.began + MaxCallTicks
    BY <2>1 DEF CallHolds
  <2>3. ASSUME kind = "events", WalkHolds(listed, since, q)
        PROVE  WalkHolds(listed', since', q)
    <3> SUFFICES ASSUME NEW i \in Items, since'[i] < q.began
                 PROVE  /\ \A v \in 1 .. 2 : q.rows[<<i, v>>] > 0 => listed'[i] = v
                        /\ listed'[i] # 0 /\ Cardinality(Newer(listed', i)) < q.page * PageSize =>
                             q.rows[<<i, listed'[i]>>] > 0
      BY DEF WalkHolds
    <3>1. listed'[i] = listed[i] /\ since'[i] = since[i]
      BY <1>1, <1>2, <2>2
    <3>2. Cardinality(Newer(listed, i)) <= Cardinality(Newer(listed', i))
      BY <1>1, <2>3, NewerGrows
    <3>3. q.page * PageSize \in Int
      BY <1>2, RowAssumption
    <3> QED BY <2>3, <3>1, <3>2, <3>3, NewerTyped DEF WalkHolds
  <2> QED BY <1>1, <1>2, <1>3, <2>1, <2>2, <2>3 DEF CallHolds
<1> QED BY <1>1, <1>4, <1>5 DEF FreshInv

LEMMA TickFresh == ASSUME TypeInv, FreshInv, Tick PROVE FreshInv'
<1>1. /\ now' = now + 1 /\ UNCHANGED <<kind, listed, since, stored, meta, short, proc>>
      /\ \A p \in Processes : Calling(p) => now - proc[p].began < MaxCallTicks
  BY DEF Tick, world, file
<1>2. /\ now \in Int /\ MaxCallTicks \in Int /\ (meta # None => meta \in Int)
      /\ \A p \in Processes : proc[p].began \in Int
  BY RowAssumption DEF TypeInv, TypeOK, Proc
<1>3. \A p \in Processes : CallHolds(kind, listed, since, stored, short, now', proc[p])
  BY <1>1, <1>2 DEF FreshInv, CallHolds, Calling
<1>4. meta # None => meta <= now'
  BY <1>1, <1>2 DEF FreshInv
<1> QED BY <1>1, <1>3, <1>4 DEF FreshInv

\* One process moves and writes nothing.
LEMMA MoveFresh ==
  ASSUME FreshInv, NEW p \in Processes, \A o \in Processes : o # p => proc'[o] = proc[o],
         UNCHANGED <<now, world, stored, meta, short>>,
         CallHolds(kind, listed, since, stored, short, now, proc'[p])
  PROVE  FreshInv'
<1>1. \A o \in Processes : CallHolds(kind, listed, since, stored, short, now, proc'[o])
  BY DEF FreshInv
<1> QED BY <1>1 DEF FreshInv, world

\* A page read adds what is listed on it.
LEMMA PageShows ==
  ASSUME TypeInv, FreshInv, NEW p \in Processes, proc[p].pc = "asked", kind = "events",
         NEW i \in Items, since[i] < proc[p].began
  PROVE  LET page == proc[p].page
             rows == [r \in Row |-> proc[p].rows[r] + RowsOf(PageOf(page))[r]]
         IN /\ \A v \in 1 .. 2 : rows[<<i, v>>] > 0 => listed[i] = v
            /\ listed[i] # 0 /\ Cardinality(Newer(listed, i)) < (page + 1) * PageSize =>
                 rows[<<i, listed[i]>>] > 0
<1> DEFINE q == proc[p]
           page == q.page
           served == RowsOf(PageOf(page))
           rows == [r \in Row |-> q.rows[r] + served[r]]
           rank == Cardinality(Newer(listed, i))
<1>1. /\ q \in Proc /\ q.pc = "asked" /\ kind = "events" /\ WalkHolds(listed, since, q)
      /\ page \in Nat /\ PageSize \in Nat /\ rank \in Nat /\ listed[i] \in 0 .. 2
  BY RowAssumption, NewerTyped
     DEF TypeInv, TypeOK, FreshInv, CallHolds, Proc, Version
<1>2. /\ \A v \in 1 .. 2 : q.rows[<<i, v>>] > 0 => listed[i] = v
      /\ listed[i] # 0 /\ rank < page * PageSize => q.rows[<<i, listed[i]>>] > 0
  BY <1>1 DEF WalkHolds
<1>3. PageOf(page) \in SUBSET Items
  BY DEF PageOf, Listed
<1>4. ASSUME NEW v \in 1 .. 2
      PROVE  /\ rows[<<i, v>>] = q.rows[<<i, v>>] + served[<<i, v>>]
             /\ q.rows[<<i, v>>] \in Nat /\ served[<<i, v>>] \in {0, 1}
             /\ served[<<i, v>>] = 1 <=> i \in PageOf(page) /\ listed[i] = v
  <2>1. <<i, v>> \in Row
    BY DEF Row
  <2>2. q.rows[<<i, v>>] \in Nat
    BY <1>1, <2>1, RowAssumption DEF Proc, Rows
  <2> QED BY <1>3, <2>1, <2>2, RowsShow
<1>5. \A v \in 1 .. 2 : rows[<<i, v>>] > 0 => listed[i] = v
  <2> HIDE DEF q, served, rows, page
  <2> QED BY <1>2, <1>4
<1>6. ASSUME listed[i] # 0, rank < (page + 1) * PageSize PROVE rows[<<i, listed[i]>>] > 0
  <2>1. listed[i] \in 1 .. 2
    BY <1>1, <1>6
  <2>2. CASE rank < page * PageSize
    <3>1. q.rows[<<i, listed[i]>>] > 0
      BY <1>2, <1>6, <2>2
    <3> HIDE DEF q, served, rows, page, rank
    <3> QED BY <1>4, <2>1, <3>1
  <2>3. CASE ~(rank < page * PageSize)
    <3>1. page * PageSize \in Int /\ (page + 1) * PageSize = page * PageSize + PageSize
      BY <1>1
    <3>2. rank \div PageSize = page
      <4> HIDE DEF page, rank
      <4> QED BY <1>1, <1>6, <2>3, <3>1, OnPage
    <3>3. {j \in Listed : j > i} = Newer(listed, i)
      BY DEF Newer, Listed
    <3>4. i \in PageOf(page)
      BY <1>6, <3>2, <3>3 DEF PageOf, Listed
    <3> HIDE DEF q, served, rows, page, rank
    <3> QED BY <1>4, <2>1, <3>4
  <2> QED BY <2>2, <2>3
<1> QED BY <1>5, <1>6

\* The last page of the calendar, or of those asked for, shows the rest.
LEMMA LastShows ==
  ASSUME TypeInv, FreshInv, NEW p \in Processes, proc[p].pc = "asked", kind = "events",
         IsLast(proc[p].page)
  PROVE  Faithful(kind, listed, since,
           [r \in Row |-> proc[p].rows[r] + RowsOf(PageOf(proc[p].page))[r]], proc[p].began)
<1> DEFINE page == proc[p].page
           rows == [r \in Row |-> proc[p].rows[r] + RowsOf(PageOf(page))[r]]
<1>0. page \in Nat /\ kind = "events" /\ IsLast(page)
  BY DEF TypeInv, TypeOK, Proc
<1>1. ASSUME NEW i \in Items, since[i] < proc[p].began
      PROVE  /\ \A v \in 1 .. 2 : rows[<<i, v>>] > 0 => listed[i] = v
             /\ listed[i] # 0 /\ Cardinality(Newer(listed, i)) < (page + 1) * PageSize =>
                  rows[<<i, listed[i]>>] > 0
  BY <1>1, PageShows
<1> HIDE DEF rows
<1>2. ASSUME NEW i \in Items, since[i] < proc[p].began, InReach(kind, listed, i)
      PROVE  Shown(listed, rows, i)
  <2>1. ASSUME listed[i] # 0
        PROVE  Cardinality(Newer(listed, i)) < (page + 1) * PageSize
    <3>1. CASE page + 1 = MaxPages
      BY <1>0, <1>2, <3>1 DEF InReach
    <3>2. CASE (page + 1) * PageSize >= Cardinality(Listed)
      <4>1. IsFiniteSet(Listed) /\ i \in Listed
        <5>1. IsFiniteSet(Items)
          BY FS_Interval, RowAssumption DEF Items
        <5>2. Listed \subseteq Items /\ i \in Listed
          BY <2>1 DEF Listed
        <5> QED BY <5>1, <5>2, FS_Subset
      <4>2. Newer(listed, i) \subseteq Listed \ {i}
        BY DEF Newer, Listed, Items
      <4>3. /\ Cardinality(Listed \ {i}) = Cardinality(Listed) - 1
            /\ IsFiniteSet(Listed \ {i})
        BY <4>1, FS_RemoveElement
      <4>4. Cardinality(Newer(listed, i)) <= Cardinality(Listed \ {i})
        BY <4>2, <4>3, FS_Subset
      <4>5. Cardinality(Listed) \in Nat /\ (page + 1) * PageSize \in Int
        BY <1>0, <4>1, FS_CardinalityType, RowAssumption
      <4> QED BY <3>2, <4>3, <4>4, <4>5, NewerTyped
    <3> QED BY <1>0, <3>1, <3>2 DEF IsLast
  <2>2. ASSUME NEW v \in 1 .. 2 PROVE rows[<<i, v>>] > 0 <=> listed[i] = v
    <3>1. rows[<<i, v>>] > 0 => listed[i] = v
      BY <1>1, <1>2
    <3>2. listed[i] # 0 => rows[<<i, listed[i]>>] > 0
      <4> HIDE DEF page
      <4> QED BY <1>1, <1>2, <2>1
    <3> QED BY <3>1, <3>2
  <2> QED BY <2>2 DEF Shown
<1>3. Faithful(kind, listed, since, rows, proc[p].began)
  BY <1>2 DEF Faithful
<1> QED BY <1>3 DEF rows

LEMMA PageFresh ==
  ASSUME TypeInv, FreshInv, NEW p \in Processes, ReadPage(p)
  PROVE  FreshInv'
<1> DEFINE page == proc[p].page
           rows == [r \in Row |-> proc[p].rows[r] + RowsOf(PageOf(page))[r]]
           last == [proc[p] EXCEPT !.pc = "answered", !.page = 0, !.rows = rows]
           next == [proc[p] EXCEPT !.page = page + 1, !.rows = rows]
<1>1. /\ proc \in [Processes -> Proc] /\ proc[p] \in Proc /\ proc[p].pc = "asked"
      /\ kind = "events" /\ UNCHANGED <<now, world, stored, meta, short>>
      /\ proc' = [proc EXCEPT ![p] = IF IsLast(page) THEN last ELSE next]
      /\ proc[p].began <= now /\ now <= proc[p].began + MaxCallTicks
      /\ page \in Nat
  BY DEF TypeInv, TypeOK, ReadPage, FreshInv, CallHolds, file, Proc
<1>2. ASSUME NEW i \in Items, since[i] < proc[p].began
      PROVE  /\ \A v \in 1 .. 2 : rows[<<i, v>>] > 0 => listed[i] = v
             /\ listed[i] # 0 /\ Cardinality(Newer(listed, i)) < (page + 1) * PageSize =>
                  rows[<<i, listed[i]>>] > 0
  BY <1>1, <1>2, PageShows
<1>3. /\ last.pc = "answered" /\ last.rows = rows /\ last.began = proc[p].began
      /\ next.pc = "asked" /\ next.rows = rows /\ next.began = proc[p].began
      /\ next.page = page + 1
  <2> HIDE DEF rows
  <2> QED BY <1>1 DEF Proc
<1> HIDE DEF rows, last, next
<1>4. \A o \in Processes : o # p => proc'[o] = proc[o]
  BY <1>1
<1>5. CASE ~IsLast(page)
  <2>1. proc'[p] = next
    BY <1>1, <1>5
  <2>2. WalkHolds(listed, since, next)
    BY <1>2, <1>3 DEF WalkHolds
  <2>3. CallHolds(kind, listed, since, stored, short, now, next)
    BY <1>1, <1>3, <2>2 DEF CallHolds
  <2> QED BY <1>1, <1>4, <2>1, <2>3, MoveFresh
<1>6. CASE IsLast(page)
  <2>1. proc'[p] = last
    BY <1>1, <1>6
  <2>2. Faithful(kind, listed, since, rows, proc[p].began)
    <3> USE DEF rows
    <3> QED BY <1>1, <1>6, LastShows
  <2>3. CallHolds(kind, listed, since, stored, short, now, last)
    BY <1>1, <1>3, <2>2 DEF CallHolds
  <2> QED BY <1>1, <1>4, <2>1, <2>3, MoveFresh
<1> QED BY <1>5, <1>6

\* A page that comes in part is a list cut short, or was the last and is whole.
LEMMA PartialFresh ==
  ASSUME TypeInv, FreshInv, NEW p \in Processes, PartialPage(p)
  PROVE  FreshInv'
<1> DEFINE page == proc[p].page
           whole == RowsOf(PageOf(page))
<1>1. /\ proc \in [Processes -> Proc] /\ proc[p] \in Proc /\ proc[p].pc = "asked"
      /\ kind = "events" /\ UNCHANGED <<now, world, stored, meta, short>>
      /\ proc[p].began <= now /\ now <= proc[p].began + MaxCallTicks
  BY DEF TypeInv, TypeOK, PartialPage, FreshInv, CallHolds, file
<1>2. PICK served \in {NoRows, whole} :
        proc' = [proc EXCEPT ![p] = [@ EXCEPT !.pc = "answered", !.page = 0,
          !.rows = [r \in Row |-> proc[p].rows[r] + served[r]],
          !.short = ~IsLast(page) \/ served # whole]]
  BY DEF PartialPage
<1> DEFINE rows == [r \in Row |-> proc[p].rows[r] + served[r]]
           cut == ~IsLast(page) \/ served # whole
           q == [proc[p] EXCEPT !.pc = "answered", !.page = 0, !.rows = rows, !.short = cut]
<1>3. proc'[p] = q /\ \A o \in Processes : o # p => proc'[o] = proc[o]
  BY <1>1, <1>2
<1>4. ~cut => Faithful(kind, listed, since, rows, proc[p].began)
  <2> SUFFICES ASSUME IsLast(page), served = whole
               PROVE  Faithful(kind, listed, since, rows, proc[p].began)
    OBVIOUS
  <2> QED BY <1>1, LastShows
<1>5. q.pc = "answered" /\ q.rows = rows /\ q.short = cut /\ q.began = proc[p].began
  <2> HIDE DEF rows, cut
  <2> QED BY <1>1 DEF Proc
<1> HIDE DEF rows, cut, q
<1>6. CallHolds(kind, listed, since, stored, short, now, q)
  BY <1>1, <1>4, <1>5 DEF CallHolds
<1> QED BY <1>1, <1>3, <1>6, MoveFresh

\* Read as a symbol without events, a first page is short unless there are none.
LEMMA UnreadableFresh ==
  ASSUME TypeInv, FreshInv, NEW p \in Processes, UnreadablePage(p)
  PROVE  FreshInv'
<1>1. /\ proc \in [Processes -> Proc] /\ proc[p] \in Proc /\ proc[p].pc = "asked"
      /\ kind = "events" /\ UNCHANGED <<now, world, stored, meta, short>>
      /\ proc' = [proc EXCEPT ![p] = AfterUnreadable(proc[p])]
      /\ CallHolds(kind, listed, since, stored, short, now, proc[p])
      /\ listed \in [Items -> 0 .. 2]
  BY DEF TypeInv, TypeOK, UnreadablePage, FreshInv, file, Version
<1>2. proc'[p] = AfterUnreadable(proc[p]) /\ \A o \in Processes : o # p => proc'[o] = proc[o]
  BY <1>1
<1>3. CASE proc[p].page # 0
  <2>1. proc'[p] = Idle
    BY <1>2, <1>3 DEF AfterUnreadable
  <2>2. CallHolds(kind, listed, since, stored, short, now, Idle)
    BY StatesTyped DEF CallHolds
  <2> QED BY <1>1, <1>2, <2>1, <2>2, MoveFresh
<1>4. CASE proc[p].page = 0
  <2> DEFINE cut == Listed # {}
             q == [proc[p] EXCEPT !.pc = "answered", !.short = cut]
  <2>1. proc'[p] = q
    BY <1>2, <1>4 DEF AfterUnreadable
  <2>2. q.pc = "answered" /\ q.rows = proc[p].rows /\ q.short = cut
        /\ q.began = proc[p].began
    <3> HIDE DEF cut
    <3> QED BY <1>1 DEF Proc
  <2>3. ~cut => Faithful(kind, listed, since, proc[p].rows, proc[p].began)
    <3> SUFFICES ASSUME Listed = {}
                 PROVE  Faithful(kind, listed, since, proc[p].rows, proc[p].began)
      OBVIOUS
    <3>1. \A i \in Items : listed[i] = 0
      BY DEF Listed
    <3>2. ASSUME NEW i \in Items, since[i] < proc[p].began, NEW v \in 1 .. 2
          PROVE  ~(proc[p].rows[<<i, v>>] > 0) /\ listed[i] # v
      <4>1. WalkHolds(listed, since, proc[p])
        BY <1>1 DEF CallHolds
      <4>2. listed[i] = 0 /\ (proc[p].rows[<<i, v>>] > 0 => listed[i] = v)
        BY <3>1, <3>2, <4>1 DEF WalkHolds
      <4> QED BY <4>2
    <3> QED BY <3>2 DEF Faithful, Shown
  <2> HIDE DEF cut, q
  <2>4. CallHolds(kind, listed, since, stored, short, now, q)
    BY <1>1, <2>2, <2>3 DEF CallHolds
  <2> QED BY <1>1, <1>2, <2>1, <2>4, MoveFresh
<1> QED BY <1>3, <1>4

\* A call that ends, and a process that connects, owe nothing.
LEMMA LeaveFresh ==
  ASSUME TypeInv, FreshInv, NEW p \in Processes,
         Migration(p) \/ Unavailable(p) \/ KeepStored(p) \/ Crash(p)
  PROVE  FreshInv'
<1>1. proc \in [Processes -> Proc] /\ proc[p] \in Proc
  BY DEF TypeInv, TypeOK
<1>2. ASSUME NEW q, q.pc \notin {"asked", "answered", "replaced"},
             proc' = [proc EXCEPT ![p] = q], UNCHANGED <<now, world, stored, meta, short>>
      PROVE  FreshInv'
  <2>1. proc'[p] = q /\ \A o \in Processes : o # p => proc'[o] = proc[o]
    BY <1>1, <1>2
  <2>2. CallHolds(kind, listed, since, stored, short, now, proc'[p])
    BY <1>2, <2>1 DEF CallHolds
  <2> QED BY <1>2, <2>1, <2>2, MoveFresh
<1>3. CASE Unavailable(p) \/ KeepStored(p) \/ Crash(p)
  <2>1. \E q \in {Idle, Down} : proc' = [proc EXCEPT ![p] = q]
    BY <1>3 DEF Unavailable, KeepStored, Crash
  <2>2. UNCHANGED <<now, world, stored, meta, short>>
    BY <1>3 DEF Unavailable, KeepStored, Crash, file
  <2> QED BY <1>2, <2>1, <2>2, DownTyped, StatesTyped
<1>4. CASE Connect(p)
  <2> DEFINE q == [Down EXCEPT !.pc = "migrating"]
  <2>1. q.pc = "migrating" /\ proc' = [proc EXCEPT ![p] = q]
    BY <1>4, StatesTyped DEF Connect
  <2> HIDE DEF q
  <2> QED BY <1>2, <1>4, <2>1 DEF Connect, file
<1>5. CASE Inspect(p)
  <2> DEFINE t == proc[p].table + 1
             read == [proc[p] EXCEPT !.table = t, !.todo = Missing(t)]
  <2>1. read.pc = "migrating"
    BY <1>1, <1>5 DEF Inspect, Proc
  <2>2. \E q \in {read, Idle} : proc' = [proc EXCEPT ![p] = q]
    BY <1>5 DEF Inspect
  <2> HIDE DEF read
  <2> QED BY <1>2, <1>5, <2>1, <2>2, StatesTyped DEF Inspect, file
<1>6. CASE Alter(p)
  <2>1. PICK c \in proc[p].todo : proc' = [proc EXCEPT ![p] = AfterAlter(proc[p], c)]
    BY <1>6 DEF Alter
  <2>2. AfterAlter(proc[p], c).pc \in {"failed", "migrating"}
    BY <1>1, <1>6, StatesTyped DEF AfterAlter, Alter, Proc
  <2> QED BY <1>2, <1>6, <2>1, <2>2 DEF Alter
<1> QED BY <1>3, <1>4, <1>5, <1>6 DEF Migration

LEMMA CallFresh ==
  ASSUME TypeInv, FreshInv, NEW p \in Processes, Call(p)
  PROVE  FreshInv'
<1> DEFINE q == [Down EXCEPT !.pc = "asked", !.began = now]
<1>1. now \in Int /\ MaxCallTicks \in Nat /\ proc \in [Processes -> Proc]
  BY RowAssumption DEF TypeInv, TypeOK
<1>2. q.pc = "asked" /\ q.page = 0 /\ q.rows = NoRows /\ q.began = now
  BY <1>1, StatesTyped, DownTyped DEF Proc
<1>3. proc' = [proc EXCEPT ![p] = q] /\ UNCHANGED <<now, world, stored, meta, short>>
  BY DEF Call, file
<1> HIDE DEF q
<1>4. WalkHolds(listed, since, q)
  <2>1. \A i \in Items : \A v \in 1 .. 2 : NoRows[<<i, v>>] = 0
    BY DEF NoRows, Row
  <2>2. 0 * PageSize = 0 /\ \A i \in Items : Cardinality(Newer(listed, i)) \in Nat
    BY NewerTyped, RowAssumption
  <2> QED BY <1>2, <2>1, <2>2 DEF WalkHolds
<1>5. CallHolds(kind, listed, since, stored, short, now, q)
  BY <1>1, <1>2, <1>4 DEF CallHolds
<1> QED BY <1>1, <1>3, <1>5, MoveFresh

LEMMA MembersFresh ==
  ASSUME TypeInv, FreshInv, NEW p \in Processes, ReadMembers(p)
  PROVE  FreshInv'
<1>1. PICK rows \in {NoRows, RowsOf(Listed)} :
        proc' = [proc EXCEPT ![p] = [proc[p] EXCEPT !.pc = "answered", !.rows = rows]]
  BY DEF ReadMembers
<1> DEFINE q == [proc[p] EXCEPT !.pc = "answered", !.rows = rows]
<1>2. /\ proc \in [Processes -> Proc] /\ proc[p] \in Proc /\ proc[p].pc = "asked"
      /\ kind = "members" /\ UNCHANGED <<now, world, stored, meta, short>>
  BY DEF TypeInv, TypeOK, ReadMembers, file
<1>3. q.pc = "answered" /\ q.rows = rows /\ q.began = proc[p].began
  BY <1>2 DEF Proc
<1>4. proc' = [proc EXCEPT ![p] = q]
  BY <1>1
<1> HIDE DEF q
<1>5. Faithful(kind, listed, since, RowsOf(Listed), proc[p].began)
  <2>1. ASSUME NEW i \in Items, NEW v \in 1 .. 2
        PROVE  RowsOf(Listed)[<<i, v>>] > 0 <=> listed[i] = v
    <3>1. Listed \in SUBSET Items /\ (listed[i] = v => i \in Listed)
      BY DEF Listed
    <3>2. /\ RowsOf(Listed)[<<i, v>>] \in {0, 1}
          /\ RowsOf(Listed)[<<i, v>>] = 1 <=> i \in Listed /\ listed[i] = v
      BY <3>1, RowsShow
    <3> HIDE DEF Listed
    <3> QED BY <3>1, <3>2
  <2> QED BY <2>1 DEF Faithful, Shown
<1>6. CallHolds(kind, listed, since, stored, short, now, q)
  BY <1>2, <1>3, <1>5 DEF FreshInv, CallHolds
<1> QED BY <1>2, <1>4, <1>6, MoveFresh

LEMMA WriteFresh ==
  ASSUME TypeInv, FreshInv, NEW p \in Processes, Replace(p) \/ Stamp(p)
  PROVE  FreshInv'
<1>1. /\ proc \in [Processes -> Proc] /\ now \in Int /\ MaxCallTicks \in Nat
      /\ meta # None => meta \in Int
      /\ \A o \in Processes : proc[o] \in Proc /\ proc[o].began \in Int
  BY RowAssumption DEF TypeInv, TypeOK, Proc
<1>2. /\ UNCHANGED <<now, kind, listed, since>>
      /\ proc[p].began <= now /\ now <= proc[p].began + MaxCallTicks
  BY DEF Replace, Stamp, world, FreshInv, CallHolds
<1>3. CASE Replace(p)
  <2> DEFINE q == [proc[p] EXCEPT !.pc = "replaced", !.rows = NoRows, !.short = FALSE]
  <2>1. q.pc = "replaced" /\ q.began = proc[p].began
    BY <1>1 DEF Proc
  <2>2. /\ proc' = [proc EXCEPT ![p] = q] /\ stored' = proc[p].rows /\ meta' = meta
        /\ ~short' => Faithful(kind, listed, since, stored', proc[p].began)
    BY <1>3 DEF Replace, IsAnswer, FreshInv, CallHolds
  <2> HIDE DEF q
  <2>3. ASSUME ~short', NEW u \in Int, u <= now - MaxCallTicks
        PROVE  Faithful(kind, listed, since, stored', u)
    <3>1. u <= proc[p].began
      BY <1>1, <1>2, <2>3
    <3> QED BY <1>1, <2>2, <2>3, <3>1, FaithfulEarlier
  <2>4. ASSUME NEW o \in Processes, o # p
        PROVE  CallHolds(kind, listed, since, stored', short', now, proc[o])
    <3>1. CallHolds(kind, listed, since, stored, short, now, proc[o])
      BY DEF FreshInv
    <3>2. proc[o].began <= now /\ ~short' =>
            Faithful(kind, listed, since, stored', proc[o].began - MaxCallTicks)
      BY <1>1, <2>3
    <3> QED BY <3>1, <3>2 DEF CallHolds
  <2>5. CallHolds(kind, listed, since, stored', short', now, q)
    <3>1. ~short' => Faithful(kind, listed, since, stored', proc[p].began - MaxCallTicks)
      BY <1>1, <1>2, <2>3
    <3> QED BY <1>2, <2>1, <3>1 DEF CallHolds
  <2>6. \A o \in Processes : CallHolds(kind, listed, since, stored', short', now, proc'[o])
    BY <1>1, <2>2, <2>4, <2>5
  <2>7. meta # None =>
          /\ meta <= now
          /\ ~short' => Faithful(kind, listed, since, stored', meta - 2 * MaxCallTicks)
    <3>1. meta # None => meta <= now
      BY DEF FreshInv
    <3> QED BY <1>1, <2>3, <3>1
  <2> QED BY <1>2, <2>2, <2>6, <2>7 DEF FreshInv
<1>4. CASE Stamp(p)
  <2>1. /\ proc' = [proc EXCEPT ![p] = Idle] /\ stored' = stored /\ meta' = now
        /\ short' = short
        /\ ~short => Faithful(kind, listed, since, stored, proc[p].began - MaxCallTicks)
    BY <1>4 DEF Stamp, FreshInv, CallHolds
  <2>2. ~short => Faithful(kind, listed, since, stored, now - 2 * MaxCallTicks)
    <3>1. now - 2 * MaxCallTicks \in Int /\ proc[p].began - MaxCallTicks \in Int
      BY <1>1
    <3>2. now - 2 * MaxCallTicks <= proc[p].began - MaxCallTicks
      BY <1>1, <1>2
    <3> QED BY <2>1, <3>1, <3>2, FaithfulEarlier
  <2>3. \A o \in Processes : CallHolds(kind, listed, since, stored, short, now, proc'[o])
    BY <1>1, <2>1, StatesTyped DEF FreshInv, CallHolds
  <2> QED BY <1>1, <1>2, <2>1, <2>2, <2>3 DEF FreshInv
<1> QED BY <1>3, <1>4

LEMMA NextFresh ==
  ASSUME Calendar, TypeInv, TypeInv', FreshInv, [Next]_vars
  PROVE  FreshInv'
<1>1. CASE UNCHANGED vars
  BY <1>1 DEF FreshInv, vars
<1>2. CASE \/ \E i \in Items : Announce(i) \/ Revise(i) \/ Withdraw(i)
           \/ \E out, in \in Items : Review(out, in)
  BY <1>2, WorldFresh
<1>3. ASSUME NEW p \in Processes, Migration(p) \/ CallStep(p) \/ Crash(p) PROVE FreshInv'
  BY <1>3, LeaveFresh, CallFresh, PageFresh, PartialFresh, UnreadableFresh,
     MembersFresh, WriteFresh
  DEF CallStep
<1> QED BY <1>1, <1>2, <1>3, TickFresh DEF Next

\* For any number of processes, items and pages: while the marker is fresh, the rows are
\* those of every item within the pages asked for as it has stood for longer than the
\* TTL and two slow calls, whatever calls raced or died between the rows and the marker,
\* and whatever pages could not be read.  Of a list that the walk ended too early, where
\* a page came without rows or without a count of pages, it says nothing.
THEOREM FreshAlwaysRecent == ASSUME Calendar PROVE Spec => []FreshIsRecent
<1>1. Init => FreshInv
  BY DownTyped DEF Init, FreshInv, CallHolds
<1>2. TypeInv /\ TypeInv' /\ FreshInv /\ [Next]_vars => FreshInv'
  BY NextFresh
<1>3. TypeInv /\ FreshInv => FreshIsRecent
  <2> SUFFICES ASSUME TypeInv, FreshInv, Fresh, ~short, NEW i \in Items,
                      since[i] <= now - TTL - 2 * MaxCallTicks, Within(i)
               PROVE  Shown(listed, stored, i)
    BY DEF FreshIsRecent, Shown
  <2>1. /\ meta # None /\ now - meta < TTL
        /\ Faithful(kind, listed, since, stored, meta - 2 * MaxCallTicks)
    BY DEF Fresh, FreshInv
  <2>2. /\ now \in Int /\ meta \in Int /\ since[i] \in Int /\ TTL \in Nat
        /\ MaxCallTicks \in Nat
    BY <2>1, RowAssumption DEF TypeInv, TypeOK
  <2>3. since[i] < meta - 2 * MaxCallTicks
    BY <2>1, <2>2
  <2>4. {j \in Listed : j > i} = Newer(listed, i)
    BY DEF Newer, Listed
  <2>5. InReach(kind, listed, i)
    BY <2>4 DEF Within, InReach
  <2> QED BY <2>1, <2>3, <2>5 DEF Faithful
<1> QED BY <1>1, <1>2, <1>3, InitTyped, StepTyped, PTL DEF Spec
=============================================================================
