--------------------------- MODULE ForeignHistory ---------------------------
(***************************************************************************)
(* get_foreign_history of sources/cafef.py: the settled foreign trading of *)
(* a window of sessions, read page by page, newest first, from an archive  *)
(* that grows a row per session and forgets its oldest ones.               *)
(***************************************************************************)
EXTENDS Integers, FiniteSetsExt

CONSTANTS
  LastSession,   \* the last session there will be a row for (bounds the model)
  SettledBefore, \* the sessions in the archive at the start
  Depth,         \* the sessions the endpoint keeps
  PageSize,      \* _PAGE_SIZE
  MaxPages,      \* _MAX_PAGES
  Unreadable,    \* the sessions whose row parse_page drops
  MayCount,      \* whether a page carries a usable TotalCount
  Garbled,       \* whether a page may not parse at all
  None

ASSUME HistoryAssumption ==
  /\ LastSession \in Nat \ {0} /\ SettledBefore \in 0 .. LastSession /\ Depth \in Nat
  /\ PageSize \in Nat \ {0} /\ MaxPages \in Nat \ {0}
  /\ Unreadable \subseteq 1 .. LastSession
  /\ MayCount \in BOOLEAN /\ Garbled \in BOOLEAN
  /\ None \notin Nat

VARIABLES
  settled,   \* the newest session the archive has a row for
  call,      \* the paging loop: window, page and the sessions it has seen
  answer     \* the sessions of the last answer; None when the call raised

crawlVars == <<settled, call, answer>>

Sessions == 1 .. LastSession
Kept == {s \in Sessions : settled - Depth < s /\ s <= settled}

Call == [page : 0 .. MaxPages, lo : Sessions, hi : Sessions, seen : SUBSET Sessions]

CrawlTypeOK ==
  /\ settled \in 0 .. LastSession
  /\ call \in Call
  /\ answer \in (SUBSET Sessions) \cup {None}

CrawlInit ==
  /\ settled = SettledBefore
  /\ call = [page |-> 0, lo |-> 1, hi |-> 1, seen |-> {}]
  /\ answer = None

\* A session closes and its row appears in front of all others.
Settle ==
  /\ settled < LastSession
  /\ settled' = settled + 1
  /\ UNCHANGED <<call, answer>>

GetForeignHistory ==
  /\ call.page = 0
  /\ \E lo, hi \in Sessions :
       lo <= hi /\ call' = [page |-> 1, lo |-> lo, hi |-> hi, seen |-> {}]
  /\ UNCHANGED <<settled, answer>>

\* The sessions on a page of the endpoint, and the rows parse_page makes of it.
PageOf(page) ==
  {s \in Kept : settled - page * PageSize < s /\ s <= settled - (page - 1) * PageSize}
Rows(page) == PageOf(page) \ Unreadable
Total == IF settled < Depth THEN settled ELSE Depth

\* Mutated: the window is taken for covered one session early.
StopsEarly(rows, total) ==
  \/ rows = {}
  \/ Min(rows) <= call.lo + 1
  \/ Cardinality(rows) < PageSize
  \/ total # None /\ call.page * PageSize >= total

Stops(rows, total) ==
  \/ rows = {}
  \/ Min(rows) <= call.lo
  \/ Cardinality(rows) < PageSize
  \/ total # None /\ call.page * PageSize >= total

InWindow(rows) == {s \in rows : call.lo <= s /\ s <= call.hi}

LastPage == MaxPages

TakePage(rows, total) ==
  LET seen == call.seen \cup InWindow(rows)
  IN IF Stops(rows, total) \/ call.page = LastPage
     THEN /\ call' = [call EXCEPT !.page = 0, !.seen = {}]
          /\ answer' = seen
     ELSE /\ call' = [call EXCEPT !.page = @ + 1, !.seen = seen]
          /\ UNCHANGED answer

\* A body that is not the JSON expected reads as a page without rows.
FetchPage ==
  /\ call.page > 0
  /\ \E rows \in {Rows(call.page)} \cup (IF Garbled THEN {{}} ELSE {}),
        total \in {None} \cup (IF MayCount THEN {Total} ELSE {}) :
       TakePage(rows, total)
  /\ UNCHANGED settled

FetchFails ==
  /\ call.page > 0
  /\ call' = [call EXCEPT !.page = 0, !.seen = {}]
  /\ answer' = None
  /\ UNCHANGED settled

Crawl == GetForeignHistory \/ FetchPage \/ FetchFails
CrawlNext == Settle \/ Crawl
CrawlSpec == CrawlInit /\ [][CrawlNext]_crawlVars
-----------------------------------------------------------------------------
Answers == call.page > 0 /\ call'.page = 0 /\ answer' # None

\* A crawl that ends on a short page has reached the end of the archive
\* (cafef.py:138, "a short page is the last page").  Not kept: ForeignMisread.cfg.
ShortPageIsLast ==
  [][Answers /\ Cardinality(Rows(call.page)) < PageSize
     => \A s \in Kept : s > settled - call.page * PageSize]_crawlVars

\* An answer without a session of the window means the archive has none
\* (sources/base.py:68-76, a failed fetch must raise).  Not kept: ForeignMisread.cfg.
EmptyIsAnAnswer ==
  [][Answers /\ answer' = {} => \A s \in Kept : ~(call.lo <= s /\ s <= call.hi)]_crawlVars
=============================================================================
