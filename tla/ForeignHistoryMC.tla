-------------------------- MODULE ForeignHistoryMC --------------------------
(***************************************************************************)
(* ForeignHistory with what was settled at the moment of the call.         *)
(***************************************************************************)
EXTENDS ForeignHistory

VARIABLE asked   \* settled when the call in progress was made

mcvars == <<crawlVars, asked>>

HistoryInit == CrawlInit /\ asked = settled
HistoryNext ==
  /\ CrawlNext
  /\ asked' = IF GetForeignHistory THEN settled ELSE asked
HistorySpec == HistoryInit /\ [][HistoryNext]_mcvars

\* The answer has every session of the window that was settled at the call and that
\* the archive still keeps when the last page is read: rows that move down a page
\* while the crawl goes on are neither lost nor taken for the end of the archive.
WindowCovered ==
  [][Answers => \A s \in Kept : s <= asked /\ call.lo <= s /\ s <= call.hi
                                => s \in answer']_mcvars
=============================================================================
