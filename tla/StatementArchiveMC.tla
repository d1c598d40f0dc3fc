------------------------- MODULE StatementArchiveMC -------------------------
(***************************************************************************)
(* StatementArchive with two facts of its history: whether a process died  *)
(* between writing the cache row and growing the archive, and whether two  *)
(* calls were ever under way at once.                                      *)
(***************************************************************************)
EXTENDS StatementArchive, TLC

VARIABLES torn, overlapped

mcvars == <<vars, torn, overlapped>>

Symmetry == Permutations(Processes)

Working(p) == proc[p].pc \notin {"down", "idle"}

MCInit == Init /\ torn = FALSE /\ overlapped = FALSE

MCNext ==
  /\ Next
  /\ torn' = (torn \/ \E p \in Processes : proc[p].pc = "cached" /\ proc'[p].pc = "down")
  /\ overlapped' = (overlapped \/ \E p, q \in Processes :
                                    p # q /\ Working(p)' /\ Working(q)')

MCSpec == MCInit /\ [][MCNext]_mcvars
-----------------------------------------------------------------------------
\* Whatever the processes that share the database do to each other, and wherever
\* one dies but for the one gap between its two writes, no fetched period is left
\* out of the archive: init_schema's backfill and the fetches between them cover all.
BankedUnlessTorn == ~torn => EveryFetchBanked

\* With one call at a time, the archive holds the figures of the newest fetch: a
\* restated figure replaces the provisional one (bank_statement_periods' ON CONFLICT).
CurrentOneAtATime == ~torn /\ ~overlapped => ArchiveIsCurrent

\* With one call at a time, get_statement_history reaches every period the live
\* answer it is built on has, which it reads after refreshing.
HistoryOneAtATime == ~torn /\ ~overlapped => HistoryReachesLive
=============================================================================
