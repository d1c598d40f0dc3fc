---------------------------- MODULE TradeTapeMC ----------------------------
(***************************************************************************)
(* TradeTape with the session and its length at the moment of the call.    *)
(***************************************************************************)
EXTENDS TradeTape

VARIABLE asked   \* the prints there were when the call in progress was made

mcvars == <<vars, asked>>

HistoryInit == Init /\ asked = <<>>
HistoryNext ==
  /\ Next
  /\ asked' = IF GetTradeTape THEN log[session] ELSE asked
HistorySpec == HistoryInit /\ [][HistoryNext]_mcvars

\* With pages served whole, a tape of the session that was asked for has every print
\* matched before the call: a boundary that shifts under the call costs it nothing.
TapeIsCurrent ==
  [][call.page > 0 /\ call'.page = 0 /\ answer' \notin {NoTape, Refused}
     => LET date == answer'[1].date
        IN /\ asked # <<>> /\ asked[1].date = date
           /\ date \notin Faulty
           => IsPrefix(asked, answer')]_mcvars
=============================================================================
