---------------------------- MODULE PeriodArchive ----------------------------
(***************************************************************************)
(* What the statement archive promises to its readers, whoever fills it:   *)
(* one row per period, only ever replaced as a whole, by a row read from   *)
(* what the issuer has filed.  No section of a row is older than its       *)
(* income line, which is read first; a section may be missing.             *)
(***************************************************************************)
EXTENDS Integers

CONSTANTS NSections, LastLabel, FiledBefore, None

VARIABLES
  filed,  \* label -> the revision the issuer has filed, 0 for none
  rows    \* label -> its archived row, a revision per section, or None

Labels == 1 .. LastLabel
Sections == 1 .. NSections

Init ==
  /\ \E n \in 0 .. FiledBefore : filed = [l \in Labels |-> IF l <= n THEN 1 ELSE 0]
  /\ rows = [l \in Labels |-> None]

\* The issuer files or restates a period.
Issue ==
  /\ \E l \in Labels : \E revision \in 1 .. 2 :
       filed[l] < revision /\ filed' = [filed EXCEPT ![l] = revision]
  /\ UNCHANGED rows

\* A row read section by section from what was filed by now.
IsRead(row, l) ==
  /\ row # None /\ row[1] \in 1 .. filed[l]
  /\ \A s \in Sections : row[s] = 0 \/ row[s] \in row[1] .. filed[l]

\* One answer is banked: the rows of its periods are replaced.
Bank ==
  /\ \A l \in Labels : rows'[l] = rows[l] \/ IsRead(rows'[l], l)
  /\ UNCHANGED filed

Next == Issue \/ Bank

Spec == Init /\ [][Next]_<<filed, rows>>
=============================================================================
