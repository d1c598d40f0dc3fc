----------------------------- MODULE BarService -----------------------------
(***************************************************************************)
(* What the daily-bar cache promises the readers of one symbol, whatever   *)
(* it fetches, withholds, refuses or repairs: from the oldest date it was  *)
(* ever asked for, it holds every session up to some newest one.           *)
(***************************************************************************)
EXTENDS Integers

CONSTANTS
  Sessions,  \* the days the symbol traded
  None

VARIABLES
  floor,  \* the oldest date ever asked for, or None
  held    \* the sessions the cache can answer with

\* Every session from the floor to the newest one held.
Whole(from, days) ==
  /\ days \subseteq {d \in Sessions : from <= d}
  /\ \A d \in Sessions : from <= d /\ (\E e \in days : d <= e) => d \in days

Init == floor = None /\ held = {}

\* The first window is asked for, or another one while nothing is held.
Open ==
  /\ held = {} /\ floor' # None
  /\ Whole(floor', held')

\* Newer sessions join; none is lost.
Advance ==
  /\ floor # None /\ floor' = floor
  /\ held \subseteq held' /\ Whole(floor, held')

\* A deeper window was asked for.
Deepen ==
  /\ floor # None /\ floor' # None /\ floor' < floor
  /\ held \subseteq held' /\ Whole(floor', held')

Next == Open \/ Advance \/ Deepen

Spec == Init /\ [][Next]_<<floor, held>>
=============================================================================
