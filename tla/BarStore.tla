------------------------------ MODULE BarStore ------------------------------
(***************************************************************************)
(* What store.py computes over the banked daily bars of one symbol: bounds *)
(* and neighbours, the volume test and the upsert it guards, the price     *)
(* seams and the rescaled overlap.  Pure operators on a table bars, a      *)
(* function from days to a bar or None.                                    *)
(***************************************************************************)
EXTENDS DailyFeed

CONSTANTS
  Band,          \* the price-limit band, in the unit Factor is given in
  Factor,        \* how far the corporate action moves the price
  Jumps,         \* sessions whose move beyond the band was really traded
  MaxGap,        \* _SEAM_MAX_GAP_DAYS
  BaselineBars,  \* _STUB_BASELINE_BARS
  MinBaseline,   \* _STUB_MIN_BASELINE
  RecentDays     \* _STUB_RECENT_DAYS

Bar  == [adj : BOOLEAN, thin : BOOLEAN, settled : BOOLEAN, src : Sources]
Bars == [Days -> Bar \cup {None}]
NoBars == [d \in Days |-> None]

\* A ruling of md_ohlcv_stubs: the source ruled on, and the verdict.
Ruling  == [src : Sources, frag : BOOLEAN]
Rulings == [Days -> Ruling \cup {None}]
NoRulings == [d \in Days |-> None]

ASSUME StoreAssumption ==
  /\ Band \in Nat /\ Factor \in Nat \ {0} /\ Jumps \subseteq Days
  /\ MaxGap \in Nat /\ BaselineBars \in Nat /\ MinBaseline \in Nat \ {0}
  /\ RecentDays \in Nat
  /\ None \notin Bar /\ None \notin Ruling

Banked(bars) == {d \in Days : bars[d] # None}
Lo(bars) == Min(Banked(bars))
Hi(bars) == Max(Banked(bars))
Before(bars, d) == {e \in Banked(bars) : e < d}
After(bars, d)  == {e \in Banked(bars) : e > d}

Newest(n, S) == {d \in S : Cardinality({e \in S : e > d}) < n}

(***************************************************************************)
(* The volume test.  The median of the baseline is a normal volume as soon *)
(* as half of it is; the banked bars are the baseline, and the incoming    *)
(* rows when too few are banked.                                           *)
(***************************************************************************)
LooksTruncated(bars, rows, d) ==
  LET baseline(table) == Newest(BaselineBars, {e \in Days : e < d /\ table[e] # None})
      normal(table) ==
        LET base == baseline(table) IN
        /\ Cardinality(base) >= MinBaseline
        /\ 2 * Cardinality({e \in base : ~table[e].thin}) >= Cardinality(base)
  IN  /\ rows[d].thin
      /\ IF Cardinality(baseline(bars)) >= MinBaseline
           THEN normal(bars) ELSE normal(rows)

Refused(rulings, d, s) ==
  rulings[d] # None /\ rulings[d].frag /\ rulings[d].src = s

\* Mutated: the ruling is not enforced; a settled truncated bar is withheld too.
KeptUnrefused(bars, rulings, rows, s, today) ==
  {d \in Days : rows[d] # None /\ ~(d = today /\ LooksTruncated(bars, rows, d))}
KeptUntruncated(bars, rulings, rows, s, today) ==
  {d \in Days : rows[d] # None /\ ~Refused(rulings, d, s)
                /\ ~LooksTruncated(bars, rows, d)}

\* The rows upsert_ohlcv keeps when source s answers on day today ...
Kept(bars, rulings, rows, s, today) ==
  {d \in Days : /\ rows[d] # None
                /\ ~Refused(rulings, d, s)
                /\ ~(d = today /\ LooksTruncated(bars, rows, d))}

Upsert(bars, rulings, rows, s, today) ==
  LET kept == Kept(bars, rulings, rows, s, today)
  IN  [d \in Days |-> IF d \notin kept THEN bars[d]
                      ELSE [adj |-> rows[d].adj, thin |-> rows[d].thin,
                            settled |-> rows[d].settled, src |-> s]]

\* Mutated: dates ruled on are suspect again; banked dates never are.
SuspectsRechecked(bars, rulings, rows, s, today) ==
  {d \in Kept(bars, rulings, rows, s, today) :
     d >= today - RecentDays /\ d # today /\ LooksTruncated(bars, rows, d)}
SuspectsUnbanked(bars, rulings, rows, s, today) ==
  {d \in Kept(bars, rulings, rows, s, today) :
     d >= today - RecentDays /\ d # today /\ bars[d] = None
     /\ LooksTruncated(bars, rows, d)}

\* ... and those of them it hands back for a second opinion.
Suspects(bars, rulings, rows, s, today) ==
  {d \in Kept(bars, rulings, rows, s, today) :
     /\ d >= today - RecentDays /\ d # today
     /\ LooksTruncated(bars, rows, d)
     /\ rulings[d] = None}

(***************************************************************************)
(* Seams: a move beyond the band between two sessions at most MaxGap days  *)
(* apart.  The level of a bar is its price, every jump a full band and a   *)
(* bit.                                                                    *)
(***************************************************************************)
Level(d, b) ==
  (Band + 1) * Cardinality({j \in Jumps : j <= d}) + (IF b.adj THEN 0 ELSE Factor)

Seams(bars, upTo) ==
  {d \in Banked(bars) :
     /\ d <= upTo /\ Before(bars, d) # {}
     /\ LET p == Max(Before(bars, d))
            move == Level(d, bars[d]) - Level(p, bars[p])
        IN d - p <= MaxGap /\ (move > Band \/ -move > Band)}

\* Re-served bars that are banked ones moved by one common factor: the four
\* prices agree only when both copies are of the same part of the session.
Rescaled(bars, rows) ==
  {d \in Banked(bars) : /\ rows[d] # None
                        /\ rows[d].adj # bars[d].adj
                        /\ rows[d].thin = bars[d].thin
                        /\ rows[d].settled = bars[d].settled}
=============================================================================
