----------------------------- MODULE TapeProofs -----------------------------
(***************************************************************************)
(* Theorems about TradeTape, for any number of prints, volumes, pages and  *)
(* sessions: a returned tape is its session from the first print on, and   *)
(* has every print there was when it was asked for.                        *)
(***************************************************************************)
EXTENDS TradeTapeMC, SequenceTheorems, FiniteSetTheorems, TLAPS

\* A running sum from zero over volumes that are not.
Running(tape) ==
  \A i \in DOMAIN tape :
    tape[i].accumulated_volume =
      tape[i].volume + (IF i = 1 THEN 0 ELSE tape[i - 1].accumulated_volume)

\* Every print of one is a print of the other.
AmongPrints(rows, tape) == \A i \in DOMAIN rows : \E j \in DOMAIN tape : rows[i] = tape[j]

Logged(logs) ==
  \A s \in Sessions :
    Running(logs[s]) /\ \A i \in DOMAIN logs[s] : logs[s][i].date = s

\* What a call has read, the exchange has printed.
Printed(p, logs) == \E i \in DOMAIN logs[p.date] : logs[p.date][i] = p

TapeInv ==
  /\ TypeOK
  /\ Logged(log)
  /\ \A i \in DOMAIN call.prints : Printed(call.prints[i], log)
  /\ TapeIsAPrefix
-----------------------------------------------------------------------------
\* Numbers and orders.

LEMMA LeastOf ==
  ASSUME NEW n \in Nat, NEW S, S \subseteq 1 .. n, S # {}
  PROVE  \E m \in S : \A k \in S : m <= k
<1> DEFINE below(x) == {y \in S : y < x}
           T == {below(x) : x \in S}
<1>1. IsFiniteSet(S) /\ S \subseteq Int
  <2>1. IsFiniteSet(1 .. n)
    BY FS_Interval
  <2>2. IsFiniteSet(S)
    BY <2>1, FS_Subset
  <2> QED BY <2>2
<1>2. IsWellFoundedOn(StrictSubsetOrdering(S), FiniteSubsetsOf(S))
  BY FS_StrictSubsetOrderingWellFounded
<1>3. T \subseteq FiniteSubsetsOf(S) /\ T # {}
  <2>1. \A x \in S : below(x) \subseteq S /\ IsFiniteSet(below(x))
    BY <1>1, FS_Subset
  <2> QED BY <2>1 DEF FiniteSubsetsOf
<1>4. PICK U \in T : \A V \in T : <<V, U>> \notin StrictSubsetOrdering(S)
  BY <1>2, <1>3, WFMin
<1>5. PICK x \in S : U = below(x)
  OBVIOUS
<1>6. \A y \in S : x <= y
  <2> SUFFICES ASSUME NEW y \in S, y < x PROVE FALSE
    BY <1>1
  <2>1. below(y) \subseteq U /\ y \in U /\ y \notin below(y)
    <3>1. \A z \in below(y) : z \in S /\ z < x
      BY <1>1
    <3>2. y \in U /\ y \notin below(y)
      BY <1>1, <1>5
    <3> QED BY <1>5, <3>1, <3>2
  <2>2. <<below(y), U>> \in StrictSubsetOrdering(S)
    BY <1>5, <2>1 DEF StrictSubsetOrdering
  <2> QED BY <1>4, <2>2
<1> QED BY <1>6

\* What has more of a finite set than another has a greater count.
LEMMA FewerOf ==
  ASSUME NEW S, IsFiniteSet(S), NEW T, T \subseteq S, NEW x \in S, x \notin T
  PROVE  Cardinality(T) \in Nat /\ Cardinality(S) \in Nat /\ Cardinality(T) < Cardinality(S)
<1>1. IsFiniteSet(T) /\ Cardinality(T) <= Cardinality(S) /\ Cardinality(T) # Cardinality(S)
  BY FS_Subset
<1>2. Cardinality(T) \in Nat /\ Cardinality(S) \in Nat
  BY <1>1, FS_CardinalityType
<1> QED BY <1>1, <1>2

LEMMA TradeTyped ==
  /\ Sessions \subseteq Nat /\ PageSize \in Nat \ {0} /\ MaxPages \in Nat \ {0}
  /\ \A p \in Trade : /\ p.date \in Sessions /\ p.volume \in Nat /\ p.volume >= 1
                      /\ p.accumulated_volume \in Nat
BY TapeAssumption DEF Trade, Sessions

-----------------------------------------------------------------------------
\* Running sums.

\* They grow from print to print, so that each print has its own.
LEMMA SumsGrow ==
  ASSUME NEW tape \in Seq(Trade), Running(tape),
         NEW a \in DOMAIN tape, NEW b \in DOMAIN tape, a < b
  PROVE  tape[a].accumulated_volume < tape[b].accumulated_volume
<1> DEFINE acc(i) == tape[i].accumulated_volume
           wrong == {k \in DOMAIN tape : a < k /\ ~(acc(a) < acc(k))}
<1>1. /\ DOMAIN tape = 1 .. Len(tape) /\ Len(tape) \in Nat
      /\ \A i \in DOMAIN tape : tape[i] \in Trade
  OBVIOUS
<1>2. \A i \in DOMAIN tape : acc(i) \in Nat /\ tape[i].volume \in Nat /\ tape[i].volume >= 1
  BY <1>1, TradeTyped
<1>3. ASSUME wrong # {} PROVE FALSE
  <2>1. PICK k \in wrong : \A j \in wrong : k <= j
    BY <1>1, <1>3, LeastOf
  <2>2. k - 1 \in DOMAIN tape /\ k # 1 /\ a <= k - 1 /\ k - 1 \notin wrong
    BY <1>1, <2>1
  <2>3. acc(k) = tape[k].volume + acc(k - 1)
    BY <2>1, <2>2 DEF Running
  <2>4. acc(k - 1) < acc(k)
    BY <1>2, <2>1, <2>2, <2>3
  <2>5. a = k - 1 \/ acc(a) < acc(k - 1)
    BY <1>1, <2>2
  <2> QED BY <1>2, <2>1, <2>2, <2>4, <2>5
<1> QED BY <1>1, <1>3

\* Two running sums are one as far as the shorter goes, if its prints are prints of the
\* longer: no print is missing, none is there twice.
LEMMA OneRunningSum ==
  ASSUME NEW tape \in Seq(Trade), Running(tape),
         NEW full \in Seq(Trade), Running(full), AmongPrints(tape, full)
  PROVE  \A i \in DOMAIN tape : i \in DOMAIN full /\ tape[i] = full[i]
<1> DEFINE wrong == {i \in DOMAIN tape : ~(i \in DOMAIN full /\ tape[i] = full[i])}
<1>1. /\ DOMAIN tape = 1 .. Len(tape) /\ Len(tape) \in Nat
      /\ DOMAIN full = 1 .. Len(full) /\ Len(full) \in Nat
      /\ \A i \in DOMAIN tape : tape[i] \in Trade
      /\ \A i \in DOMAIN full : full[i] \in Trade
  OBVIOUS
<1>2. ASSUME wrong # {} PROVE FALSE
  <2>1. PICK k \in wrong : \A j \in wrong : k <= j
    BY <1>1, <1>2, LeastOf
  <2>2. PICK m \in DOMAIN full : tape[k] = full[m]
    BY <2>1 DEF AmongPrints
  <2>3. m # k
    BY <2>1, <2>2
  <2>4. /\ full[m].accumulated_volume \in Nat /\ full[m].volume \in Nat
        /\ m # 1 => m - 1 \in DOMAIN full
        /\ \A i \in DOMAIN full :
             full[i].accumulated_volume \in Nat /\ full[i].accumulated_volume >= 1
    <3>1. ASSUME NEW i \in DOMAIN full PROVE full[i].accumulated_volume >= 1
      <4>1. /\ full[i].volume \in Nat /\ full[i].volume >= 1
            /\ full[i].accumulated_volume \in Nat
            /\ i # 1 => i - 1 \in DOMAIN full /\ full[i - 1].accumulated_volume \in Nat
        BY <1>1, TradeTyped
      <4>2. full[i].accumulated_volume =
              full[i].volume + (IF i = 1 THEN 0 ELSE full[i - 1].accumulated_volume)
        BY DEF Running
      <4> QED BY <4>1, <4>2
    <3> QED BY <1>1, <3>1, TradeTyped
  <2>5. full[m].accumulated_volume =
          full[m].volume + (IF m = 1 THEN 0 ELSE full[m - 1].accumulated_volume)
    BY DEF Running
  <2>6. full[m].accumulated_volume =
          full[m].volume + (IF k = 1 THEN 0 ELSE tape[k - 1].accumulated_volume)
    BY <2>1, <2>2 DEF Running
  <2>7. (IF m = 1 THEN 0 ELSE full[m - 1].accumulated_volume) =
        (IF k = 1 THEN 0 ELSE tape[k - 1].accumulated_volume)
    <3>1. k # 1 => k - 1 \in DOMAIN tape /\ tape[k - 1].accumulated_volume \in Nat
      BY <1>1, <2>1, TradeTyped
    <3> QED BY <2>4, <2>5, <2>6, <3>1
  <2>8. k # 1
    BY <1>1, <2>3, <2>4, <2>7
  <2>9. k - 1 \in DOMAIN full /\ tape[k - 1] = full[k - 1]
    BY <1>1, <2>1, <2>8
  <2>10. m # 1
    BY <2>4, <2>7, <2>8, <2>9
  <2>11. full[m - 1].accumulated_volume = full[k - 1].accumulated_volume
    BY <2>7, <2>8, <2>9, <2>10
  <2>12. ~(m - 1 < k - 1) /\ ~(k - 1 < m - 1)
    BY <2>4, <2>9, <2>10, <2>11, SumsGrow
  <2> QED BY <1>1, <2>1, <2>3, <2>12
<1> QED BY <1>2
-----------------------------------------------------------------------------
\* What is sorted has the prints of what was read.

LEMMA RankOrders ==
  ASSUME NEW prints \in Seq(Trade), NEW i \in DOMAIN prints, NEW j \in DOMAIN prints, i # j
  PROVE  Rank(prints, i) # Rank(prints, j)
<1> DEFINE before(k) ==
      {l \in DOMAIN prints :
         \/ prints[l].accumulated_volume < prints[k].accumulated_volume
         \/ prints[l].accumulated_volume = prints[k].accumulated_volume /\ l < k}
<1>1. /\ DOMAIN prints = 1 .. Len(prints) /\ Len(prints) \in Nat
      /\ \A k \in DOMAIN prints : prints[k].accumulated_volume \in Nat
  BY TradeTyped
<1>2. IsFiniteSet(DOMAIN prints)
  BY <1>1, FS_Interval
<1>3. \A k \in DOMAIN prints : IsFiniteSet(before(k)) /\ Cardinality(before(k)) \in Nat
  <2> SUFFICES ASSUME NEW k \in DOMAIN prints
               PROVE  IsFiniteSet(before(k)) /\ Cardinality(before(k)) \in Nat
    OBVIOUS
  <2>1. before(k) \subseteq DOMAIN prints
    OBVIOUS
  <2>2. IsFiniteSet(before(k))
    BY <1>2, <2>1, FS_Subset
  <2> QED BY <2>2, FS_CardinalityType
<1>4. ASSUME NEW k \in DOMAIN prints, NEW l \in DOMAIN prints, l \in before(k)
      PROVE  Cardinality(before(l)) < Cardinality(before(k))
  <2>1. before(l) \subseteq before(k) /\ l \notin before(l)
    BY <1>1, <1>4
  <2> HIDE DEF before
  <2> QED BY <1>3, <1>4, <2>1, FewerOf
<1>5. i \in before(j) \/ j \in before(i)
  BY <1>1
<1>6. Rank(prints, i) = 1 + Cardinality(before(i)) /\ Rank(prints, j) = 1 + Cardinality(before(j))
  BY DEF Rank
<1> HIDE DEF before
<1> QED BY <1>3, <1>4, <1>5, <1>6

LEMMA RankTyped ==
  ASSUME NEW prints \in Seq(Trade), NEW i \in DOMAIN prints
  PROVE  Rank(prints, i) \in DOMAIN prints
<1> DEFINE before ==
      {l \in DOMAIN prints :
         \/ prints[l].accumulated_volume < prints[i].accumulated_volume
         \/ prints[l].accumulated_volume = prints[i].accumulated_volume /\ l < i}
<1>1. /\ DOMAIN prints = 1 .. Len(prints) /\ Len(prints) \in Nat
      /\ prints[i].accumulated_volume \in Nat
  BY TradeTyped
<1>2. IsFiniteSet(DOMAIN prints) /\ Cardinality(DOMAIN prints) = Len(prints)
  <2>1. /\ IsFiniteSet(1 .. Len(prints))
        /\ Cardinality(1 .. Len(prints)) = IF 1 > Len(prints) THEN 0 ELSE Len(prints) - 1 + 1
    BY <1>1, FS_Interval
  <2>2. Cardinality(1 .. Len(prints)) = Len(prints)
    BY <1>1, <2>1
  <2> QED BY <1>1, <2>1, <2>2
<1>3. before \subseteq DOMAIN prints /\ i \notin before
  BY <1>1
<1>4. Rank(prints, i) = 1 + Cardinality(before)
  BY DEF Rank
<1> HIDE DEF before
<1>5. /\ Cardinality(before) \in Nat /\ Cardinality(DOMAIN prints) \in Nat
      /\ Cardinality(before) < Cardinality(DOMAIN prints)
  BY <1>2, <1>3, FewerOf
<1> QED BY <1>1, <1>2, <1>4, <1>5

\* Every place has its print.
LEMMA RankOnto ==
  ASSUME NEW prints \in Seq(Trade), NEW r \in DOMAIN prints
  PROVE  \E i \in DOMAIN prints : Rank(prints, i) = r
<1> DEFINE D == DOMAIN prints
           f == [i \in D |-> Rank(prints, i)]
<1>1. IsFiniteSet(D)
  <2>1. D = 1 .. Len(prints) /\ Len(prints) \in Nat
    OBVIOUS
  <2> QED BY <2>1, FS_Interval
<1>2. f \in [D -> D]
  BY RankTyped
<1>3. \A i, j \in D : f[i] = f[j] => i = j
  BY RankOrders
<1> HIDE DEF f, D
<1>4. f \in Injection(D, D)
  BY <1>2, <1>3 DEF Injection, IsInjective
<1>5. f \in Surjection(D, D)
  BY <1>1, <1>4, FS_Injection
<1>6. \E i \in D : f[i] = r
  BY <1>5 DEF Surjection, D
<1> QED BY <1>6 DEF f, D

LEMMA SortedPrints ==
  ASSUME NEW prints \in Seq(Trade)
  PROVE  /\ Sorted(prints) \in Seq(Trade)
         /\ AmongPrints(Sorted(prints), prints) /\ AmongPrints(prints, Sorted(prints))
<1> DEFINE D == DOMAIN prints
           at(r) == CHOOSE i \in D : Rank(prints, i) = r
<1>1. D = 1 .. Len(prints) /\ Len(prints) \in Nat /\ \A i \in D : prints[i] \in Trade
  OBVIOUS
<1>2. \A r \in D : at(r) \in D /\ Rank(prints, at(r)) = r
  BY RankOnto
<1>3. \A i \in D : Rank(prints, i) \in D /\ at(Rank(prints, i)) = i
  BY <1>2, RankTyped, RankOrders
<1>4. Sorted(prints) = [r \in D |-> prints[at(r)]]
  BY DEF Sorted
<1> HIDE DEF at
<1>5. Sorted(prints) \in [1 .. Len(prints) -> Trade]
  BY <1>1, <1>2, <1>4
<1>6. Sorted(prints) \in Seq(Trade)
  BY <1>1, <1>5
<1>7. AmongPrints(Sorted(prints), prints)
  BY <1>2, <1>4 DEF AmongPrints
<1>8. AmongPrints(prints, Sorted(prints))
  BY <1>3, <1>4 DEF AmongPrints
<1> QED BY <1>6, <1>7, <1>8
-----------------------------------------------------------------------------
\* What a page holds.

LEMMA PrefixIs ==
  ASSUME NEW s \in Seq(Trade), NEW t \in Seq(Trade)
  PROVE  IsPrefix(s, t) <=> Len(s) <= Len(t) /\ \A i \in DOMAIN s : s[i] = t[i]
<1>1. /\ DOMAIN s = 1 .. Len(s) /\ Len(s) \in Nat /\ DOMAIN t = 1 .. Len(t) /\ Len(t) \in Nat
  OBVIOUS
<1>2. SubSeq(s, 1, Len(s)) = s
  OBVIOUS
<1>3. ASSUME Len(s) <= Len(t)
      PROVE  SubSeq(t, 1, Len(s)) = [i \in 1 .. Len(s) |-> t[i]]
  BY <1>1, <1>3
<1>4. s = [i \in 1 .. Len(s) |-> s[i]]
  BY <1>1
<1> QED BY <1>1, <1>2, <1>3, <1>4 DEF IsPrefix

LEMMA SubSeqPrints ==
  ASSUME NEW tape \in Seq(Trade), NEW a \in Int, NEW b \in Int, 1 <= a, b <= Len(tape)
  PROVE  /\ SubSeq(tape, a, b) \in Seq(Trade) /\ AmongPrints(SubSeq(tape, a, b), tape)
         /\ \A i \in a .. b : \E j \in DOMAIN SubSeq(tape, a, b) : SubSeq(tape, a, b)[j] = tape[i]
<1>1. DOMAIN tape = 1 .. Len(tape) /\ Len(tape) \in Nat /\ \A i \in DOMAIN tape : tape[i] \in Trade
  OBVIOUS
<1> DEFINE sub == SubSeq(tape, a, b)
<1>2. \A i \in a .. b : tape[i] \in Trade
  BY <1>1
<1>3. /\ sub \in Seq(Trade)
      /\ Len(sub) = IF a <= b THEN b - a + 1 ELSE 0
      /\ \A i \in 1 .. b - a + 1 : sub[i] = tape[a + i - 1]
  BY <1>2, SubSeqProperties
<1>4. DOMAIN sub = 1 .. Len(sub)
  BY <1>3
<1> HIDE DEF sub
<1>5. ASSUME NEW i \in DOMAIN sub PROVE \E j \in DOMAIN tape : sub[i] = tape[j]
  <2>1. i \in 1 .. b - a + 1 /\ a + i - 1 \in DOMAIN tape
    BY <1>1, <1>3, <1>4
  <2> QED BY <1>3, <2>1
<1>6. ASSUME NEW i \in a .. b PROVE \E j \in DOMAIN sub : sub[j] = tape[i]
  <2>1. i - a + 1 \in 1 .. b - a + 1 /\ i - a + 1 \in DOMAIN sub /\ a + (i - a + 1) - 1 = i
    BY <1>3, <1>4
  <2> QED BY <1>3, <2>1
<1> QED BY <1>3, <1>5, <1>6 DEF AmongPrints, sub

LEMMA JoinedPrints ==
  ASSUME NEW s \in Seq(Trade), NEW t \in Seq(Trade)
  PROVE  /\ s \o t \in Seq(Trade)
         /\ \A i \in DOMAIN (s \o t) :
              \/ \E j \in DOMAIN s : (s \o t)[i] = s[j]
              \/ \E j \in DOMAIN t : (s \o t)[i] = t[j]
         /\ AmongPrints(s, s \o t) /\ AmongPrints(t, s \o t)
<1>1. /\ DOMAIN s = 1 .. Len(s) /\ Len(s) \in Nat /\ DOMAIN t = 1 .. Len(t) /\ Len(t) \in Nat
  OBVIOUS
<1>2. /\ s \o t \in Seq(Trade) /\ Len(s \o t) = Len(s) + Len(t)
      /\ \A i \in 1 .. Len(s) + Len(t) :
           (s \o t)[i] = IF i <= Len(s) THEN s[i] ELSE t[i - Len(s)]
  BY ConcatProperties
<1>3. DOMAIN (s \o t) = 1 .. Len(s) + Len(t)
  BY <1>2
<1> DEFINE u == s \o t
<1> HIDE DEF u
<1>4. ASSUME NEW i \in 1 .. Len(s) + Len(t)
      PROVE  \/ \E j \in DOMAIN s : u[i] = s[j]
             \/ \E j \in DOMAIN t : u[i] = t[j]
  <2>1. CASE i <= Len(s)
    BY <1>1, <1>2, <2>1 DEF u
  <2>2. CASE ~(i <= Len(s))
    <3>1. i - Len(s) \in DOMAIN t /\ u[i] = t[i - Len(s)]
      BY <1>1, <1>2, <2>2 DEF u
    <3> QED BY <3>1
  <2> QED BY <2>1, <2>2
<1>5. \A j \in DOMAIN s : j \in 1 .. Len(s) + Len(t) /\ u[j] = s[j]
  BY <1>1, <1>2 DEF u
<1>6. ASSUME NEW j \in DOMAIN t
      PROVE  j + Len(s) \in 1 .. Len(s) + Len(t) /\ u[j + Len(s)] = t[j]
  <2>1. j + Len(s) \in 1 .. Len(s) + Len(t) /\ ~(j + Len(s) <= Len(s))
        /\ j + Len(s) - Len(s) = j
    BY <1>1
  <2> QED BY <1>2, <2>1 DEF u
<1> QED BY <1>2, <1>3, <1>4, <1>5, <1>6 DEF AmongPrints, u

LEMMA ServedPrints ==
  ASSUME TypeOK, NEW rows \in ServedOrders
  PROVE  /\ rows \in Seq(Trade) /\ Len(rows) = Len(log[session])
         /\ AmongPrints(rows, log[session])
         /\ Len(rows) >= 1 =>
              \E i \in {1, 2} : i <= Len(rows) /\ rows[i] = log[session][Len(rows)]
<1> DEFINE tape == log[session]
           n == Len(tape)
           newest == Reverse(tape)
           Swapped(i) == [newest EXCEPT ![i] = newest[i + 1], ![i + 1] = newest[i]]
<1>1. /\ tape \in Seq(Trade) /\ n \in Nat /\ DOMAIN tape = 1 .. n
      /\ \A i \in 1 .. n : tape[i] \in Trade
  BY DEF TypeOK
<1>2. newest = [i \in 1 .. n |-> tape[n - i + 1]]
  BY DEF Reverse
<1>3. newest \in [1 .. n -> Trade]
  BY <1>1, <1>2
<1>4. ASSUME NEW i \in 1 .. n PROVE \E j \in DOMAIN tape : newest[i] = tape[j]
  <2>1. n - i + 1 \in DOMAIN tape
    BY <1>1
  <2> HIDE DEF newest
  <2>2. newest[i] = tape[n - i + 1]
    BY <1>2
  <2> QED BY <2>1, <2>2
<1>5. rows = newest \/ \E i \in 1 .. n - 1 : rows = Swapped(i)
  <2>1. newest \in Seq(Trade) /\ Len(newest) = n
    BY <1>1, <1>3
  <2> QED BY <2>1 DEF ServedOrders
<1> HIDE DEF newest
<1>6. CASE rows = newest
  <2>1. n >= 1 => rows[1] = tape[n]
    BY <1>1, <1>2, <1>6
  <2>2. rows \in Seq(Trade) /\ Len(rows) = n /\ DOMAIN rows = 1 .. n
    BY <1>1, <1>3, <1>6
  <2> QED BY <1>4, <1>6, <2>1, <2>2 DEF AmongPrints
<1>7. ASSUME NEW i \in 1 .. n - 1, rows = Swapped(i)
      PROVE  /\ rows \in [1 .. n -> Trade]
             /\ \A k \in 1 .. n : \E j \in 1 .. n : rows[k] = newest[j]
             /\ rows[1] = newest[1] \/ rows[2] = newest[1]
             /\ n >= 2
  <2>1. i \in 1 .. n /\ i + 1 \in 1 .. n /\ i # i + 1 /\ n >= 2 /\ 1 \in 1 .. n /\ 2 \in 1 .. n
    BY <1>1
  <2>2. /\ rows \in [1 .. n -> Trade]
        /\ \A k \in 1 .. n : rows[k] = IF k = i + 1 THEN newest[i]
                                       ELSE IF k = i THEN newest[i + 1] ELSE newest[k]
    BY <1>3, <1>7, <2>1
  <2>3. CASE i = 1
    BY <2>1, <2>2, <2>3
  <2>4. CASE i # 1
    BY <2>1, <2>2, <2>4
  <2> QED BY <2>1, <2>2, <2>3, <2>4
<1>8. ASSUME NEW i \in 1 .. n - 1, rows = Swapped(i)
      PROVE  /\ rows \in Seq(Trade) /\ Len(rows) = n /\ AmongPrints(rows, tape)
             /\ 2 <= n /\ (rows[1] = tape[n] \/ rows[2] = tape[n])
  <2>4. rows \in [1 .. n -> Trade]
    BY <1>7, <1>8
  <2> HIDE DEF Swapped, tape, n
  <2>1. rows \in Seq(Trade) /\ Len(rows) = n /\ DOMAIN rows = 1 .. n
    BY <1>1, <2>4
  <2>2. AmongPrints(rows, tape)
    <3>1. \A k \in 1 .. n : \E j \in 1 .. n : rows[k] = newest[j]
      BY <1>7, <1>8
    <3>2. \A k \in 1 .. n : \E j \in DOMAIN tape : rows[k] = tape[j]
      BY <1>4, <3>1
    <3> QED BY <2>1, <3>2 DEF AmongPrints
  <2>3. newest[1] = tape[n]
    BY <1>1, <1>2, <1>7, <1>8
  <2> QED BY <1>1, <1>7, <1>8, <2>1, <2>2, <2>3
<1> HIDE DEF Swapped
<1> QED BY <1>1, <1>5, <1>6, <1>8

LEMMA AmongJoined ==
  ASSUME NEW s \in Seq(Trade), NEW t \in Seq(Trade), NEW u,
         AmongPrints(s, u), AmongPrints(t, u)
  PROVE  s \o t \in Seq(Trade) /\ AmongPrints(s \o t, u)
<1> DEFINE st == s \o t
<1>1. /\ st \in Seq(Trade)
      /\ \A i \in DOMAIN st : \/ \E j \in DOMAIN s : st[i] = s[j]
                            \/ \E j \in DOMAIN t : st[i] = t[j]
  BY JoinedPrints
<1> HIDE DEF st
<1>2. AmongPrints(st, u)
  BY <1>1 DEF AmongPrints
<1> QED BY <1>1, <1>2 DEF st

LEMMA AmongAmong ==
  ASSUME NEW s, NEW t, NEW u, AmongPrints(s, t), AmongPrints(t, u)
  PROVE  AmongPrints(s, u)
BY DEF AmongPrints

\* A page that lacks a print or repeats one has no other prints.
LEMMA MisreadPrints ==
  ASSUME NEW page \in Seq(Trade), NEW rows \in Misread(page)
  PROVE  rows \in Seq(Trade) /\ AmongPrints(rows, page)
<1>1. /\ DOMAIN page = 1 .. Len(page) /\ Len(page) \in Nat
      /\ \A i \in DOMAIN page : page[i] \in Trade
  OBVIOUS
<1> DEFINE before(i) == SubSeq(page, 1, i - 1)
<1>2. PICK i \in DOMAIN page : \/ rows = before(i) \o SubSeq(page, i + 1, Len(page))
                               \/ rows = before(i) \o <<page[i]>> \o SubSeq(page, i, Len(page))
  BY DEF Misread, RemoveAt, InsertAt
<1>3. before(i) \in Seq(Trade) /\ AmongPrints(before(i), page)
  BY <1>1, SubSeqPrints
<1>4. /\ SubSeq(page, i + 1, Len(page)) \in Seq(Trade)
      /\ AmongPrints(SubSeq(page, i + 1, Len(page)), page)
      /\ SubSeq(page, i, Len(page)) \in Seq(Trade) /\ AmongPrints(SubSeq(page, i, Len(page)), page)
  BY <1>1, SubSeqPrints
<1>5. <<page[i]>> \in Seq(Trade) /\ AmongPrints(<<page[i]>>, page)
  BY <1>1 DEF AmongPrints
<1> HIDE DEF before
<1>6. before(i) \o <<page[i]>> \in Seq(Trade) /\ AmongPrints(before(i) \o <<page[i]>>, page)
  BY <1>3, <1>5, AmongJoined
<1>7. CASE rows = before(i) \o SubSeq(page, i + 1, Len(page))
  BY <1>3, <1>4, <1>7, AmongJoined
<1>8. CASE rows = before(i) \o <<page[i]>> \o SubSeq(page, i, Len(page))
  BY <1>4, <1>6, <1>8, AmongJoined
<1> QED BY <1>2, <1>7, <1>8

\* The rows of a page are prints of the session being served; the first page of a whole
\* answer has the newest, as long as two prints fit on it.
LEMMA PageRows ==
  ASSUME TypeOK, NEW page \in Nat \ {0}, NEW rows \in Pages(page)
  PROVE  /\ rows \in Seq(Trade) /\ AmongPrints(rows, log[session])
         /\ /\ page = 1 /\ 2 <= PageSize
            /\ session \notin Faulty /\ log[session] # <<>>
            => \E j \in DOMAIN rows : rows[j] = log[session][Len(log[session])]
<1> DEFINE a == (page - 1) * PageSize + 1
           b(all) == IF page * PageSize < Len(all) THEN page * PageSize ELSE Len(all)
           Page(all) == SubSeq(all, a, b(all))
           pages == {Page(all) : all \in ServedOrders}
<1>1. a \in Nat /\ 1 <= a /\ page * PageSize \in Nat /\ PageSize \in Nat
  <2>1. PageSize \in Nat /\ page - 1 \in Nat
    BY TradeTyped
  <2>2. (page - 1) * PageSize \in Nat /\ page * PageSize \in Nat
    BY <2>1
  <2> QED BY <2>1, <2>2
<1>2. rows \in pages \cup (IF session \in Faulty THEN UNION {Misread(p) : p \in pages} ELSE {})
  BY DEF Pages
<1> HIDE DEF a
<1>3. ASSUME NEW all \in ServedOrders
      PROVE  /\ Page(all) \in Seq(Trade) /\ AmongPrints(Page(all), log[session])
             /\ \A i \in a .. b(all) : \E j \in DOMAIN Page(all) : Page(all)[j] = all[i]
  <2>1. /\ all \in Seq(Trade) /\ Len(all) \in Nat /\ AmongPrints(all, log[session])
    BY ServedPrints
  <2>2. b(all) \in Int /\ b(all) <= Len(all)
    BY <1>1, <2>1
  <2> DEFINE last == b(all)
             sub == SubSeq(all, a, last)
  <2> HIDE DEF last
  <2>3. /\ sub \in Seq(Trade) /\ AmongPrints(sub, all)
        /\ \A i \in a .. last : \E j \in DOMAIN sub : sub[j] = all[i]
    <3>1. last \in Int /\ last <= Len(all) /\ a \in Int /\ 1 <= a /\ all \in Seq(Trade)
      BY <1>1, <2>1, <2>2 DEF last
    <3> QED BY <3>1, SubSeqPrints
  <2>4. Page(all) = sub
    BY DEF last
  <2> HIDE DEF Page, sub
  <2> QED BY <2>1, <2>3, <2>4, AmongAmong DEF last
<1> HIDE DEF Page
<1>4. rows \in Seq(Trade) /\ AmongPrints(rows, log[session])
  <2>1. CASE rows \in pages
    BY <1>3, <2>1
  <2>2. ASSUME NEW all \in ServedOrders, rows \in Misread(Page(all))
        PROVE  rows \in Seq(Trade) /\ AmongPrints(rows, log[session])
    BY <1>3, <2>2, MisreadPrints, AmongAmong
  <2> QED BY <1>2, <2>1, <2>2
<1>5. ASSUME page = 1, 2 <= PageSize, session \notin Faulty, log[session] # <<>>
      PROVE  \E j \in DOMAIN rows : rows[j] = log[session][Len(log[session])]
  <2>1. PICK all \in ServedOrders : rows = Page(all)
    BY <1>2, <1>5
  <2>2. log[session] \in Seq(Trade) /\ Len(log[session]) >= 1
    BY <1>5 DEF TypeOK
  <2>3. Len(all) = Len(log[session]) /\ Len(all) \in Nat
    BY <2>2, ServedPrints
  <2>4. PICK i \in {1, 2} : i <= Len(all) /\ all[i] = log[session][Len(log[session])]
    BY <2>2, <2>3, ServedPrints
  <2>5. a = 1 /\ page * PageSize = PageSize
    BY <1>1, <1>5 DEF a
  <2>6. i \in a .. b(all)
    BY <1>1, <1>5, <2>3, <2>4, <2>5
  <2> HIDE DEF b
  <2> QED BY <1>3, <2>1, <2>4, <2>6
<1> QED BY <1>4, <1>5
-----------------------------------------------------------------------------
\* What a chain of prints is.

\* Of what a call has read, only a prefix of one session goes through.
LEMMA ChainedTape ==
  ASSUME log \in [Sessions -> Seq(Trade)], Logged(log),
         NEW prints \in Seq(Trade), \A i \in DOMAIN prints : Printed(prints[i], log),
         Tape(prints) \notin {NoTape, Refused}
  PROVE  LET tape == Tape(prints)
         IN /\ tape \in Seq(Trade) /\ tape # <<>> /\ AmongPrints(prints, tape)
            /\ tape[1].date \in Sessions
            /\ \A i \in DOMAIN tape : tape[i].date = tape[1].date
            /\ IsPrefix(tape, log[tape[1].date])
<1> DEFINE tape == Sorted(prints)
           s == tape[1].date
<1>1. Tape(prints) = tape /\ Chains(tape) /\ prints # <<>>
  BY DEF Tape
<1>2. tape \in Seq(Trade) /\ AmongPrints(tape, prints) /\ AmongPrints(prints, tape)
  BY SortedPrints
<1> HIDE DEF tape
<1>3. tape # <<>>
  <2>1. 1 \in DOMAIN prints
    BY <1>1
  <2> QED BY <1>2, <2>1 DEF AmongPrints
<1>4. /\ 1 \in DOMAIN tape /\ s \in Sessions /\ \A i \in DOMAIN tape : tape[i].date = s
      /\ Running(tape)
  BY <1>1, <1>2, <1>3, TradeTyped DEF Chains, Running
<1>5. AmongPrints(tape, log[s])
  <2> SUFFICES ASSUME NEW i \in DOMAIN tape
               PROVE  \E j \in DOMAIN log[s] : tape[i] = log[s][j]
    BY DEF AmongPrints
  <2>1. Printed(tape[i], log) /\ tape[i].date = s
    BY <1>2, <1>4 DEF AmongPrints
  <2> QED BY <2>1 DEF Printed
<1>6. log[s] \in Seq(Trade) /\ Running(log[s])
  BY <1>4 DEF Logged
<1>7. \A i \in DOMAIN tape : i \in DOMAIN log[s] /\ tape[i] = log[s][i]
  BY <1>2, <1>4, <1>5, <1>6, OneRunningSum
<1>8. Len(tape) <= Len(log[s])
  <2>1. /\ Len(tape) \in DOMAIN tape /\ DOMAIN log[s] = 1 .. Len(log[s])
        /\ Len(log[s]) \in Nat /\ Len(tape) \in Nat
    BY <1>2, <1>3, <1>6
  <2> QED BY <1>7, <2>1
<1>9. IsPrefix(tape, log[s])
  BY <1>2, <1>6, <1>7, <1>8, PrefixIs
<1> QED BY <1>1, <1>2, <1>3, <1>4, <1>9
-----------------------------------------------------------------------------
\* TapeInv is inductive.

\* A trade adds a print to its session, and the running sum goes on.
LEMMA MatchAppends ==
  ASSUME TapeInv, NEW v \in 1 .. MaxVolume, Match(v)
  PROVE  /\ log' \in [Sessions -> Seq(Trade)] /\ Logged(log')
         /\ \A s \in Sessions : IsPrefix(log[s], log'[s])
<1> DEFINE tape == log[session]
           p == [date |-> session, volume |-> v, accumulated_volume |-> Accumulated(tape) + v]
           next == Append(tape, p)
<1>1. /\ log \in [Sessions -> Seq(Trade)] /\ session \in Sessions /\ tape \in Seq(Trade)
      /\ Logged(log) /\ MaxVolume \in Nat
  BY TapeAssumption DEF TapeInv, TypeOK
<1>2. DOMAIN tape = 1 .. Len(tape) /\ Len(tape) \in Nat /\ \A i \in DOMAIN tape : tape[i] \in Trade
  BY <1>1
<1>3. Accumulated(tape) = IF Len(tape) = 0 THEN 0 ELSE tape[Len(tape)].accumulated_volume
  BY <1>1 DEF Accumulated
<1>4. Accumulated(tape) \in Nat
  <2>1. Len(tape) # 0 => Len(tape) \in DOMAIN tape
    BY <1>2
  <2> QED BY <1>2, <1>3, <2>1, TradeTyped
<1>5. p \in Trade /\ p.date = session /\ p.volume = v
      /\ p.accumulated_volume = Accumulated(tape) + v
  BY <1>1, <1>4 DEF Trade
<1>6. log' = [log EXCEPT ![session] = next]
  BY DEF Match
<1> HIDE DEF p
<1>7. /\ next \in Seq(Trade) /\ Len(next) = Len(tape) + 1
      /\ DOMAIN next = 1 .. Len(tape) + 1
      /\ \A i \in 1 .. Len(tape) : next[i] = tape[i]
      /\ next[Len(tape) + 1] = p
  BY <1>1, <1>2, <1>5, AppendProperties
<1> HIDE DEF next
<1>8. /\ log' \in [Sessions -> Seq(Trade)]
      /\ \A s \in Sessions : log'[s] = IF s = session THEN next ELSE log[s]
  BY <1>1, <1>6, <1>7
<1>9. Running(next) /\ \A i \in DOMAIN next : next[i].date = session
  <2> SUFFICES ASSUME NEW i \in DOMAIN next
               PROVE  /\ next[i].accumulated_volume =
                           next[i].volume + (IF i = 1 THEN 0 ELSE next[i - 1].accumulated_volume)
                      /\ next[i].date = session
    BY DEF Running
  <2>1. CASE i \in 1 .. Len(tape)
    <3>1. /\ i \in DOMAIN tape /\ next[i] = tape[i] /\ (i # 1 => next[i - 1] = tape[i - 1])
      BY <1>2, <1>7, <2>1
    <3>2. /\ tape[i].accumulated_volume =
               tape[i].volume + (IF i = 1 THEN 0 ELSE tape[i - 1].accumulated_volume)
          /\ tape[i].date = session
      BY <1>1, <3>1 DEF Logged, Running
    <3> QED BY <3>1, <3>2
  <2>2. CASE i = Len(tape) + 1
    <3>1. next[i] = p /\ (i = 1 <=> Len(tape) = 0) /\ (i # 1 => next[i - 1] = tape[Len(tape)])
      BY <1>2, <1>7, <2>2
    <3>2. Accumulated(tape) = IF i = 1 THEN 0 ELSE next[i - 1].accumulated_volume
      BY <1>3, <3>1
    <3>3. p.accumulated_volume = v + Accumulated(tape)
      BY <1>1, <1>4, <1>5
    <3> QED BY <1>5, <3>1, <3>2, <3>3
  <2> QED BY <1>2, <1>7, <2>1, <2>2
<1>10. Logged(log')
  BY <1>1, <1>8, <1>9 DEF Logged
<1>11. IsPrefix(tape, next) /\ \A s \in Sessions : IsPrefix(log[s], log[s])
  <2>1. Len(tape) <= Len(next) /\ \A i \in DOMAIN tape : tape[i] = next[i]
    BY <1>2, <1>7
  <2>2. ASSUME NEW s \in Sessions PROVE IsPrefix(log[s], log[s])
    <3>1. log[s] \in Seq(Trade) /\ Len(log[s]) <= Len(log[s])
      BY <1>1
    <3> QED BY <3>1, PrefixIs
  <2> QED BY <1>1, <1>7, <2>1, <2>2, PrefixIs
<1> QED BY <1>8, <1>10, <1>11

\* What has been printed stays, and so does what was a prefix.
LEMMA StillPrinted ==
  ASSUME log \in [Sessions -> Seq(Trade)], log' \in [Sessions -> Seq(Trade)],
         \A s \in Sessions : IsPrefix(log[s], log'[s])
  PROVE  /\ \A p \in Trade : Printed(p, log) => Printed(p, log')
         /\ \A s \in Sessions : \A t \in Seq(Trade) : IsPrefix(t, log[s]) => IsPrefix(t, log'[s])
<1>1. ASSUME NEW s \in Sessions
      PROVE  /\ DOMAIN log[s] \subseteq DOMAIN log'[s]
             /\ Len(log[s]) <= Len(log'[s])
             /\ \A i \in DOMAIN log[s] : log[s][i] = log'[s][i]
  <2>1. log[s] \in Seq(Trade) /\ log'[s] \in Seq(Trade)
    OBVIOUS
  <2>2. Len(log[s]) <= Len(log'[s]) /\ \A i \in DOMAIN log[s] : log[s][i] = log'[s][i]
    BY <2>1, PrefixIs
  <2>3. /\ DOMAIN log[s] = 1 .. Len(log[s]) /\ DOMAIN log'[s] = 1 .. Len(log'[s])
        /\ Len(log[s]) \in Nat /\ Len(log'[s]) \in Nat
    BY <2>1
  <2> QED BY <2>2, <2>3
<1>2. ASSUME NEW p \in Trade, Printed(p, log) PROVE Printed(p, log')
  <2>1. p.date \in Sessions
    BY TradeTyped
  <2> QED BY <1>1, <1>2, <2>1 DEF Printed
<1>3. ASSUME NEW s \in Sessions, NEW t \in Seq(Trade), IsPrefix(t, log[s])
      PROVE  IsPrefix(t, log'[s])
  <2>1. log[s] \in Seq(Trade) /\ log'[s] \in Seq(Trade)
    OBVIOUS
  <2>2. Len(t) <= Len(log[s]) /\ \A i \in DOMAIN t : t[i] = log[s][i]
    BY <1>3, <2>1, PrefixIs
  <2>3. /\ DOMAIN log[s] = 1 .. Len(log[s]) /\ DOMAIN t = 1 .. Len(t)
        /\ Len(log[s]) \in Nat /\ Len(t) \in Nat /\ Len(log'[s]) \in Nat
    BY <2>1
  <2>4. Len(t) <= Len(log'[s]) /\ \A i \in DOMAIN t : t[i] = log'[s][i]
    BY <1>1, <2>2, <2>3
  <2> QED BY <2>1, <2>4, PrefixIs
<1> QED BY <1>2, <1>3

LEMMA ExchangeKept == TapeInv /\ Exchange => TapeInv'
<1> SUFFICES ASSUME TapeInv, Exchange PROVE TapeInv'
  OBVIOUS
<1>1. CASE RollOver
  <2>1. session' \in Sessions
    BY <1>1, TapeAssumption DEF RollOver, TapeInv, TypeOK, Sessions
  <2> QED BY <1>1, <2>1 DEF RollOver, TapeInv, TypeOK, TapeIsAPrefix, Printed, Logged, Running
<1>2. ASSUME NEW v \in 1 .. MaxVolume, Match(v) PROVE TapeInv'
  <2>1. session' = session /\ call' = call /\ answer' = answer
    BY <1>2 DEF Match
  <2>2. /\ log' \in [Sessions -> Seq(Trade)] /\ Logged(log')
        /\ \A s \in Sessions : IsPrefix(log[s], log'[s])
    BY <1>2, MatchAppends
  <2>3. TypeOK'
    BY <2>1, <2>2 DEF TapeInv, TypeOK
  <2>4. \A i \in DOMAIN call'.prints : Printed(call'.prints[i], log')
    <3>1. \A i \in DOMAIN call.prints : call.prints[i] \in Trade /\ Printed(call.prints[i], log)
      BY DEF TapeInv, TypeOK
    <3> QED BY <2>1, <2>2, <3>1, StillPrinted DEF TapeInv, TypeOK
  <2>5. TapeIsAPrefix'
    BY <2>1, <2>2, StillPrinted DEF TapeIsAPrefix, TapeInv, TypeOK
  <2>6. (\A i \in DOMAIN call.prints : Printed(call.prints[i], log))'
    BY <2>4 DEF Printed
  <2>7. Logged(log)'
    BY <2>2 DEF Logged, Running
  <2> QED BY <2>3, <2>5, <2>6, <2>7 DEF TapeInv
<1> QED BY <1>1, <1>2 DEF Exchange

\* What a fetched page adds.
LEMMA FetchedPrints ==
  ASSUME TapeInv, call.page > 0, NEW rows \in Pages(call.page)
  PROVE  /\ call.prints \o rows \in Seq(Trade)
         /\ \A i \in DOMAIN (call.prints \o rows) : Printed((call.prints \o rows)[i], log)
<1>1. call.page \in Nat \ {0} /\ call.prints \in Seq(Trade) /\ TypeOK
  BY TapeAssumption DEF TapeInv, TypeOK
<1>2. rows \in Seq(Trade) /\ AmongPrints(rows, log[session])
  BY <1>1, PageRows
<1>3. ASSUME NEW i \in DOMAIN rows PROVE Printed(rows[i], log)
  <2>1. PICK j \in DOMAIN log[session] : rows[i] = log[session][j]
    BY <1>2 DEF AmongPrints
  <2>2. rows[i].date = session
    BY <2>1 DEF TapeInv, TypeOK, Logged
  <2> QED BY <2>1, <2>2 DEF Printed
<1>4. \A i \in DOMAIN call.prints : Printed(call.prints[i], log)
  BY DEF TapeInv
<1> DEFINE prints == call.prints \o rows
<1>5. /\ prints \in Seq(Trade)
      /\ \A i \in DOMAIN prints : \/ \E j \in DOMAIN call.prints : prints[i] = call.prints[j]
                                  \/ \E j \in DOMAIN rows : prints[i] = rows[j]
  BY <1>1, <1>2, JoinedPrints
<1> HIDE DEF prints
<1>6. \A i \in DOMAIN prints : Printed(prints[i], log)
  BY <1>3, <1>4, <1>5
<1> QED BY <1>5, <1>6 DEF prints

LEMMA SourceKept == TapeInv /\ Source => TapeInv'
<1> SUFFICES ASSUME TapeInv, Source PROVE TapeInv'
  OBVIOUS
<1>1. session' = session /\ log' = log
  BY DEF Source, GetTradeTape, FetchPage, FetchFails
<1>2. TypeOK /\ Logged(log) /\ TapeIsAPrefix /\ MaxPages \in Nat \ {0}
  BY TapeAssumption DEF TapeInv
<1>3. Idle.page = 0 /\ Idle.prints = <<>> /\ Idle \in [page : 0 .. MaxPages, prints : Seq(Trade)]
  BY <1>2 DEF Idle
<1>4. ASSUME call' \in [page : 0 .. MaxPages, prints : Seq(Trade)],
             \A i \in DOMAIN call'.prints : Printed(call'.prints[i], log),
             answer' \in Seq(Trade) \cup {NoTape, Refused},
             answer' \notin {NoTape, Refused} => \E s \in Sessions : IsPrefix(answer', log[s])
      PROVE  TapeInv'
  <2>1. TypeOK'
    BY <1>1, <1>2, <1>4 DEF TypeOK
  <2>2. Logged(log)'
    BY <1>1, <1>2 DEF Logged, Running
  <2>3. (\A i \in DOMAIN call.prints : Printed(call.prints[i], log))'
    BY <1>1, <1>4 DEF Printed
  <2>4. TapeIsAPrefix'
    BY <1>1, <1>4 DEF TapeIsAPrefix
  <2> QED BY <2>1, <2>2, <2>3, <2>4 DEF TapeInv
<1>5. CASE GetTradeTape
  BY <1>2, <1>4, <1>5 DEF GetTradeTape, TypeOK, TapeIsAPrefix
<1>6. CASE FetchFails
  BY <1>3, <1>4, <1>6 DEF FetchFails
<1>7. CASE FetchPage
  <2>1. PICK rows \in Pages(call.page) :
          LET prints == call.prints \o rows
          IN IF Len(rows) < PageSize
             THEN call' = Idle /\ answer' = Tape(prints)
             ELSE IF call.page < MaxPages
             THEN call' = [page |-> call.page + 1, prints |-> prints] /\ UNCHANGED answer
             ELSE call' = Idle /\ answer' = Refused
    BY <1>7 DEF FetchPage
  <2> DEFINE prints == call.prints \o rows
  <2>2. prints \in Seq(Trade) /\ \A i \in DOMAIN prints : Printed(prints[i], log)
    BY <1>7, FetchedPrints DEF FetchPage
  <2> HIDE DEF prints
  <2>3. CASE call' = Idle /\ answer' = Tape(prints)
    <3>1. answer' \notin {NoTape, Refused} =>
            answer' \in Seq(Trade) /\ \E s \in Sessions : IsPrefix(answer', log[s])
      BY <1>2, <2>2, <2>3, ChainedTape DEF TypeOK
    <3> QED BY <1>3, <1>4, <2>3, <3>1
  <2>4. CASE /\ call.page < MaxPages /\ answer' = answer
             /\ call' = [page |-> call.page + 1, prints |-> prints]
    BY <1>2, <1>4, <2>2, <2>4 DEF TypeOK, TapeIsAPrefix
  <2>5. CASE call' = Idle /\ answer' = Refused
    BY <1>3, <1>4, <2>5
  <2> QED BY <2>1, <2>3, <2>4, <2>5 DEF prints
<1> QED BY <1>5, <1>6, <1>7 DEF Source

LEMMA InitTape == Init => TapeInv
<1> SUFFICES ASSUME Init PROVE TapeInv
  OBVIOUS
<1>1. TypeOK
  BY TapeAssumption DEF Init, TypeOK, Idle, Sessions
<1>2. Logged(log)
  BY DEF Init, Logged, Running
<1> QED BY <1>1, <1>2 DEF Init, TapeInv, TapeIsAPrefix, Idle

LEMMA NextTape == TapeInv /\ [Next]_vars => TapeInv'
<1>1. TapeInv /\ UNCHANGED vars => TapeInv'
  BY DEF vars, TapeInv, TypeOK, TapeIsAPrefix, Logged, Running, Printed
<1> QED BY <1>1, ExchangeKept, SourceKept DEF Next

\* Every page, print and answer keeps its shape.
THEOREM TypeCorrect == Spec => []TypeOK
<1>1. TapeInv => TypeOK
  BY DEF TapeInv
<1> QED BY <1>1, InitTape, NextTape, PTL DEF Spec

\* A returned tape is one session from its first print on, with none missing and none
\* twice, whatever was printed, swapped, misread or rolled over between its pages.
THEOREM TapesArePrefixes == Spec => []TapeIsAPrefix
<1>1. TapeInv => TapeIsAPrefix
  BY DEF TapeInv
<1> QED BY <1>1, InitTape, NextTape, PTL DEF Spec
-----------------------------------------------------------------------------
\* What a tape of the session that was asked for has.

\* Of what was read, something tells that session s has at least n prints, or is over.
Reaches(prints, logs, s, n) ==
  \E k \in DOMAIN prints :
    \/ prints[k].date # s
    \/ \E m \in DOMAIN logs[s] : n <= m /\ prints[k] = logs[s][m]

\* What was asked for is still there, and past the first page of a whole answer its
\* newest print has been read, or a newer one, or one of a later session.
Asking(q, was, logs, serving) ==
  /\ was \in Seq(Trade)
  /\ q.page = 1 => q.prints = <<>>
  /\ q.page > 0 /\ was # <<>> =>
       /\ was[1].date <= serving
       /\ IsPrefix(was, logs[was[1].date])
       /\ q.page > 1 /\ was[1].date \notin Faulty =>
            Reaches(q.prints, logs, was[1].date, Len(was))

AskedInv == TapeInv /\ Asking(call, asked, log, session)

\* The page at hand tells as much, if it is not an empty first one.
LEMMA FetchReaches ==
  ASSUME AskedInv, 2 <= PageSize, call.page > 0, NEW rows \in Pages(call.page),
         asked # <<>>, asked[1].date \notin Faulty, call.prints \o rows # <<>>
  PROVE  Reaches(call.prints \o rows, log, asked[1].date, Len(asked))
<1> DEFINE s == asked[1].date
           prints == call.prints \o rows
<1>1. /\ TapeInv /\ TypeOK /\ asked \in Seq(Trade) /\ s <= session /\ IsPrefix(asked, log[s])
      /\ call.page \in Nat \ {0} /\ call.prints \in Seq(Trade)
      /\ session \in Sessions /\ log[session] \in Seq(Trade)
  BY TapeAssumption DEF AskedInv, Asking, TapeInv, TypeOK
<1>2. asked[1] \in Trade /\ s \in Sessions
  <2>1. 1 \in DOMAIN asked /\ \A i \in DOMAIN asked : asked[i] \in Trade
    BY <1>1
  <2> QED BY <2>1, TradeTyped
<1>3. /\ rows \in Seq(Trade) /\ AmongPrints(rows, log[session])
      /\ /\ call.page = 1 /\ 2 <= PageSize
         /\ session \notin Faulty /\ log[session] # <<>>
         => \E j \in DOMAIN rows : rows[j] = log[session][Len(log[session])]
  BY <1>1, PageRows
<1>4. AmongPrints(call.prints, prints) /\ AmongPrints(rows, prints)
  BY <1>1, <1>3, JoinedPrints
<1>5. CASE call.page > 1
  <2>1. Reaches(call.prints, log, s, Len(asked))
    BY <1>1, <1>5 DEF AskedInv, Asking
  <2> HIDE DEF prints, s
  <2> QED BY <1>4, <2>1 DEF Reaches, AmongPrints, prints, s
<1>6. CASE call.page = 1
  <2>1. rows # <<>>
    <3>1. call.prints = <<>>
      BY <1>6 DEF AskedInv, Asking
    <3> QED BY <1>3, <3>1
  <2>2. CASE session = s
    <3>1. /\ log[s] \in Seq(Trade) /\ Len(asked) <= Len(log[s]) /\ Len(asked) \in Nat
          /\ Len(asked) >= 1
      <4>1. log[s] \in Seq(Trade) /\ Len(asked) \in Nat /\ Len(asked) >= 1
        BY <1>1, <2>2
      <4> QED BY <1>1, <4>1, PrefixIs
    <3>2. Len(log[s]) \in DOMAIN log[s] /\ log[s] # <<>>
      BY <3>1
    <3>3. PICK j \in DOMAIN rows : rows[j] = log[s][Len(log[s])]
      BY <1>3, <1>6, <2>2, <3>2
    <3>4. PICK k \in DOMAIN prints : prints[k] = rows[j]
      BY <1>4 DEF AmongPrints
    <3> HIDE DEF prints, s
    <3> QED BY <3>1, <3>2, <3>3, <3>4 DEF Reaches, prints, s
  <2>3. CASE session # s
    <3>1. 1 \in DOMAIN rows
      BY <1>3, <2>1
    <3>2. rows[1].date = session
      <4>1. PICK j \in DOMAIN log[session] : rows[1] = log[session][j]
        BY <1>3, <3>1 DEF AmongPrints
      <4> QED BY <1>1, <4>1 DEF TapeInv, Logged
    <3>3. PICK k \in DOMAIN prints : prints[k] = rows[1]
      BY <1>4, <3>1 DEF AmongPrints
    <3> HIDE DEF prints
    <3> QED BY <2>3, <3>2, <3>3 DEF Reaches, prints
  <2> QED BY <2>2, <2>3
<1> QED BY <1>1, <1>5, <1>6

\* A tape that goes through and tells so much has all of it.
LEMMA ReachedTape ==
  ASSUME AskedInv, call.page > 0, asked # <<>>,
         NEW prints \in Seq(Trade), \A i \in DOMAIN prints : Printed(prints[i], log),
         Tape(prints) \notin {NoTape, Refused}, asked[1].date = Tape(prints)[1].date,
         Reaches(prints, log, asked[1].date, Len(asked))
  PROVE  IsPrefix(asked, Tape(prints))
<1> DEFINE tape == Tape(prints)
           s == tape[1].date
<1>1. /\ log \in [Sessions -> Seq(Trade)] /\ Logged(log)
      /\ asked \in Seq(Trade) /\ IsPrefix(asked, log[s])
  BY DEF AskedInv, Asking, TapeInv, TypeOK
<1>2. /\ tape \in Seq(Trade) /\ AmongPrints(prints, tape) /\ s \in Sessions
      /\ \A i \in DOMAIN tape : tape[i].date = s
      /\ IsPrefix(tape, log[s])
  BY <1>1, ChainedTape
<1>3. log[s] \in Seq(Trade) /\ Running(log[s])
  BY <1>1, <1>2 DEF Logged
<1>4. /\ Len(tape) <= Len(log[s]) /\ \A i \in DOMAIN tape : tape[i] = log[s][i]
      /\ Len(asked) <= Len(log[s]) /\ \A i \in DOMAIN asked : asked[i] = log[s][i]
  BY <1>1, <1>2, <1>3, PrefixIs
<1>5. PICK k \in DOMAIN prints :
        \/ prints[k].date # s
        \/ \E m \in DOMAIN log[s] : Len(asked) <= m /\ prints[k] = log[s][m]
  BY DEF Reaches
<1>6. PICK i \in DOMAIN tape : prints[k] = tape[i]
  BY <1>2, <1>5 DEF AmongPrints
<1> HIDE DEF tape, s
<1>7. PICK m \in DOMAIN log[s] : Len(asked) <= m /\ tape[i] = log[s][m]
  BY <1>2, <1>5, <1>6
<1>8. /\ DOMAIN tape = 1 .. Len(tape) /\ Len(tape) \in Nat
      /\ DOMAIN log[s] = 1 .. Len(log[s]) /\ Len(log[s]) \in Nat
      /\ DOMAIN asked = 1 .. Len(asked) /\ Len(asked) \in Nat
      /\ \A j \in DOMAIN log[s] : log[s][j].accumulated_volume \in Nat
  BY <1>1, <1>2, <1>3, TradeTyped
<1>9. i \in DOMAIN log[s] /\ log[s][i] = log[s][m]
  BY <1>4, <1>7, <1>8
<1>10. ~(i < m) /\ ~(m < i)
  BY <1>3, <1>7, <1>8, <1>9, SumsGrow
<1>11. Len(asked) <= Len(tape)
  BY <1>7, <1>8, <1>9, <1>10
<1>12. \A j \in DOMAIN asked : asked[j] = tape[j]
  BY <1>4, <1>8, <1>11
<1>13. IsPrefix(asked, tape)
  BY <1>1, <1>2, <1>11, <1>12, PrefixIs
<1> QED BY <1>13 DEF tape

LEMMA AskedExchange ==
  ASSUME AskedInv, Exchange, asked' = asked
  PROVE  Asking(call', asked', log', session')
<1>1. /\ call' = call /\ session \in Nat /\ session' \in Nat /\ session <= session'
      /\ asked \in Seq(Trade) /\ TapeInv
  <2>1. session \in Sessions /\ session' \in {session, session + 1} /\ call' = call
    BY DEF Exchange, RollOver, Match, AskedInv, TapeInv, TypeOK
  <2> QED BY <2>1, TradeTyped DEF AskedInv, Asking
<1>2. /\ log \in [Sessions -> Seq(Trade)] /\ log' \in [Sessions -> Seq(Trade)]
      /\ \A s \in Sessions : IsPrefix(log[s], log'[s])
  <2>1. log \in [Sessions -> Seq(Trade)]
    BY <1>1 DEF TapeInv, TypeOK
  <2>2. CASE RollOver
    <3>1. \A s \in Sessions : log[s] \in Seq(Trade) /\ Len(log[s]) <= Len(log[s])
      BY <2>1
    <3> QED BY <2>1, <2>2, <3>1, PrefixIs DEF RollOver
  <2>3. ASSUME NEW v \in 1 .. MaxVolume, Match(v)
        PROVE  /\ log' \in [Sessions -> Seq(Trade)]
               /\ \A s \in Sessions : IsPrefix(log[s], log'[s])
    BY <1>1, <2>3, MatchAppends
  <2> QED BY <2>1, <2>2, <2>3 DEF Exchange
<1>3. ASSUME asked # <<>>
      PROVE  /\ asked[1].date \in Sessions /\ asked[1].date \in Nat
             /\ \A n \in Nat : Reaches(call.prints, log, asked[1].date, n) =>
                               Reaches(call.prints, log', asked[1].date, n)
  <2>1. asked[1] \in Trade
    BY <1>1, <1>3
  <2>2. asked[1].date \in Sessions /\ asked[1].date \in Nat
    BY <2>1, TradeTyped
  <2> DEFINE s == asked[1].date
  <2>3. /\ Len(log[s]) <= Len(log'[s]) /\ \A i \in DOMAIN log[s] : log[s][i] = log'[s][i]
        /\ DOMAIN log[s] = 1 .. Len(log[s]) /\ DOMAIN log'[s] = 1 .. Len(log'[s])
        /\ Len(log[s]) \in Nat /\ Len(log'[s]) \in Nat
    <3>1. log[s] \in Seq(Trade) /\ log'[s] \in Seq(Trade) /\ IsPrefix(log[s], log'[s])
      BY <1>2, <2>2
    <3> HIDE DEF s
    <3> QED BY <3>1, PrefixIs
  <2>4. \A m \in DOMAIN log[s] : m \in DOMAIN log'[s] /\ log[s][m] = log'[s][m]
    BY <2>3
  <2> QED BY <2>2, <2>4 DEF Reaches
<1>4. ASSUME call.page > 0, asked # <<>>
      PROVE  /\ asked[1].date <= session'
             /\ IsPrefix(asked, log'[asked[1].date])
             /\ call.page > 1 /\ asked[1].date \notin Faulty =>
                  Reaches(call.prints, log', asked[1].date, Len(asked))
  <2>1. /\ asked[1].date <= session /\ IsPrefix(asked, log[asked[1].date])
        /\ call.page > 1 /\ asked[1].date \notin Faulty =>
             Reaches(call.prints, log, asked[1].date, Len(asked))
        /\ Len(asked) \in Nat
    BY <1>4 DEF AskedInv, Asking
  <2>2. asked[1].date <= session'
    BY <1>1, <1>3, <1>4, <2>1
  <2>3. IsPrefix(asked, log'[asked[1].date])
    BY <1>1, <1>2, <1>3, <1>4, <2>1, StillPrinted
  <2> QED BY <1>3, <1>4, <2>1, <2>2, <2>3
<1> QED BY <1>1, <1>4 DEF AskedInv, Asking

LEMMA AskedSource ==
  ASSUME AskedInv, 2 <= PageSize, Source, asked' = IF GetTradeTape THEN log[session] ELSE asked
  PROVE  Asking(call', asked', log', session')
<1>1. /\ session' = session /\ log' = log /\ TapeInv /\ asked \in Seq(Trade)
      /\ session \in Sessions /\ session \in Nat
      /\ log[session] \in Seq(Trade) /\ Idle.page = 0
  BY TradeTyped
     DEF Source, GetTradeTape, FetchPage, FetchFails, AskedInv, Asking, TapeInv, TypeOK, Idle
<1>2. CASE GetTradeTape
  <2>1. call'.page = 1 /\ call'.prints = <<>> /\ asked' = log[session]
    BY <1>2 DEF GetTradeTape
  <2>2. ASSUME log[session] # <<>> PROVE log[session][1].date = session
    <3>1. 1 \in DOMAIN log[session]
      BY <1>1, <2>2
    <3> QED BY <1>1, <3>1 DEF TapeInv, Logged
  <2>3. IsPrefix(log[session], log[session])
    BY <1>1, PrefixIs
  <2> QED BY <1>1, <2>1, <2>2, <2>3 DEF Asking
<1>3. CASE ~GetTradeTape /\ call'.page = 0
  BY <1>1, <1>3 DEF Asking
<1>4. CASE ~GetTradeTape /\ call'.page # 0
  <2>1. FetchPage
    BY <1>1, <1>4 DEF Source, FetchFails
  <2>2. PICK rows \in Pages(call.page) :
          /\ ~(Len(rows) < PageSize) /\ call.page > 0
          /\ call' = [page |-> call.page + 1, prints |-> call.prints \o rows]
    BY <1>1, <1>4, <2>1 DEF FetchPage
  <2>3. call.page \in Nat /\ call.page + 1 > 1 /\ asked' = asked
    BY <1>1, <1>4, <2>2 DEF TapeInv, TypeOK
  <2>4. call.prints \o rows # <<>>
    <3>1. rows \in Seq(Trade) /\ call.prints \in Seq(Trade)
      BY <1>1, <2>2, <2>3, PageRows DEF TapeInv, TypeOK
    <3>2. Len(rows) # 0
      BY <2>2, <3>1, TradeTyped
    <3> QED BY <3>1, <3>2
  <2>5. call'.page = call.page + 1 /\ call'.prints = call.prints \o rows
    BY <2>2
  <2>6. asked # <<>> /\ asked[1].date \notin Faulty =>
          Reaches(call.prints \o rows, log, asked[1].date, Len(asked))
    BY <2>2, <2>4, FetchReaches
  <2>7. asked # <<>> => asked[1].date <= session /\ IsPrefix(asked, log[asked[1].date])
    BY <2>2 DEF AskedInv, Asking
  <2> QED BY <1>1, <2>3, <2>5, <2>6, <2>7 DEF Asking
<1> QED BY <1>2, <1>3, <1>4

LEMMA NextAsked == ASSUME 2 <= PageSize PROVE AskedInv /\ [HistoryNext]_mcvars => AskedInv'
<1> SUFFICES ASSUME AskedInv, [HistoryNext]_mcvars PROVE AskedInv'
  OBVIOUS
<1>1. TapeInv'
  BY NextTape DEF AskedInv, HistoryNext, mcvars
<1>2. Asking(call', asked', log', session')
  <2>1. CASE HistoryNext /\ Exchange
    <3>1. ~GetTradeTape
      <4>1. Exchange => call' = call
        BY DEF Exchange, RollOver, Match
      <4>2. GetTradeTape => call'.page = 1 /\ call.page = 0
        BY DEF GetTradeTape
      <4> QED BY <2>1, <4>1, <4>2
    <3> QED BY <2>1, <3>1, AskedExchange DEF HistoryNext
  <2>2. CASE HistoryNext /\ Source
    BY <2>2, AskedSource DEF HistoryNext
  <2>3. CASE UNCHANGED mcvars
    BY <2>3 DEF mcvars, vars, AskedInv
  <2> QED BY <2>1, <2>2, <2>3 DEF HistoryNext, Next
<1>3. Asking(call, asked, log, session)'
  BY <1>2 DEF Asking, Reaches
<1> QED BY <1>1, <1>3 DEF AskedInv

\* With pages served whole, a tape of the session that was asked for has every print
\* matched before the call, whatever moves the boundaries of the pages meanwhile.  Two
\* prints that share a timestamp have to fit on a page, whose size in the code is 5000.
THEOREM TapesAreCurrent == ASSUME 2 <= PageSize PROVE HistorySpec => TapeIsCurrent
<1>1. HistoryInit => AskedInv
  BY InitTape DEF HistoryInit, AskedInv, Asking, Init, Idle
<1>2. ASSUME AskedInv, HistoryNext, call.page > 0, call'.page = 0,
             answer' \notin {NoTape, Refused},
             asked # <<>>, asked[1].date = answer'[1].date, answer'[1].date \notin Faulty
      PROVE  IsPrefix(asked, answer')
  <2>1. TapeInv /\ FetchPage
    <3>1. Exchange => call' = call
      BY DEF Exchange, RollOver, Match
    <3>2. TapeInv /\ ~Exchange /\ ~GetTradeTape /\ ~FetchFails
      BY <1>2, <3>1 DEF AskedInv, GetTradeTape, FetchFails, TapeInv, TypeOK
    <3> QED BY <1>2, <3>2 DEF HistoryNext, Next, Source
  <2>2. PICK rows \in Pages(call.page) : answer' = Tape(call.prints \o rows)
    <3>1. call.page \in Nat
      BY <2>1 DEF TapeInv, TypeOK
    <3> QED BY <1>2, <2>1, <3>1 DEF FetchPage
  <2> DEFINE prints == call.prints \o rows
  <2>3. prints \in Seq(Trade) /\ \A i \in DOMAIN prints : Printed(prints[i], log)
    BY <1>2, <2>1, FetchedPrints
  <2>4. prints # <<>>
    BY <1>2, <2>2 DEF Tape
  <2>5. Reaches(prints, log, asked[1].date, Len(asked))
    BY <1>2, <2>2, <2>4, FetchReaches
  <2> HIDE DEF prints
  <2> QED BY <1>2, <2>2, <2>3, <2>5, ReachedTape DEF prints
<1>3. AskedInv /\ [HistoryNext]_mcvars
        => [call.page > 0 /\ call'.page = 0 /\ answer' \notin {NoTape, Refused}
            => LET date == answer'[1].date
               IN /\ asked # <<>> /\ asked[1].date = date
                  /\ date \notin Faulty
                  => IsPrefix(asked, answer')]_mcvars
  BY <1>2
<1> QED BY <1>1, <1>3, NextAsked, PTL DEF HistorySpec, TapeIsCurrent
=============================================================================
