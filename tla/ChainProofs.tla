----------------------------- MODULE ChainProofs -----------------------------
(***************************************************************************)
(* Theorems about SourceChain, for any threads, sources and recorders: the *)
(* units a thread has on its meter are those of the request it is at, and  *)
(* so every recorder's bill is what was asked within it.                   *)
(***************************************************************************)
EXTENDS SourceChainMC, TLAPS

\* The meter of a thread holds the units of the answer the thread has in hand, and is
\* clear before the answer and after it was recorded; a second opinion has no units.
MeterMatches(t) ==
  /\ meter[t] = IF job[t].pc = "answered" THEN job[t].units ELSE None
  /\ job[t].pc = "answered" /\ job[t].of = "resolve" => job[t].units = None
  /\ job[t].pc \in {"asked", "answered"} => job[t].at <= Sources

ChainInv ==
  /\ TypeOK
  /\ \A t \in Threads : MeterMatches(t)
  /\ BillIsExact
-----------------------------------------------------------------------------
LEMMA ConstantsTyped ==
  /\ Coroutine \in Threads /\ Sources \in Nat \ {0} /\ Supporting \subseteq 1 .. Sources
  /\ MaxRequests \in Nat /\ None \in Units
BY ChainAssumption DEF Units

LEMMA InitChain == HistoryInit => ChainInv
<1> SUFFICES ASSUME HistoryInit PROVE ChainInv
  OBVIOUS
<1>1. TypeOK
  BY ConstantsTyped DEF HistoryInit, Init, TypeOK, Job, Outcomes, Units
<1>2. \A t \in Threads : MeterMatches(t)
  BY DEF HistoryInit, Init, MeterMatches
<1>3. BillIsExact
  BY DEF HistoryInit, Init, BillIsExact
<1> QED BY <1>1, <1>2, <1>3 DEF ChainInv

\* What a thread does in the chain, for its record and its meter: a step that ends no
\* request leaves every bill alone.
LEMMA QuietStep ==
  ASSUME ChainInv, HistoryNext, NEW t \in Threads, NEW j \in Job, NEW u \in Units,
         job' = [job EXCEPT ![t] = j], meter' = [meter EXCEPT ![t] = u],
         job[t].pc # "answered" \/ j.pc = "answered",
         bill' = bill, open' \in [Threads -> Seq(Recorders)], requests' \in 0 .. MaxRequests,
         u = IF j.pc = "answered" THEN j.units ELSE None,
         j.pc = "answered" /\ j.of = "resolve" => j.units = None,
         j.pc \in {"asked", "answered"} => j.at <= Sources
  PROVE  ChainInv'
<1>1. job \in [Threads -> Job] /\ meter \in [Threads -> Units]
  BY DEF ChainInv, TypeOK
<1>2. /\ \A v \in Threads : job'[v] = IF v = t THEN j ELSE job[v]
      /\ \A v \in Threads : meter'[v] = IF v = t THEN u ELSE meter[v]
  BY <1>1
<1>3. TypeOK'
  BY <1>1 DEF ChainInv, TypeOK
<1>4. \A v \in Threads : MeterMatches(v)'
  BY <1>2 DEF ChainInv, MeterMatches
<1>5. \A v \in Threads : ~Ended(v)
  BY <1>2 DEF Ended
<1>6. /\ \A r \in Recorders : made'[r] = made[r]
      /\ opinions \subseteq opinions'
  BY <1>5 DEF HistoryNext
<1>7. BillIsExact'
  BY <1>6 DEF ChainInv, BillIsExact
<1> QED BY <1>3, <1>4, <1>7 DEF ChainInv

\* A step that ends the request of one thread is the end of no other.
LEMMA OneEnds ==
  ASSUME ChainInv, HistoryNext, NEW t \in Threads, NEW j \in Job,
         job' = [job EXCEPT ![t] = j], job[t].pc = "answered", j.pc \in {"next", "idle"},
         open' = open
  PROVE  /\ \A r \in Recorders :
              made'[r] = IF Within(t, r)
                         THEN Append(made[r], [source |-> job[t].at, outcome |-> job[t].outcome,
                                               symbol |-> t, units |-> job[t].units])
                         ELSE made[r]
         /\ opinions' = opinions \cup
              {r \in Recorders : Within(t, r) /\ job[t].of = "resolve"}
<1>1. \A v \in Threads : Ended(v) <=> v = t
  BY DEF ChainInv, TypeOK, Ended
<1>2. (CHOOSE v \in Threads : Ended(v)) = t
  BY <1>1
<1> QED BY <1>1, <1>2 DEF HistoryNext
-----------------------------------------------------------------------------
\* The actions that end no request.

LEMMA StartKept ==
  ASSUME ChainInv, HistoryNext, NEW t \in Threads, Query(t) \/ Resolve(t)
  PROVE  ChainInv'
<1>1. PICK of \in {"query", "resolve"}, banked \in 0 .. Sources : Start(t, of, banked)
  BY ConstantsTyped DEF Query, Resolve
<1> DEFINE j == [job[t] EXCEPT !.pc = "next", !.of = of, !.at = 1, !.banked = banked]
<1>2. job[t] \in Job /\ open \in [Threads -> Seq(Recorders)] /\ meter \in [Threads -> Units]
  BY DEF ChainInv, TypeOK
<1>7. 1 \in 1 .. Sources + 1
  BY ConstantsTyped
<1>3. j \in Job /\ j.pc = "next"
  BY <1>2, <1>7 DEF Job
<1>4. job' = [job EXCEPT ![t] = j] /\ job[t].pc = "idle"
  BY <1>1 DEF Start
<1>5. meter' = [meter EXCEPT ![t] = None] /\ bill' = bill /\ requests' = requests
  BY <1>1, <1>2, <1>4 DEF Start, ChainInv, MeterMatches
<1>6. open' \in [Threads -> Seq(Recorders)] /\ requests' \in 0 .. MaxRequests
  BY <1>1, <1>2, ConstantsTyped DEF Start, ChainInv, TypeOK
<1> HIDE DEF j
<1> QED BY <1>3, <1>4, <1>5, <1>6, ConstantsTyped, QuietStep

LEMMA ProgressKept ==
  ASSUME ChainInv, HistoryNext, NEW t \in Threads, PassBy(t) \/ Ask(t) \/ Exhausted(t)
  PROVE  ChainInv'
<1> DEFINE j == [job[t] EXCEPT !.at = job[t].at + 1]
           k == [job[t] EXCEPT !.pc = "asked"]
           l == [job[t] EXCEPT !.pc = "idle"]
<1>1. /\ job[t] \in Job /\ open \in [Threads -> Seq(Recorders)]
      /\ meter \in [Threads -> Units] /\ requests \in 0 .. MaxRequests
      /\ MeterMatches(t) /\ job[t].pc = "next"
  BY DEF ChainInv, TypeOK, PassBy, Ask, Exhausted
<1>2. meter' = [meter EXCEPT ![t] = None]
  BY <1>1 DEF MeterMatches, PassBy, Ask, Exhausted, Meter
<1>3. bill' = bill /\ open' = open
  BY DEF PassBy, Ask, Exhausted
<1>4. requests' \in 0 .. MaxRequests
  BY <1>1, ConstantsTyped DEF PassBy, Ask, Exhausted
<1>5. CASE PassBy(t)
  <2>0. job[t].at + 1 \in 1 .. Sources + 1
    BY <1>1, <1>5, ConstantsTyped DEF PassBy, Job
  <2>1. j \in Job /\ j.pc = "next" /\ job' = [job EXCEPT ![t] = j]
    BY <1>1, <1>5, <2>0 DEF PassBy, Job
  <2> HIDE DEF j
  <2> QED BY <1>1, <1>2, <1>3, <1>4, <2>1, ConstantsTyped, QuietStep
<1>6. CASE Ask(t)
  <2>1. /\ k \in Job /\ k.pc = "asked" /\ k.at <= Sources
        /\ job' = [job EXCEPT ![t] = k]
    BY <1>1, <1>6, ConstantsTyped DEF Ask, Job
  <2> HIDE DEF k
  <2> QED BY <1>1, <1>2, <1>3, <1>4, <2>1, ConstantsTyped, QuietStep
<1>7. CASE Exhausted(t)
  <2>1. l \in Job /\ l.pc = "idle" /\ job' = [job EXCEPT ![t] = l]
    BY <1>1, <1>7, ConstantsTyped DEF Exhausted, Finish, Job
  <2> HIDE DEF l
  <2> QED BY <1>1, <1>2, <1>3, <1>4, <2>1, ConstantsTyped, QuietStep
<1> QED BY <1>5, <1>6, <1>7

LEMMA AnswerKept ==
  ASSUME ChainInv, HistoryNext, NEW t \in Threads, Answer(t)
  PROVE  ChainInv'
<1>1. PICK outcome \in Outcomes, units \in Units :
        /\ units # None => job[t].of = "query"
        /\ meter' = IF units = None THEN meter ELSE [meter EXCEPT ![t] = units]
        /\ job' = [job EXCEPT ![t] = [job[t] EXCEPT !.pc = "answered", !.outcome = outcome,
                                                    !.units = units]]
  BY DEF Answer, Meter
<1> DEFINE j == [job[t] EXCEPT !.pc = "answered", !.outcome = outcome, !.units = units]
<1>2. /\ job[t] \in Job /\ open \in [Threads -> Seq(Recorders)]
      /\ meter \in [Threads -> Units] /\ requests \in 0 .. MaxRequests
      /\ MeterMatches(t) /\ job[t].pc = "asked"
      /\ bill' = bill /\ open' = open /\ requests' = requests
  BY DEF ChainInv, TypeOK, Answer
<1>3. meter' = [meter EXCEPT ![t] = units]
  BY <1>1, <1>2 DEF MeterMatches
<1>4. /\ j \in Job /\ j.pc = "answered" /\ j.units = units /\ j.of = job[t].of
      /\ j.at <= Sources
  BY <1>2 DEF Job, MeterMatches
<1>5. job' = [job EXCEPT ![t] = j]
  BY <1>1
<1> HIDE DEF j
<1>6. j.of = "resolve" => units = None
  BY <1>1, <1>4
<1>7. bill' = bill /\ open' \in [Threads -> Seq(Recorders)] /\ requests' \in 0 .. MaxRequests
  BY <1>2
<1> QED BY <1>2, <1>3, <1>4, <1>5, <1>6, <1>7, QuietStep
-----------------------------------------------------------------------------
\* The actions that end a request.

LEMMA EndTyped ==
  ASSUME ChainInv, NEW t \in Threads, job[t].pc = "answered", Advance(t) \/ Finish(t)
  PROVE  \E j \in Job : j.pc \in {"next", "idle"} /\ job' = [job EXCEPT ![t] = j]
<1> DEFINE j == [job[t] EXCEPT !.pc = "next", !.at = job[t].at + 1]
           l == [job[t] EXCEPT !.pc = "idle"]
<1>1. job[t] \in Job /\ job[t].at <= Sources
  BY DEF ChainInv, TypeOK, MeterMatches
<1>2. job[t].at + 1 \in 1 .. Sources + 1
  BY <1>1, ConstantsTyped DEF Job
<1>3. j \in Job /\ j.pc = "next" /\ l \in Job /\ l.pc = "idle"
  BY <1>1, <1>2 DEF Job
<1>4. job' = [job EXCEPT ![t] = j] \/ job' = [job EXCEPT ![t] = l]
  BY DEF Advance, Finish
<1> HIDE DEF j, l
<1> QED BY <1>3, <1>4

LEMMA RecordTyped ==
  ASSUME ChainInv, NEW t \in Threads, job[t].pc = "answered", NEW outcome \in Outcomes
  PROVE  Recorded(t, outcome) \in [Recorders -> Seq(SourceCall)]
<1>1. job[t] \in Job /\ job[t].at <= Sources /\ meter[t] \in Units
  BY DEF ChainInv, TypeOK, MeterMatches
<1>2. [source |-> job[t].at, outcome |-> outcome, symbol |-> t, units |-> meter[t]]
        \in SourceCall
  BY <1>1, ConstantsTyped DEF SourceCall, Job
<1>3. bill \in [Recorders -> Seq(SourceCall)]
  BY DEF ChainInv, TypeOK
<1> QED BY <1>2, <1>3 DEF Recorded, Meter

\* With its request ended the thread's meter is clear, and every other as it was.
LEMMA EndKept ==
  ASSUME ChainInv, HistoryNext, NEW t \in Threads,
         QueryStep(t) \/ ResolveStep(t) \/ ResolveFails(t)
  PROVE  ChainInv'
<1>1. /\ job \in [Threads -> Job] /\ meter \in [Threads -> Units]
      /\ open' = open /\ requests' = requests
      /\ job[t].pc = "answered" /\ MeterMatches(t) /\ job[t] \in Job
  BY DEF ChainInv, TypeOK, QueryStep, ResolveStep, ResolveFails
<1>2. PICK j \in Job : j.pc \in {"next", "idle"} /\ job' = [job EXCEPT ![t] = j]
  BY <1>1, EndTyped DEF QueryStep, ResolveStep, ResolveFails
<1>3. meter' = [meter EXCEPT ![t] = None]
  BY <1>1 DEF QueryStep, ResolveStep, ResolveFails, Record, Meter, MeterMatches
<1>4. /\ \A v \in Threads : job'[v] = IF v = t THEN j ELSE job[v]
      /\ \A v \in Threads : meter'[v] = IF v = t THEN None ELSE meter[v]
  BY <1>1, <1>2, <1>3
<1>5. \A v \in Threads : MeterMatches(v)'
  BY <1>2, <1>4 DEF ChainInv, MeterMatches
<1>6. bill' \in [Recorders -> Seq(SourceCall)]
  <2>1. job[t].outcome \in Outcomes
    BY <1>1 DEF Job
  <2>2. "unavailable" \in Outcomes /\ "ok" \in Outcomes
    BY DEF Outcomes
  <2> QED BY <1>1, <2>1, <2>2, RecordTyped
          DEF QueryStep, ResolveStep, ResolveFails, Record, ChainInv, TypeOK
<1>7. TypeOK'
  BY <1>1, <1>2, <1>3, <1>6, ConstantsTyped DEF ChainInv, TypeOK
<1>8. BillIsExact'
  <2> SUFFICES ASSUME NEW r \in Recorders, r \notin opinions' PROVE bill'[r] = made'[r]
    BY DEF BillIsExact
  <2>1. /\ made'[r] = IF Within(t, r)
                      THEN Append(made[r], [source |-> job[t].at, outcome |-> job[t].outcome,
                                            symbol |-> t, units |-> job[t].units])
                      ELSE made[r]
        /\ r \notin opinions /\ ~(Within(t, r) /\ job[t].of = "resolve")
    BY <1>1, <1>2, OneEnds
  <2>2. bill[r] = made[r]
    BY <2>1 DEF ChainInv, BillIsExact
  <2>3. CASE QueryStep(t)
    BY <1>1, <2>1, <2>2, <2>3 DEF QueryStep, Record, Recorded, Within, Meter, MeterMatches
  <2>4. CASE ResolveStep(t)
    BY <2>1, <2>2, <2>4 DEF ResolveStep, Record, Recorded, Within
  <2>5. CASE ResolveFails(t)
    BY <2>1, <2>2, <2>5 DEF ResolveFails
  <2> QED BY <2>3, <2>4, <2>5
<1> QED BY <1>5, <1>7, <1>8 DEF ChainInv

\* Recorders come and go between the requests of the coroutine.
LEMMA RecorderKept ==
  ASSUME ChainInv, HistoryNext, Leave \/ \E r \in Recorders : Enter(r)
  PROVE  ChainInv'
<1>1. /\ bill' = bill /\ meter' = meter /\ job' = job /\ requests' = requests
      /\ open \in [Threads -> Seq(Recorders)] /\ Coroutine \in Threads
  BY ConstantsTyped DEF ChainInv, TypeOK, Leave, Enter
<1>2. open' \in [Threads -> Seq(Recorders)]
  <2>1. CASE Leave
    <3>1. /\ open[Coroutine] \in Seq(Recorders) /\ open[Coroutine] # <<>>
          /\ open' = [open EXCEPT ![Coroutine] =
                        SubSeq(open[Coroutine], 1, Len(open[Coroutine]) - 1)]
      BY <1>1, <2>1 DEF Leave
    <3>2. SubSeq(open[Coroutine], 1, Len(open[Coroutine]) - 1) \in Seq(Recorders)
      BY <3>1
    <3> QED BY <1>1, <3>1, <3>2
  <2>2. ASSUME NEW r \in Recorders, Enter(r) PROVE open' \in [Threads -> Seq(Recorders)]
    BY <1>1, <2>2 DEF Enter
  <2> QED BY <2>1, <2>2
<1>3. \A v \in Threads : ~Ended(v)
  BY <1>1 DEF Ended
<1>4. (\A r \in Recorders : made'[r] = made[r]) /\ opinions \subseteq opinions'
  BY <1>3 DEF HistoryNext
<1> QED BY <1>1, <1>2, <1>4 DEF ChainInv, TypeOK, MeterMatches, BillIsExact

LEMMA NextChain == ChainInv /\ [HistoryNext]_mcvars => ChainInv'
<1> SUFFICES ASSUME ChainInv, [HistoryNext]_mcvars PROVE ChainInv'
  OBVIOUS
<1>1. CASE HistoryNext
  <2>1. ASSUME NEW t \in Threads, ChainStep(t) PROVE ChainInv'
    BY <1>1, <2>1, StartKept, ProgressKept, AnswerKept, EndKept DEF ChainStep
  <2> QED BY <1>1, <2>1, RecorderKept DEF HistoryNext, Next
<1>2. CASE UNCHANGED mcvars
  BY <1>2 DEF mcvars, vars, ChainInv, TypeOK, MeterMatches, BillIsExact
<1> QED BY <1>1, <1>2
-----------------------------------------------------------------------------
\* Whatever the worker threads interleave, and however recorders nest, the bill of a
\* recorder within which no second opinion was asked is what was asked within it: each
\* request once, in order, with its own outcome and its own units.
THEOREM BillAlwaysExact == HistorySpec => []BillIsExact
<1>1. ChainInv => BillIsExact
  BY DEF ChainInv
<1> QED BY <1>1, InitChain, NextChain, PTL DEF HistorySpec
-----------------------------------------------------------------------------
\* Answered requests, with second opinions in between.

AnswersInv ==
  /\ ChainInv
  /\ made \in [Recorders -> Seq(SourceCall)]
  /\ AnswersAreBilled

LEMMA AppendAnswered ==
  ASSUME NEW calls \in Seq(SourceCall), NEW x \in SourceCall
  PROVE  /\ \A i \in Answered(calls) : i \in 1 .. Len(calls) /\ Append(calls, x)[i] = calls[i]
         /\ x.outcome # "ok" => Answered(Append(calls, x)) = Answered(calls)
         /\ x.outcome = "ok" =>
              Answered(Append(calls, x)) = Answered(calls) \cup {Len(calls) + 1}
         /\ Append(calls, x)[Len(calls) + 1] = x
<1>1. /\ DOMAIN calls = 1 .. Len(calls) /\ Len(calls) \in Nat
      /\ DOMAIN Append(calls, x) = 1 .. Len(calls) + 1
      /\ \A i \in 1 .. Len(calls) : Append(calls, x)[i] = calls[i]
      /\ Append(calls, x)[Len(calls) + 1] = x
  OBVIOUS
<1> DEFINE more == Append(calls, x)
<1> HIDE DEF more
<1>2. 1 .. Len(calls) + 1 = 1 .. Len(calls) \cup {Len(calls) + 1}
  BY <1>1
<1>3. Answered(more) = {i \in 1 .. Len(calls) : calls[i].outcome = "ok"}
                         \cup {i \in {Len(calls) + 1} : x.outcome = "ok"}
  BY <1>1, <1>2 DEF Answered, more
<1>4. Answered(calls) = {i \in 1 .. Len(calls) : calls[i].outcome = "ok"}
  BY <1>1 DEF Answered
<1> QED BY <1>1, <1>3, <1>4 DEF more

\* An answer billed on both sides.
LEMMA BothBilled ==
  ASSUME NEW calls \in Seq(SourceCall), NEW others \in Seq(SourceCall),
         SameAnswers(calls, others), NEW x \in SourceCall, x.outcome = "ok"
  PROVE  SameAnswers(Append(calls, x), Append(others, x))
<1>1. PICK f \in Bijection(Answered(calls), Answered(others)) :
        \A i \in Answered(calls) :
          /\ calls[i] = others[f[i]]
          /\ \A j \in Answered(calls) : i < j => f[i] < f[j]
  BY DEF SameAnswers
<1> DEFINE m == Len(calls) + 1
           n == Len(others) + 1
           S == Answered(calls)
           T == Answered(others)
           g == [i \in S \cup {m} |-> IF i = m THEN n ELSE f[i]]
<1>2. /\ Answered(Append(calls, x)) = S \cup {m} /\ Answered(Append(others, x)) = T \cup {n}
      /\ \A i \in S : i \in 1 .. Len(calls) /\ Append(calls, x)[i] = calls[i]
      /\ \A i \in T : i \in 1 .. Len(others) /\ Append(others, x)[i] = others[i]
      /\ Append(calls, x)[m] = x /\ Append(others, x)[n] = x
      /\ Len(calls) \in Nat /\ Len(others) \in Nat
  BY AppendAnswered
<1>3. /\ f \in [S -> T] /\ \A t \in T : \E i \in S : f[i] = t
      /\ \A i, j \in S : f[i] = f[j] => i = j
  BY DEF Bijection, Injection, Surjection, IsInjective
<1> HIDE DEF S, T
<1>4. m \notin S /\ n \notin T /\ (\A i \in S : i < m) /\ (\A i \in T : i < n)
  BY <1>2
<1>5. g \in [S \cup {m} -> T \cup {n}] /\ g[m] = n /\ \A i \in S : g[i] = f[i] /\ f[i] \in T
  BY <1>3, <1>4
<1> HIDE DEF m, n, g
<1>6. g \in Bijection(S \cup {m}, T \cup {n})
  <2>1. \A i, j \in S \cup {m} : g[i] = g[j] => i = j
    BY <1>3, <1>4, <1>5
  <2>2. \A t \in T \cup {n} : \E i \in S \cup {m} : g[i] = t
    BY <1>3, <1>5
  <2> QED BY <1>5, <2>1, <2>2 DEF Bijection, Injection, Surjection, IsInjective
<1>7. \A i \in S \cup {m} : Append(calls, x)[i] = Append(others, x)[g[i]]
  <2>1. \A i \in S : calls[i] = others[f[i]]
    BY <1>1 DEF S
  <2>2. ASSUME NEW i \in S PROVE Append(calls, x)[i] = Append(others, x)[g[i]]
    <3>1. f[i] \in T /\ g[i] = f[i]
      BY <1>5
    <3>2. Append(calls, x)[i] = calls[i] /\ Append(others, x)[f[i]] = others[f[i]]
      BY <1>2, <3>1
    <3> QED BY <2>1, <3>1, <3>2
  <2>3. Append(calls, x)[m] = x /\ Append(others, x)[g[m]] = x
    BY <1>2, <1>5
  <2> QED BY <2>2, <2>3
<1>8. \A i, j \in S \cup {m} : i < j => g[i] < g[j]
  <2>1. ASSUME NEW i \in S \cup {m}, NEW j \in S \cup {m}, i < j PROVE g[i] < g[j]
    <3>1. i \in S
      BY <1>2, <1>4, <2>1 DEF m
    <3> QED BY <1>1, <1>4, <1>5, <2>1, <3>1 DEF S
  <2> QED BY <2>1
<1> QED BY <1>2, <1>6, <1>7, <1>8 DEF SameAnswers

\* What is no answer may be on either list.
LEMMA NoAnswer ==
  ASSUME NEW calls \in Seq(SourceCall), NEW others \in Seq(SourceCall),
         SameAnswers(calls, others), NEW x \in SourceCall, x.outcome # "ok"
  PROVE  SameAnswers(Append(calls, x), others) /\ SameAnswers(calls, Append(others, x))
<1>1. PICK f \in Bijection(Answered(calls), Answered(others)) :
        \A i \in Answered(calls) :
          /\ calls[i] = others[f[i]]
          /\ \A j \in Answered(calls) : i < j => f[i] < f[j]
  BY DEF SameAnswers
<1>2. f \in [Answered(calls) -> Answered(others)]
  BY DEF Bijection, Injection
<1>3. /\ Answered(Append(calls, x)) = Answered(calls)
      /\ Answered(Append(others, x)) = Answered(others)
      /\ \A i \in Answered(calls) : Append(calls, x)[i] = calls[i]
      /\ \A i \in Answered(others) : Append(others, x)[i] = others[i]
  BY AppendAnswered
<1>4. SameAnswers(Append(calls, x), others)
  <2>1. f \in Bijection(Answered(Append(calls, x)), Answered(others))
    BY <1>3
  <2>2. \A i \in Answered(Append(calls, x)) :
          /\ Append(calls, x)[i] = others[f[i]]
          /\ \A j \in Answered(Append(calls, x)) : i < j => f[i] < f[j]
    BY <1>1, <1>3
  <2> QED BY <2>1, <2>2 DEF SameAnswers
<1>5. SameAnswers(calls, Append(others, x))
  <2>1. f \in Bijection(Answered(calls), Answered(Append(others, x)))
    BY <1>3
  <2>2. \A i \in Answered(calls) :
          /\ calls[i] = Append(others, x)[f[i]]
          /\ \A j \in Answered(calls) : i < j => f[i] < f[j]
    BY <1>1, <1>2, <1>3
  <2> QED BY <2>1, <2>2 DEF SameAnswers
<1> QED BY <1>4, <1>5

\* The end of one request, on the bill of one recorder.
LEMMA EndAnswered ==
  ASSUME AnswersInv, HistoryNext, NEW t \in Threads,
         QueryStep(t) \/ ResolveStep(t) \/ ResolveFails(t), NEW r \in Recorders
  PROVE  made'[r] \in Seq(SourceCall) /\ SameAnswers(bill'[r], made'[r])
<1> DEFINE call(outcome, units) ==
             [source |-> job[t].at, outcome |-> outcome, symbol |-> t, units |-> units]
<1>1. /\ open' = open /\ job[t].pc = "answered" /\ MeterMatches(t) /\ job[t] \in Job
      /\ bill[r] \in Seq(SourceCall) /\ made[r] \in Seq(SourceCall)
      /\ SameAnswers(bill[r], made[r])
  BY DEF AnswersInv, AnswersAreBilled, ChainInv, TypeOK, QueryStep, ResolveStep, ResolveFails
<1>2. PICK j \in Job : j.pc \in {"next", "idle"} /\ job' = [job EXCEPT ![t] = j]
  BY <1>1, EndTyped DEF AnswersInv, QueryStep, ResolveStep, ResolveFails
<1>3. made'[r] = IF Within(t, r) THEN Append(made[r], call(job[t].outcome, job[t].units))
                 ELSE made[r]
  BY <1>1, <1>2, OneEnds DEF AnswersInv
<1>4. \A outcome \in Outcomes : call(outcome, job[t].units) \in SourceCall
  BY <1>1, ConstantsTyped DEF SourceCall, Job, MeterMatches
<1>5. job[t].outcome \in Outcomes
  BY <1>1 DEF Job
<1>6. \A outcome :
        Record(t, outcome) => bill'[r] = IF Within(t, r)
                                         THEN Append(bill[r], call(outcome, job[t].units))
                                         ELSE bill[r]
  BY <1>1 DEF Record, Recorded, Within, Meter, MeterMatches
<1> HIDE DEF call
<1>7. made'[r] \in Seq(SourceCall)
  BY <1>1, <1>3, <1>4, <1>5
<1>8. \A outcome \in Outcomes : call(outcome, job[t].units).outcome = outcome
  BY DEF call
<1>9. CASE ~Within(t, r)
  BY <1>1, <1>3, <1>6, <1>9 DEF QueryStep, ResolveStep, ResolveFails
<1>10. CASE Within(t, r) /\ ResolveFails(t)
  <2>1. bill'[r] = bill[r] /\ job[t].outcome # "ok"
    BY <1>10 DEF ResolveFails
  <2> QED BY <1>1, <1>3, <1>4, <1>5, <1>8, <1>10, <2>1, NoAnswer
<1>11. ASSUME Within(t, r), NEW outcome \in Outcomes, Record(t, outcome),
              (outcome = "ok") <=> (job[t].outcome = "ok")
       PROVE  SameAnswers(bill'[r], made'[r])
  <2> DEFINE x == call(outcome, job[t].units)
             y == call(job[t].outcome, job[t].units)
  <2>1. /\ x \in SourceCall /\ y \in SourceCall
        /\ bill'[r] = Append(bill[r], x) /\ made'[r] = Append(made[r], y)
        /\ x.outcome = outcome /\ y.outcome = job[t].outcome
    BY <1>3, <1>4, <1>5, <1>6, <1>8, <1>11
  <2>2. CASE outcome = "ok"
    BY <1>1, <1>11, <2>1, <2>2, BothBilled
  <2>3. CASE outcome # "ok"
    <3> HIDE DEF x, y
    <3>1. Append(bill[r], x) \in Seq(SourceCall) /\ SameAnswers(Append(bill[r], x), made[r])
      BY <1>1, <2>1, <2>3, NoAnswer
    <3> QED BY <1>1, <1>11, <2>1, <2>3, <3>1, NoAnswer
  <2> QED BY <2>2, <2>3
<1>12. "ok" \in Outcomes /\ "unavailable" \in Outcomes
  BY DEF Outcomes
<1>13. CASE Within(t, r) /\ QueryStep(t)
  <2>1. Record(t, job[t].outcome)
    BY <1>13 DEF QueryStep
  <2>2. SameAnswers(bill'[r], made'[r])
    BY <1>5, <1>11, <1>13, <2>1
  <2> QED BY <1>7, <2>2
<1>14. CASE Within(t, r) /\ ResolveStep(t)
  <2>1. (job[t].outcome = "ok") <=> ~Down(t)
    BY <1>5, <1>14 DEF ResolveStep, Down, Outcomes
  <2>2. Record(t, IF Down(t) THEN "unavailable" ELSE "ok")
    BY <1>14 DEF ResolveStep
  <2>3. CASE Down(t)
    <3>1. Record(t, "unavailable")
      BY <2>2, <2>3
    <3>2. SameAnswers(bill'[r], made'[r])
      BY <1>11, <1>12, <1>14, <2>1, <2>3, <3>1
    <3> QED BY <1>7, <3>2
  <2>4. CASE ~Down(t)
    <3>1. Record(t, "ok")
      BY <2>2, <2>4
    <3>2. SameAnswers(bill'[r], made'[r])
      BY <1>11, <1>12, <1>14, <2>1, <2>4, <3>1
    <3> QED BY <1>7, <3>2
  <2> QED BY <2>3, <2>4
<1> QED BY <1>7, <1>9, <1>10, <1>13, <1>14

\* Every other step leaves both lists alone.
LEMMA OthersAnswered ==
  ASSUME ChainInv, HistoryNext,
         ~\E t \in Threads : QueryStep(t) \/ ResolveStep(t) \/ ResolveFails(t)
  PROVE  bill' = bill /\ \A r \in Recorders : made'[r] = made[r]
<1>0. job \in [Threads -> Job]
  BY DEF ChainInv, TypeOK
<1>1. CASE Leave \/ \E r \in Recorders : Enter(r)
  BY <1>1 DEF Leave, Enter, Ended, HistoryNext
<1>2. ASSUME NEW t \in Threads,
             \/ Query(t) \/ Resolve(t) \/ PassBy(t) \/ Ask(t) \/ Answer(t) \/ Exhausted(t)
      PROVE  bill' = bill /\ \A v \in Threads : ~Ended(v)
  <2>1. bill' = bill /\ \A v \in Threads \ {t} : job'[v] = job[v]
    BY <1>0, <1>2
       DEF Query, Resolve, Start, PassBy, Ask, Answer, Exhausted, Finish
  <2>2. job[t].pc # "answered"
    BY <1>2 DEF Query, Resolve, Start, PassBy, Ask, Answer, Exhausted
  <2> QED BY <2>1, <2>2 DEF Ended
<1>3. CASE \E t \in Threads : ChainStep(t)
  BY <1>2, <1>3 DEF ChainStep, HistoryNext
<1> QED BY <1>1, <1>3 DEF HistoryNext, Next

LEMMA NextAnswers == AnswersInv /\ [HistoryNext]_mcvars => AnswersInv'
<1> SUFFICES ASSUME AnswersInv, [HistoryNext]_mcvars PROVE AnswersInv'
  OBVIOUS
<1>1. ChainInv'
  BY NextChain DEF AnswersInv
<1>2. CASE HistoryNext
  <2>1. made' = [r \in Recorders |-> made'[r]]
    BY <1>2 DEF HistoryNext
  <2>2. \A r \in Recorders : made'[r] \in Seq(SourceCall) /\ SameAnswers(bill'[r], made'[r])
    <3>1. CASE \E t \in Threads : QueryStep(t) \/ ResolveStep(t) \/ ResolveFails(t)
      BY <1>2, <3>1, EndAnswered
    <3>2. CASE ~\E t \in Threads : QueryStep(t) \/ ResolveStep(t) \/ ResolveFails(t)
      BY <1>2, <3>2, OthersAnswered DEF AnswersInv, AnswersAreBilled
    <3> QED BY <3>1, <3>2
  <2> QED BY <1>1, <2>1, <2>2 DEF AnswersInv, AnswersAreBilled
<1>3. CASE UNCHANGED mcvars
  BY <1>1, <1>3 DEF mcvars, vars, AnswersInv, AnswersAreBilled
<1> QED BY <1>2, <1>3

LEMMA InitAnswers == HistoryInit => AnswersInv
<1> SUFFICES ASSUME HistoryInit PROVE AnswersInv
  OBVIOUS
<1>1. /\ made \in [Recorders -> Seq(SourceCall)]
      /\ \A r \in Recorders : bill[r] = <<>> /\ made[r] = <<>>
  BY DEF HistoryInit, Init
<1>2. SameAnswers(<<>>, <<>>)
  <2> DEFINE f == [i \in {} |-> i]
  <2>1. Answered(<<>>) = {}
    BY DEF Answered
  <2>2. f \in Bijection({}, {})
    BY DEF Bijection, Injection, Surjection, IsInjective
  <2> QED BY <2>1, <2>2 DEF SameAnswers
<1> QED BY <1>1, <1>2, InitChain DEF AnswersInv, AnswersAreBilled

\* With second opinions in between, which bill a dropped connection as a refusal and an
\* error not at all, the requests answered with data are on every bill that was open,
\* each once, in order, with its own units.
THEOREM AnswersAlwaysBilled == HistorySpec => []AnswersAreBilled
<1>1. AnswersInv => AnswersAreBilled
  BY DEF AnswersInv
<1> QED BY <1>1, InitAnswers, NextAnswers, PTL DEF HistorySpec

\* Recorders, meters, jobs and bills keep their shape.
THEOREM ChainTyped == HistorySpec => []TypeOK
<1>1. ChainInv => TypeOK
  BY DEF ChainInv
<1> QED BY <1>1, InitChain, NextChain, PTL DEF HistorySpec
=============================================================================
