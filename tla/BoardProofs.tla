----------------------------- MODULE BoardProofs -----------------------------
(***************************************************************************)
(* Theorems about BoardCache, for any symbols, callers, batches, calendar  *)
(* and any ages a caller asks for: nothing older than it allows is handed  *)
(* over, no wide board is banked with the zeros of an unfilled column, and *)
(* no counter is dated to a session it does not count.                     *)
(***************************************************************************)
EXTENDS BoardCache, FiniteSetTheorems, TLAPS

\* An entry was stamped within one call of the moment it was read.
Aged(e) == e # None => e.read_at - e.asof <= MaxCallTicks

\* A call under way has not outlived its source; what it read, it read since it began;
\* what it took from the store was fresh then.
CallAged(q) ==
  q.pc = "asking" =>
    /\ q.began <= now /\ now <= q.began + MaxCallTicks
    /\ \A s \in Symbols :
         /\ q.read[s] # None => q.began <= q.read[s].asof
         /\ q.out[s] # None => Aged(q.out[s]) /\ q.began - q.out[s].read_at < TTL

\* What was read before the column was filled is part of what was read.
CallRead(q) ==
  /\ q.pc = "idle" => q = Idle
  /\ q.early \subseteq Read(q.read)

BoardInv ==
  /\ TypeOK
  /\ \A s \in Symbols : Aged(board[s])
  /\ \A c \in Callers : CallAged(call[c]) /\ CallRead(call[c])
-----------------------------------------------------------------------------
\* The operators, typed.

LEMMA DayTyped == ASSUME NEW t \in Int PROVE Day(t) \in Int
<1>1. SlotsPerDay \in Nat \ {0}
  BY ClockAssumption
<1> QED BY <1>1 DEF Day

LEMMA ShapesTyped ==
  /\ TTL \in Int /\ StaleTTL \in Int /\ MaxCallTicks \in Nat
  /\ Nothing \in Entries /\ Idle \in Call /\ None \notin Entry
  /\ Idle.pc = "idle" /\ Idle.rest = {} /\ Idle.out = Nothing /\ Read(Nothing) = {}
  /\ Idle.early = {} /\ Idle.read = Nothing
BY BoardAssumption DEF Nothing, Entries, Idle, Call, Read

LEMMA SnapshotTyped ==
  ASSUME TypeOK, NEW foreign \in {0, 1}
  PROVE  Snapshot(foreign) \in Entry /\ Snapshot(foreign).asof = now
BY DEF Snapshot, Entry, TypeOK

LEMMA LatestTyped ==
  ASSUME TypeOK, NEW asked, NEW ttl \in Int
  PROVE  /\ LatestBoard(asked, ttl) \in Entries
         /\ \A s \in Symbols : LatestBoard(asked, ttl)[s] # None =>
              /\ s \in asked
              /\ LatestBoard(asked, ttl)[s] = board[s] /\ board[s] \in Entry
              /\ now - board[s].read_at < ttl
BY DEF LatestBoard, YoungerThan, Entries, TypeOK

\* Blanking touches the foreign counter alone.
LEMMA BlankedTyped ==
  ASSUME NEW read \in Entries
  PROVE  /\ Blanked(read) \in Entries
         /\ \A s \in Symbols : Blanked(read)[s] # None <=> read[s] # None
         /\ \A s \in Symbols : read[s] # None => Blanked(read)[s].asof = read[s].asof
<1>1. \A s \in Read(read) :
        /\ read[s] \in Entry
        /\ [read[s] EXCEPT !.foreign = None] \in Entry
        /\ [read[s] EXCEPT !.foreign = None].asof = read[s].asof
  BY DEF Read, Entries, Entry
<1>2. NoCounters(read) \in Entries
  BY <1>1 DEF NoCounters, Entries
<1>3. \A s \in Symbols : NoCounters(read)[s] # None <=> read[s] # None
  BY <1>1, ShapesTyped DEF NoCounters, Read
<1>4. \A s \in Symbols : read[s] # None => NoCounters(read)[s].asof = read[s].asof
  BY <1>1 DEF NoCounters, Read
<1> QED BY <1>2, <1>3, <1>4 DEF Blanked

LEMMA StampedTyped ==
  ASSUME BoardInv, NEW c \in Callers, call[c].pc = "asking"
  PROVE  /\ Stamped(c) \in Entries
         /\ \A s \in Symbols : Stamped(c)[s] # None <=> call[c].read[s] # None
         /\ \A s \in Symbols : Stamped(c)[s] # None =>
              /\ Stamped(c)[s].read_at = now /\ now - Stamped(c)[s].asof <= MaxCallTicks
              /\ Stamped(c)[s].foreign = Blanked(call[c].read)[s].foreign
<1> DEFINE read == call[c].read
<1>1. read \in Entries /\ call[c].began \in Int /\ now \in Int
  BY DEF BoardInv, TypeOK, Call
<1>2. \A s \in Read(read) : Blanked(read)[s] \in Entry /\ Blanked(read)[s].asof = read[s].asof
  BY <1>1, BlankedTyped DEF Read, Entries
<1>3. \A s \in Read(read) :
        /\ Stamped(c)[s] = [Blanked(read)[s] EXCEPT !.read_at = now]
        /\ Stamped(c)[s] \in Entry
        /\ Stamped(c)[s].read_at = now /\ Stamped(c)[s].asof = read[s].asof
        /\ Stamped(c)[s].foreign = Blanked(read)[s].foreign
  BY <1>1, <1>2 DEF Stamped, Read, Entry
<1>4. \A s \in Read(read) : read[s].asof \in Int /\ now - read[s].asof <= MaxCallTicks
  BY <1>1, ShapesTyped DEF BoardInv, CallAged, Read, Entries, Entry
<1>5. \A s \in Symbols : s \notin Read(read) => Stamped(c)[s] = None /\ read[s] = None
  BY DEF Stamped, Read
<1>6. Stamped(c) \in Entries
  BY <1>3, <1>5 DEF Stamped, Entries
<1> QED BY <1>3, <1>4, <1>5, <1>6, ShapesTyped DEF Read

LEMMA OverTyped ==
  ASSUME NEW old \in Entries, NEW fresh \in Entries
  PROVE  /\ Over(old, fresh) \in Entries
         /\ \A s \in Symbols : Over(old, fresh)[s] \in {old[s], fresh[s]}
BY DEF Over, Entries
-----------------------------------------------------------------------------
\* BoardInv is inductive.

LEMMA InitBoard == Init => BoardInv
<1> SUFFICES ASSUME Init PROVE BoardInv
  OBVIOUS
<1>1. TypeOK
  BY ShapesTyped, BoardAssumption DEF Init, TypeOK
<1>2. \A s \in Symbols : Aged(board[s])
  BY DEF Init, Aged, Nothing
<1>3. \A c \in Callers : call[c] = Idle
  BY DEF Init
<1>4. CallAged(Idle) /\ CallRead(Idle)
  BY ShapesTyped DEF CallAged, CallRead
<1> QED BY <1>1, <1>2, <1>3, <1>4 DEF BoardInv

\* The market moves, and time passes.
LEMMA WorldBoard == BoardInv /\ (Reset \/ Fill \/ Tick) => BoardInv'
<1> SUFFICES ASSUME BoardInv, Reset \/ Fill \/ Tick PROVE BoardInv'
  OBVIOUS
<1>1. now' \in Int /\ counting' \in Int /\ filled' \in BOOLEAN
  <2>1. now \in Int /\ counting \in Int /\ filled \in BOOLEAN
    BY DEF BoardInv, TypeOK
  <2>2. Day(now) \in Int
    BY <2>1, DayTyped
  <2>3. now' \in Int /\ counting' \in Int
    BY <2>1, <2>2 DEF Reset, Fill, Tick, market
  <2>4. filled' \in BOOLEAN
    BY <2>1, Zenon DEF Reset, Fill, Tick, market
  <2> QED BY <2>3, <2>4
<1>2. board' = board /\ call' = call
  BY DEF Reset, Fill, Tick
<1>3. ASSUME NEW c \in Callers, call[c].pc = "asking"
      PROVE  call[c].began <= now' /\ now' <= call[c].began + MaxCallTicks
  <2>1. /\ call[c].began \in Int /\ now \in Int /\ MaxCallTicks \in Int
        /\ call[c].began <= now /\ now <= call[c].began + MaxCallTicks
    BY <1>3, ShapesTyped DEF BoardInv, CallAged, TypeOK, Call
  <2>2. CASE Tick
    BY <1>3, <2>1, <2>2 DEF Tick
  <2> QED BY <2>1, <2>2 DEF Reset, Fill
<1>4. \A c \in Callers : CallAged(call[c])'
  BY <1>2, <1>3 DEF BoardInv, CallAged, Aged
<1>5. \A c \in Callers : CallRead(call[c])'
  BY <1>2 DEF BoardInv, CallRead, Read
<1>6. TypeOK'
  BY <1>1, <1>2 DEF BoardInv, TypeOK
<1>7. \A s \in Symbols : Aged(board[s])'
  BY <1>2 DEF BoardInv, Aged
<1> QED BY <1>4, <1>5, <1>6, <1>7 DEF BoardInv

\* A step of one call changes its record alone, and the board if it banks.
LEMMA CallBoard ==
  ASSUME BoardInv, NEW c \in Callers, NEW q \in Call,
         call' = [call EXCEPT ![c] = q], now' = now, UNCHANGED market,
         board' \in Entries, \A s \in Symbols : Aged(board'[s]),
         CallAged(q), CallRead(q)
  PROVE  BoardInv'
<1>1. /\ call' \in [Callers -> Call]
      /\ \A d \in Callers : call'[d] = IF d = c THEN q ELSE call[d]
  BY DEF BoardInv, TypeOK
<1>2. \A d \in Callers : CallAged(call'[d]) /\ CallRead(call'[d])
  BY <1>1 DEF BoardInv
<1>3. \A d \in Callers : CallAged(call[d])'
  BY <1>2 DEF CallAged, Aged
<1>4. \A d \in Callers : CallRead(call[d])'
  BY <1>2 DEF CallRead, Read
<1>5. \A s \in Symbols : Aged(board[s])'
  BY DEF Aged
<1>6. TypeOK'
  BY <1>1 DEF BoardInv, TypeOK, market
<1> QED BY <1>3, <1>4, <1>5, <1>6 DEF BoardInv

LEMMA GetBoardKept ==
  ASSUME BoardInv, NEW c \in Callers, GetBoard(c)
  PROVE  BoardInv'
<1> DEFINE cached == LatestBoard(Asked(c), TTL)
           need == Asked(c) \ Read(cached)
           q == [Idle EXCEPT !.pc = "asking", !.began = now, !.need = need,
                             !.rest = need, !.out = cached]
<1>1. call' = [call EXCEPT ![c] = q] /\ UNCHANGED <<now, market, board>>
  BY DEF GetBoard
<1>2. TypeOK /\ now \in Int
  BY DEF BoardInv, TypeOK
<1>3. /\ cached \in Entries
      /\ \A s \in Symbols : cached[s] # None =>
           cached[s] = board[s] /\ now - board[s].read_at < TTL
  BY <1>2, LatestTyped, ShapesTyped
<1>4. need \subseteq Symbols
  BY BoardAssumption DEF Asked
<1>5. /\ q \in Call /\ q.pc = "asking" /\ q.began = now /\ q.read = Nothing
      /\ q.early = {} /\ q.out = cached
  BY <1>2, <1>3, <1>4, ShapesTyped DEF Idle, Call
<1>6. CallAged(q) /\ CallRead(q)
  BY <1>2, <1>3, <1>5, ShapesTyped DEF CallAged, CallRead, BoardInv, Nothing
<1> HIDE DEF q
<1>7. board' \in Entries /\ \A s \in Symbols : Aged(board'[s])
  BY <1>1 DEF BoardInv, TypeOK
<1> QED BY <1>1, <1>5, <1>6, <1>7, CallBoard

LEMMA ReadBatchKept ==
  ASSUME BoardInv, NEW c \in Callers, ReadBatch(c)
  PROVE  BoardInv'
<1>1. PICK batch \in SUBSET Symbols, known \in SUBSET Symbols, above \in SUBSET Symbols :
        /\ known \subseteq batch
        /\ call' = [call EXCEPT ![c] = AfterBatch(call[c], batch, known, above)]
  <2>1. call[c].rest \subseteq Symbols
    BY DEF BoardInv, TypeOK, Call
  <2> QED BY <2>1 DEF ReadBatch
<1> DEFINE read == [s \in Symbols |-> IF s \notin known THEN call[c].read[s]
                                      ELSE Snapshot(IF s \in above THEN 1 ELSE 0)]
           early == IF filled THEN call[c].early ELSE call[c].early \cup known
           q == [call[c] EXCEPT !.rest = call[c].rest \ batch, !.early = early, !.read = read]
<1>2. call' = [call EXCEPT ![c] = q] /\ UNCHANGED <<now, market, board>>
  BY <1>1 DEF ReadBatch, AfterBatch
<1>3. /\ call[c] \in Call /\ call[c].pc = "asking" /\ TypeOK /\ now \in Int
      /\ call[c].read \in Entries /\ call[c].rest \subseteq Symbols
      /\ call[c].early \subseteq Symbols /\ call[c].began \in Int
      /\ CallAged(call[c]) /\ CallRead(call[c])
  BY DEF BoardInv, TypeOK, Call, ReadBatch
<1>4. \A s \in known : /\ read[s] \in Entry /\ read[s].asof = now /\ s \in Symbols
  BY <1>3, SnapshotTyped
<1>5. \A s \in Symbols : s \notin known => read[s] = call[c].read[s]
  OBVIOUS
<1>6. read \in Entries
  BY <1>3, <1>4, <1>5 DEF Entries
<1>7. early \subseteq Read(read) /\ early \subseteq Symbols
  BY <1>3, <1>4, <1>5, ShapesTyped DEF CallRead, Read
<1>10. \A s \in Symbols : read[s] # None => call[c].began <= read[s].asof
  BY <1>3, <1>4, <1>5 DEF CallAged
<1> HIDE DEF read, early
<1>8. /\ q \in Call /\ q.pc = "asking" /\ q.began = call[c].began /\ q.read = read
      /\ q.early = early /\ q.out = call[c].out
  BY <1>3, <1>6, <1>7 DEF Call
<1> HIDE DEF q
<1>9. CallRead(q)
  BY <1>7, <1>8 DEF CallRead
<1>11. CallAged(q)
  BY <1>3, <1>8, <1>10 DEF CallAged, Aged
<1>12. board' \in Entries /\ \A s \in Symbols : Aged(board'[s])
  BY <1>2 DEF BoardInv, TypeOK
<1> QED BY <1>2, <1>8, <1>9, <1>11, <1>12, CallBoard

\* A call that starts over has read nothing; one that ends is idle.
LEMMA NextSourceKept ==
  ASSUME BoardInv, NEW c \in Callers, NextSource(c)
  PROVE  BoardInv'
<1> DEFINE q == [call[c] EXCEPT !.rest = call[c].need, !.read = Nothing, !.early = {}]
<1>1. call' = [call EXCEPT ![c] = q] /\ UNCHANGED <<now, market, board>>
  BY DEF NextSource
<1>2. call[c] \in Call /\ CallAged(call[c]) /\ CallRead(call[c])
  BY DEF BoardInv, TypeOK
<1>3. call[c].pc = "asking"
  BY <1>2, ShapesTyped DEF NextSource, CallRead, Call
<1>4. /\ q \in Call /\ q.pc = "asking" /\ q.began = call[c].began /\ q.read = Nothing
      /\ q.early = {} /\ q.out = call[c].out
  BY <1>2, <1>3, ShapesTyped DEF Call
<1> HIDE DEF q
<1>5. CallAged(q) /\ CallRead(q)
  BY <1>2, <1>3, <1>4 DEF CallAged, CallRead, Nothing
<1>6. board' \in Entries /\ \A s \in Symbols : Aged(board'[s])
  BY <1>1 DEF BoardInv, TypeOK
<1> QED BY <1>1, <1>4, <1>5, <1>6, CallBoard

LEMMA EndKept ==
  ASSUME BoardInv, NEW c \in Callers, Bank(c) \/ Unavailable(c)
  PROVE  BoardInv'
<1>1. call' = [call EXCEPT ![c] = Idle] /\ UNCHANGED <<now, market>>
  BY DEF Bank, Unavailable
<1>2. board' \in Entries /\ \A s \in Symbols : Aged(board'[s])
  <2>1. CASE Unavailable(c)
    BY <2>1 DEF Unavailable, BoardInv, TypeOK
  <2>2. CASE Bank(c)
    <3>1. /\ Stamped(c) \in Entries /\ board \in Entries
          /\ \A s \in Symbols : Aged(Stamped(c)[s]) /\ Aged(board[s])
      BY <2>2, StampedTyped DEF Bank, BoardInv, TypeOK, Aged
    <3>2. board' = Over(board, Stamped(c))
      BY <2>2 DEF Bank
    <3> QED BY <3>1, <3>2, OverTyped
  <2> QED BY <2>1, <2>2
<1>3. Idle \in Call /\ CallAged(Idle) /\ CallRead(Idle)
  BY ShapesTyped DEF CallAged, CallRead
<1> QED BY <1>1, <1>2, <1>3, CallBoard

LEMMA NextBoard == BoardInv /\ [Next]_vars => BoardInv'
<1> SUFFICES ASSUME BoardInv, [Next]_vars PROVE BoardInv'
  OBVIOUS
<1>1. CASE Reset \/ Fill \/ Tick
  BY <1>1, WorldBoard
<1>2. ASSUME NEW c \in Callers, CallStep(c) PROVE BoardInv'
  BY <1>2, GetBoardKept, ReadBatchKept, NextSourceKept, EndKept DEF CallStep
<1>3. CASE UNCHANGED vars
  BY <1>3 DEF vars, market, BoardInv, TypeOK, Aged, CallAged, CallRead, Read
<1> QED BY <1>1, <1>2, <1>3 DEF Next
-----------------------------------------------------------------------------
\* Every value keeps its type.
THEOREM BoardInvariant == Spec => []BoardInv
BY InitBoard, NextBoard, PTL DEF Spec

\* While a source answers, nothing handed over is older than the TTL and two calls, and
\* in an outage nothing older than StaleTTL and two calls, whoever else asks meanwhile.
\* The code's three ages are assumed to be what they are meant to be: a TTL is positive
\* and no longer than the age an outage allows.
THEOREM OldIsNeverGiven ==
  ASSUME 0 < TTL, TTL <= StaleTTL
  PROVE  Spec => []NothingOld
<1>1. ASSUME BoardInv PROVE NothingOld
  <2> SUFFICES ASSUME NEW c \in Callers
               PROVE  /\ \A e \in Given(Cached) \cup Given(Answered(c)) :
                           now - e.asof < TTL + 2 * MaxCallTicks
                      /\ \A e \in Given(Fallback(c)) :
                           now - e.asof < StaleTTL + 2 * MaxCallTicks
    BY DEF NothingOld
  <2>1. /\ TypeOK /\ now \in Int /\ TTL \in Int /\ StaleTTL \in Int /\ MaxCallTicks \in Nat
        /\ board \in Entries /\ call[c] \in Call
        /\ CallAged(call[c]) /\ CallRead(call[c])
    BY <1>1, ShapesTyped DEF BoardInv, TypeOK
  <2>2. ASSUME NEW ttl \in Int, NEW asked, NEW s \in Symbols,
               LatestBoard(asked, ttl)[s] # None
        PROVE  now - LatestBoard(asked, ttl)[s].asof < ttl + MaxCallTicks
    <3>1. board[s] \in Entry /\ now - board[s].read_at < ttl
          /\ LatestBoard(asked, ttl)[s] = board[s]
      BY <2>1, <2>2, LatestTyped
    <3>2. board[s].read_at - board[s].asof <= MaxCallTicks
      BY <1>1, <3>1, ShapesTyped DEF BoardInv, Aged
    <3> QED BY <2>1, <3>1, <3>2 DEF Entry
  <2>3. ASSUME NEW s \in Symbols, call[c].out[s] # None
        PROVE  now - call[c].out[s].asof < TTL + 2 * MaxCallTicks
    <3>1. call[c].pc = "asking"
      BY <2>1, <2>3, ShapesTyped DEF CallRead, Call, Nothing
    <3>2. /\ call[c].out[s] \in Entry /\ call[c].began \in Int
          /\ now <= call[c].began + MaxCallTicks
          /\ call[c].out[s].read_at - call[c].out[s].asof <= MaxCallTicks
          /\ call[c].began - call[c].out[s].read_at < TTL
      BY <2>1, <2>3, <3>1 DEF CallAged, Aged, Call, Entries
    <3> QED BY <2>1, <3>2 DEF Entry
  <2>4. ASSUME NEW s \in Symbols, Cached[s] # None
        PROVE  now - Cached[s].asof < TTL + 2 * MaxCallTicks
    <3>1. now - Cached[s].asof < TTL + MaxCallTicks /\ Cached[s] \in Entry
      BY <2>1, <2>2, <2>4, LatestTyped DEF Cached, Entries
    <3> QED BY <2>1, <3>1 DEF Entry
  <2>5. ASSUME NEW s \in Symbols, Answered(c)[s] # None
        PROVE  now - Answered(c)[s].asof < TTL + 2 * MaxCallTicks
    <3>1. call[c].pc = "asking" /\ Answered(c) = Over(call[c].out, Stamped(c))
      BY <2>5 DEF Answered, Nothing
    <3>2. /\ Stamped(c) \in Entries
          /\ Stamped(c)[s] # None => now - Stamped(c)[s].asof <= MaxCallTicks
      BY <1>1, <3>1, StampedTyped
    <3>3. Stamped(c)[s] # None => Stamped(c)[s].asof \in Int
      BY <3>2 DEF Entries, Entry
    <3>4. Answered(c)[s] \in {call[c].out[s], Stamped(c)[s]}
      BY <2>1, <3>1, <3>2, OverTyped DEF Call
    <3>5. Stamped(c)[s] # None => now - Stamped(c)[s].asof < TTL + 2 * MaxCallTicks
      BY <2>1, <3>2, <3>3
    <3> QED BY <2>3, <2>5, <3>4, <3>5
  <2>6. ASSUME NEW s \in Symbols, Fallback(c)[s] # None
        PROVE  now - Fallback(c)[s].asof < StaleTTL + 2 * MaxCallTicks
    <3> DEFINE kept == LatestBoard(call[c].need, StaleTTL)
    <3>1. kept \in Entries /\ Fallback(c)[s] \in {call[c].out[s], kept[s]}
      BY <2>1, LatestTyped, OverTyped DEF Fallback, Call
    <3>2. kept[s] # None => now - kept[s].asof < StaleTTL + MaxCallTicks
      BY <2>1, <2>2
    <3>3. kept[s] # None => kept[s].asof \in Int
      BY <3>1 DEF Entries, Entry
    <3>4. call[c].out[s] # None => call[c].out[s].asof \in Int
      BY <2>1 DEF Call, Entries, Entry
    <3> HIDE DEF kept
    <3>5. kept[s] # None => now - kept[s].asof < StaleTTL + 2 * MaxCallTicks
      BY <2>1, <3>2, <3>3
    <3>6. call[c].out[s] # None => now - call[c].out[s].asof < StaleTTL + 2 * MaxCallTicks
      BY <2>1, <2>3, <3>4
    <3> QED BY <2>6, <3>1, <3>5, <3>6
  <2> QED BY <2>4, <2>5, <2>6 DEF Given, Read
<1> QED BY <1>1, BoardInvariant, PTL

\* A board wide enough to be judged never banks the zeros of an unfilled column, and a
\* board with one moved counter keeps them all, for any number of batches.
THEOREM ZerosStayOut == Spec => ZerosAreFacts
<1>1. ASSUME BoardInv, NEW c \in Callers, Bank(c),
             Cardinality(Read(call[c].read)) >= Quorum
      PROVE  LET read == call[c].read
             IN IF CountersMoved(read)
                THEN \A s \in Read(read) : board'[s].foreign = read[s].foreign
                ELSE \A s \in call[c].early : board'[s].foreign = None
  <2> DEFINE read == call[c].read
  <2>1. read \in Entries /\ call[c].early \subseteq Read(read) /\ call[c].pc = "asking"
    BY <1>1 DEF BoardInv, TypeOK, Call, CallRead, Bank
  <2>2. \A s \in Read(read) : board'[s].foreign = Blanked(read)[s].foreign
    BY <1>1, <2>1, StampedTyped DEF Bank, Over, Read
  <2>3. ~(Cardinality(Read(read)) < Quorum)
    <3>1. Cardinality(Read(read)) \in Nat /\ Quorum \in Nat
      BY BoardAssumption, FS_Subset, FS_CardinalityType DEF Read
    <3> QED BY <1>1, <3>1
  <2>4. \A s \in Read(read) : read[s] \in Entry /\ NoCounters(read)[s].foreign = None
    BY <2>1 DEF NoCounters, Read, Entries, Entry
  <2>5. CASE CountersMoved(read)
    BY <2>2, <2>5 DEF Blanked
  <2>6. CASE ~CountersMoved(read)
    BY <2>1, <2>2, <2>3, <2>4, <2>6 DEF Blanked
  <2> QED BY <2>5, <2>6
<1>2. BoardInv => [\A c \in Callers : Bank(c) /\ Cardinality(Read(call[c].read)) >= Quorum =>
        LET read == call[c].read
        IN IF CountersMoved(read)
           THEN \A s \in Read(read) : board'[s].foreign = read[s].foreign
           ELSE \A s \in call[c].early : board'[s].foreign = None]_vars
  BY <1>1
<1> QED BY <1>2, BoardInvariant, PTL DEF ZerosAreFacts
-----------------------------------------------------------------------------
\* The sessions of the clock.

\* The session whose counters run, once those of a trading day have been reset.
SessionOf(t) == IF IsTradingDay(Day(t)) THEN Day(t) ELSE LastClosedDay(t)

\* No closure is longer than the longest the calendar knows.
LongestClosure == \A d \in Int : \E k \in (d - MaxClosedRun) .. d : IsTradingDay(k)

LEMMA MaxOfFinite ==
  ASSUME NEW S, S \subseteq Int, IsFiniteSet(S), S # {}
  PROVE  Max(S) \in S /\ \A y \in S : Max(S) >= y
<1> DEFINE above(x) == {y \in S : x < y}
           T == {above(x) : x \in S}
<1>1. IsWellFoundedOn(StrictSubsetOrdering(S), FiniteSubsetsOf(S))
  BY FS_StrictSubsetOrderingWellFounded
<1>2. T \subseteq FiniteSubsetsOf(S) /\ T # {}
  <2>1. \A x \in S : above(x) \subseteq S /\ IsFiniteSet(above(x))
    BY FS_Subset
  <2> QED BY <2>1 DEF FiniteSubsetsOf
<1>3. PICK U \in T : \A V \in T : <<V, U>> \notin StrictSubsetOrdering(S)
  BY <1>1, <1>2, WFMin
<1>4. PICK x \in S : U = above(x)
  OBVIOUS
<1>5. \A y \in S : x >= y
  <2> SUFFICES ASSUME NEW y \in S, x < y PROVE FALSE
    OBVIOUS
  <2>1. above(y) \subseteq U /\ y \in U /\ y \notin above(y)
    <3>1. \A z \in above(y) : z \in S /\ x < z
      OBVIOUS
    <3>2. y \in U /\ y \notin above(y)
      BY <1>4
    <3> QED BY <1>4, <3>1, <3>2
  <2>2. <<above(y), U>> \in StrictSubsetOrdering(S)
    BY <1>4, <2>1 DEF StrictSubsetOrdering
  <2> QED BY <1>3, <2>2
<1> QED BY <1>5 DEF Max

LEMMA SlotBounds ==
  ASSUME NEW t \in Int
  PROVE  /\ Day(t) \in Int /\ Slot(t) \in Int /\ Day(t) * SlotsPerDay \in Int
         /\ t = Day(t) * SlotsPerDay + Slot(t)
         /\ 0 <= Slot(t) /\ Slot(t) < SlotsPerDay
         /\ Day(t) * SlotsPerDay <= t /\ t < Day(t) * SlotsPerDay + SlotsPerDay
BY ClockAssumption DEF Day, Slot

LEMMA DaysApart ==
  ASSUME NEW d \in Int, NEW e \in Int, d < e
  PROVE  d * SlotsPerDay + SlotsPerDay <= e * SlotsPerDay
<1> DEFINE S == SlotsPerDay
<1>1. S \in Nat \ {0}
  BY ClockAssumption
<1>2. (e - d - 1) * S >= 0
  BY <1>1
<1>3. (e - d - 1) * S = e * S - d * S - S
  BY <1>1
<1> QED BY <1>1, <1>2, <1>3

\* The day of an instant is the one whose slots it is among.
LEMMA DayOf ==
  ASSUME NEW t \in Int, NEW d \in Int,
         d * SlotsPerDay <= t, t < d * SlotsPerDay + SlotsPerDay
  PROVE  Day(t) = d
<1>1. /\ d * SlotsPerDay \in Int /\ SlotsPerDay \in Int /\ Day(t) * SlotsPerDay \in Int
      /\ Day(t) \in Int
  BY ClockAssumption, SlotBounds
<1>2. Day(t) * SlotsPerDay <= t /\ t < Day(t) * SlotsPerDay + SlotsPerDay
  BY <1>1, SlotBounds
<1>3. ~(Day(t) < d)
  <2>1. Day(t) < d => Day(t) * SlotsPerDay + SlotsPerDay <= d * SlotsPerDay
    BY <1>1, DaysApart
  <2> QED BY <1>1, <1>2, <2>1
<1>4. ~(d < Day(t))
  <2>1. d < Day(t) => d * SlotsPerDay + SlotsPerDay <= Day(t) * SlotsPerDay
    BY <1>1, DaysApart
  <2> QED BY <1>1, <1>2, <2>1
<1> QED BY <1>1, <1>3, <1>4

\* last_session_close finds a trading day behind it, and the newest one.
LEMMA LastClosed ==
  ASSUME LongestClosure, NEW t \in Int
  PROVE  /\ LastClosedDay(t) \in ClosedSessions(t)
         /\ \A d \in ClosedSessions(t) : d <= LastClosedDay(t)
<1>1. Day(t) \in Int /\ MaxClosedRun \in Nat
  BY SlotBounds, ClockAssumption
<1>2. PICK k \in Int :
        Day(t) - 1 - MaxClosedRun <= k /\ k <= Day(t) - 1 /\ IsTradingDay(k)
  <2> DEFINE d == Day(t) - 1
  <2>1. d \in Int
    BY <1>1
  <2>2. PICK k \in (d - MaxClosedRun) .. d : IsTradingDay(k)
    BY <2>1 DEF LongestClosure
  <2> QED BY <1>1, <2>2
<1>3. k \in ClosedSessions(t)
  BY <1>1, <1>2 DEF ClosedSessions
<1>4. ClosedSessions(t) \subseteq (Day(t) - (MaxClosedRun + 6)) .. Day(t)
  BY DEF ClosedSessions
<1>5. IsFiniteSet((Day(t) - (MaxClosedRun + 6)) .. Day(t))
  BY <1>1, FS_Interval
<1>6. IsFiniteSet(ClosedSessions(t)) /\ ClosedSessions(t) \subseteq Int
  BY <1>1, <1>4, <1>5, FS_Subset
<1>7. /\ LastClosedDay(t) \in ClosedSessions(t)
      /\ \A d \in ClosedSessions(t) : LastClosedDay(t) >= d
  BY <1>3, <1>6, MaxOfFinite DEF LastClosedDay
<1> QED BY <1>6, <1>7

\* A day without a session counts the one before it.
LEMMA SessionOfNext ==
  ASSUME LongestClosure, NEW t \in Int, NEW u \in Int,
         ~IsTradingDay(Day(u)), Day(u) \in {Day(t), Day(t) + 1}
  PROVE  SessionOf(u) = SessionOf(t)
<1>1. /\ Day(t) \in Int /\ Day(u) \in Int /\ MaxClosedRun \in Nat
  BY SlotBounds, ClockAssumption
<1> DEFINE last == LastClosedDay(u)
<1>2. /\ last \in Int /\ last < Day(u) /\ Day(u) - (MaxClosedRun + 6) <= last
      /\ IsTradingDay(last)
      /\ \A d \in ClosedSessions(u) : d <= last
  BY <1>1, LastClosed DEF ClosedSessions
<1>3. CASE IsTradingDay(Day(t))
  <2>1. Day(t) \in ClosedSessions(u) /\ Day(u) = Day(t) + 1
    BY <1>1, <1>3 DEF ClosedSessions
  <2>2. last = Day(t)
    BY <1>1, <1>2, <2>1
  <2> QED BY <1>3, <2>2 DEF SessionOf
<1>4. CASE ~IsTradingDay(Day(t))
  <2> DEFINE first == LastClosedDay(t)
  <2>1. /\ first \in Int /\ first < Day(t) /\ Day(t) - (MaxClosedRun + 6) <= first
        /\ IsTradingDay(first)
        /\ \A d \in ClosedSessions(t) : d <= first
    BY <1>1, <1>4, LastClosed DEF ClosedSessions
  <2>2. last # Day(t)
    BY <1>2, <1>4
  <2>3. last \in ClosedSessions(t)
    BY <1>1, <1>2, <2>2 DEF ClosedSessions
  <2>4. first \in ClosedSessions(u) \/ first < last
    BY <1>1, <1>2, <2>1 DEF ClosedSessions
  <2>5. last = first
    BY <1>2, <2>1, <2>3, <2>4
  <2> QED BY <1>4, <2>5 DEF SessionOf
<1> QED BY <1>3, <1>4

LEMMA SessionOfDay ==
  ASSUME LongestClosure, NEW t \in Int, NEW u \in Int, Day(t) = Day(u)
  PROVE  SessionOf(u) = SessionOf(t)
<1>1. CASE IsTradingDay(Day(u))
  BY <1>1 DEF SessionOf
<1>2. CASE ~IsTradingDay(Day(u))
  BY <1>2, SessionOfNext
<1> QED BY <1>1, <1>2

\* board_session names that session or none; before the open of a trading day, none.
LEMMA BoardSessionIs ==
  ASSUME LongestClosure, NEW t \in Int
  PROVE  /\ BoardSession(t) \in {None, SessionOf(t)}
         /\ IsTradingDay(Day(t)) /\ Slot(t) < OpenSlot => BoardSession(t) = None
<1>1. /\ Day(t) \in Int /\ Slot(t) \in Int /\ OpenSlot \in Int /\ CloseSlot \in Int
      /\ MaxClosedRun \in Nat
  BY SlotBounds, ClockAssumption
<1>2. CASE ~IsTradingDay(Day(t))
  BY <1>2 DEF BoardSession, SessionDate, SessionLive, SessionOf
<1>3. CASE IsTradingDay(Day(t)) /\ Slot(t) < OpenSlot
  BY <1>3 DEF BoardSession
<1>4. CASE IsTradingDay(Day(t)) /\ OpenSlot <= Slot(t) /\ Slot(t) < CloseSlot
  BY <1>1, <1>4 DEF BoardSession, SessionDate, SessionLive, SessionOf
<1>5. CASE IsTradingDay(Day(t)) /\ OpenSlot <= Slot(t) /\ CloseSlot <= Slot(t)
  <2>1. Day(t) \in ClosedSessions(t)
    BY <1>1, <1>5 DEF ClosedSessions
  <2>2. LastClosedDay(t) \in Int /\ LastClosedDay(t) <= Day(t) /\ Day(t) <= LastClosedDay(t)
    BY <1>1, <2>1, LastClosed DEF ClosedSessions
  <2>3. LastClosedDay(t) = Day(t)
    BY <1>1, <2>2
  <2>4. ~SessionLive(t)
    BY <1>1, <1>5 DEF SessionLive
  <2> QED BY <1>1, <1>5, <2>3, <2>4 DEF BoardSession, SessionDate, SessionOf
<1> QED BY <1>1, <1>2, <1>3, <1>4, <1>5

\* Counters read in a call and stamped before it is over are dated to their session,
\* or to none: across midnight, and across the reset of a morning.
LEMMA StampDates ==
  ASSUME LongestClosure, MaxCallTicks < OpenSlot,
         NEW a \in Int, NEW t \in Int, a <= t, t - a <= MaxCallTicks,
         NEW s, ~ResetDue(a) => s = SessionOf(a)
  PROVE  BoardSession(t) \in {None, s}
<1> DEFINE d == Day(a)  e == Day(t)  S == SlotsPerDay
<1>1. /\ d \in Int /\ e \in Int /\ d * S \in Int /\ e * S \in Int /\ S \in Nat
      /\ Slot(a) \in Int /\ 0 <= Slot(a) /\ Slot(a) < S /\ a = d * S + Slot(a)
      /\ Slot(t) \in Int /\ 0 <= Slot(t) /\ Slot(t) < S /\ t = e * S + Slot(t)
      /\ OpenSlot \in Int /\ OpenSlot < S /\ MaxCallTicks \in Int
  <2>1. S \in Nat /\ OpenSlot \in Int /\ OpenSlot < S /\ MaxCallTicks \in Int
    BY ClockAssumption, BoardAssumption
  <2>2. /\ d \in Int /\ d * S \in Int
        /\ Slot(a) \in Int /\ 0 <= Slot(a) /\ Slot(a) < S /\ a = d * S + Slot(a)
    BY SlotBounds
  <2>3. /\ e \in Int /\ e * S \in Int
        /\ Slot(t) \in Int /\ 0 <= Slot(t) /\ Slot(t) < S /\ t = e * S + Slot(t)
    BY SlotBounds
  <2> QED BY <2>1, <2>2, <2>3
<1>2. CASE ResetDue(a)
  <2>1. IsTradingDay(d) /\ Slot(a) < OpenSlot - MaxCallTicks
    BY <1>2 DEF ResetDue
  <2> HIDE DEF d, e, S
  <2>2. d * S <= t /\ t < d * S + OpenSlot /\ t < d * S + S
    BY <1>1, <2>1
  <2>3. e = d
    BY <1>1, <2>2, DayOf DEF d, e, S
  <2>4. Slot(t) < OpenSlot
    BY <1>1, <2>2, <2>3
  <2> QED BY <2>1, <2>3, <2>4, BoardSessionIs DEF d, e
<1>3. CASE ~ResetDue(a) /\ e = d
  BY <1>3, SessionOfDay, BoardSessionIs
<1>4. CASE ~ResetDue(a) /\ e # d
  <2>1. d < e
    <3> SUFFICES ASSUME e < d PROVE FALSE
      BY <1>1, <1>4
    <3>1. e * S + S <= d * S
      BY <1>1, DaysApart
    <3> HIDE DEF d, e, S
    <3> QED BY <1>1, <3>1
  <2>2. d * S + S <= e * S
    BY <1>1, <2>1, DaysApart
  <2>3. (d + 1) * S = d * S + S
    BY <1>1
  <2> HIDE DEF d, e, S
  <2>4. /\ (d + 1) * S <= t /\ t < (d + 1) * S + OpenSlot /\ t < (d + 1) * S + S
    BY <1>1, <2>2, <2>3
  <2>5. e = d + 1
    BY <1>1, <2>4, DayOf DEF e, S
  <2>6. Slot(t) < OpenSlot
    BY <1>1, <2>3, <2>4, <2>5
  <2>7. CASE IsTradingDay(e)
    BY <2>6, <2>7, BoardSessionIs DEF e
  <2>8. CASE ~IsTradingDay(e)
    BY <1>4, <2>5, <2>8, SessionOfNext, BoardSessionIs DEF d, e
  <2> QED BY <2>7, <2>8
<1> QED BY <1>2, <1>3, <1>4

\* The clock moves on, and the counters stay those of the session but before a reset.
LEMMA CountedOn ==
  ASSUME LongestClosure, MaxCallTicks < OpenSlot, NEW t \in Int, NEW n,
         ~ResetDue(t) => n = SessionOf(t),
         ResetDue(t) /\ ~ResetDue(t + 1) => n = Day(t)
  PROVE  ~ResetDue(t + 1) => n = SessionOf(t + 1)
<1> SUFFICES ASSUME ~ResetDue(t + 1) PROVE n = SessionOf(t + 1)
  OBVIOUS
<1> DEFINE d == Day(t)  e == Day(t + 1)  S == SlotsPerDay
<1>1. /\ d \in Int /\ e \in Int /\ d * S \in Int /\ e * S \in Int /\ S \in Nat
      /\ Slot(t) \in Int /\ 0 <= Slot(t) /\ Slot(t) < S /\ t = d * S + Slot(t)
      /\ Slot(t + 1) \in Int /\ 0 <= Slot(t + 1) /\ Slot(t + 1) < S
      /\ t + 1 = e * S + Slot(t + 1)
      /\ OpenSlot \in Int /\ OpenSlot < S /\ MaxCallTicks \in Nat
  <2>1. S \in Nat /\ OpenSlot \in Int /\ OpenSlot < S /\ MaxCallTicks \in Nat
    BY ClockAssumption, BoardAssumption
  <2>2. /\ d \in Int /\ d * S \in Int
        /\ Slot(t) \in Int /\ 0 <= Slot(t) /\ Slot(t) < S /\ t = d * S + Slot(t)
    BY SlotBounds
  <2>3. t + 1 \in Int
    OBVIOUS
  <2>4. /\ e \in Int /\ e * S \in Int
        /\ Slot(t + 1) \in Int /\ 0 <= Slot(t + 1) /\ Slot(t + 1) < S
        /\ t + 1 = e * S + Slot(t + 1)
    BY <2>3, SlotBounds
  <2> QED BY <2>1, <2>2, <2>4
<1>2. (d + 1) * S = d * S + S
  BY <1>1
<1>3. \/ t + 1 < d * S + S /\ e = d
      \/ t + 1 = (d + 1) * S /\ e = d + 1 /\ Slot(t + 1) = 0
  <2> HIDE DEF d, e, S
  <2>1. CASE Slot(t) + 1 < S
    <3>1. t + 1 < d * S + S /\ d * S <= t + 1
      BY <1>1, <2>1
    <3> QED BY <1>1, <3>1, DayOf DEF e, S
  <2>2. CASE ~(Slot(t) + 1 < S)
    <3>1. t + 1 = (d + 1) * S /\ t + 1 < (d + 1) * S + S
      BY <1>1, <1>2, <2>2
    <3>2. e = d + 1
      BY <1>1, <3>1, DayOf DEF e, S
    <3> QED BY <1>1, <3>1, <3>2
  <2> QED BY <2>1, <2>2
<1>4. CASE ResetDue(t)
  <2>1. n = d /\ IsTradingDay(d) /\ Slot(t) < OpenSlot - MaxCallTicks
    BY <1>4 DEF ResetDue
  <2> HIDE DEF d, e, S
  <2>2. t + 1 < d * S + S
    BY <1>1, <2>1
  <2>3. e = d
    BY <1>1, <1>2, <1>3, <2>2
  <2> QED BY <2>1, <2>3 DEF SessionOf, d, e
<1>5. CASE ~ResetDue(t) /\ e = d
  BY <1>5, SessionOfDay
<1>6. CASE ~ResetDue(t) /\ e # d
  <2>1. e = d + 1 /\ Slot(t + 1) = 0
    BY <1>3, <1>6
  <2>2. ~IsTradingDay(e)
    BY <1>1, <2>1 DEF ResetDue
  <2> QED BY <1>6, <2>1, <2>2, SessionOfNext
<1> QED BY <1>4, <1>5, <1>6
-----------------------------------------------------------------------------
\* Whose session counters are dated to.

\* What the dates of counters rest on: no closure is longer than the calendar knows, a
\* call is shorter than the hours before an open, and the model does not begin in the
\* last minutes before one.
HoursHold ==
  /\ LongestClosure
  /\ MaxCallTicks < OpenSlot
  /\ BoardSession(Start) = None => ResetDue(Start)

\* Whatever an entry counts, board_session of its stamp is that session or none.
Dated(e) == e # None => BoardSession(e.read_at) \in {None, e.session}

\* An entry counts the session of the moment it was read, once a reset is over.
Counted(e, t) ==
  e # None => e.asof <= t /\ (~ResetDue(e.asof) => e.session = SessionOf(e.asof))

CallDated(q, t) == \A s \in Symbols : Counted(q.read[s], t) /\ Dated(q.out[s])

DatedInv ==
  /\ ~ResetDue(now) => counting = SessionOf(now)
  /\ \A s \in Symbols : Dated(board[s])
  /\ \A c \in Callers : CallDated(call[c], now)

LEMMA InitDated == ASSUME HoursHold PROVE Init => DatedInv
<1> SUFFICES ASSUME Init PROVE DatedInv
  OBVIOUS
<1>1. \A s \in Symbols : Nothing[s] = None
  BY DEF Nothing
<1>2. \A s \in Symbols : Dated(board[s])
  BY <1>1 DEF Init, Dated
<1>3. \A c \in Callers : CallDated(call[c], now)
  BY <1>1, ShapesTyped DEF Init, CallDated, Counted, Dated
<1>4. ASSUME ~ResetDue(now) PROVE counting = SessionOf(now)
  <2>1. Start \in Int /\ now = Start /\ counting = SessionDate(Start)
    BY BoardAssumption DEF Init
  <2>2. BoardSession(Start) # None
    BY <1>4, <2>1 DEF HoursHold
  <2>3. BoardSession(Start) = SessionDate(Start)
    BY <2>2 DEF BoardSession
  <2> QED BY <2>1, <2>2, <2>3, BoardSessionIs DEF HoursHold
<1> QED BY <1>2, <1>3, <1>4 DEF DatedInv

\* A step of one call that leaves the clock and the counters alone.
LEMMA CallStepDated ==
  ASSUME DatedInv, BoardInv, NEW c \in Callers, NEW q,
         call' = [call EXCEPT ![c] = q], now' = now, UNCHANGED market,
         \A s \in Symbols : Dated(board'[s]), CallDated(q, now)
  PROVE  DatedInv'
<1>1. \A d \in Callers : call'[d] = IF d = c THEN q ELSE call[d]
  BY DEF BoardInv, TypeOK
<1>2. \A d \in Callers : CallDated(call'[d], now)
  BY <1>1 DEF DatedInv
<1>3. \A d \in Callers : CallDated(call[d], now)'
  BY <1>2 DEF CallDated, Counted, Dated
<1>4. (~ResetDue(now) => counting = SessionOf(now))'
  BY DEF DatedInv, market
<1>5. \A s \in Symbols : Dated(board[s])'
  BY DEF Dated
<1> QED BY <1>3, <1>4, <1>5 DEF DatedInv

LEMMA WorldDated ==
  ASSUME HoursHold, BoardInv, DatedInv, Reset \/ Fill \/ Tick
  PROVE  DatedInv'
<1>1. now \in Int /\ board' = board /\ call' = call
  BY DEF BoardInv, TypeOK, Reset, Fill, Tick
<1>2. now' \in Int /\ now <= now'
  BY <1>1 DEF Reset, Fill, Tick
<1>3. \A s \in Symbols : Dated(board[s])'
  BY <1>1 DEF DatedInv, Dated
<1>4. ASSUME NEW c \in Callers, NEW s \in Symbols
      PROVE  Counted(call[c].read[s], now') /\ Dated(call[c].out[s])
  <2>1. Counted(call[c].read[s], now) /\ Dated(call[c].out[s])
    BY DEF DatedInv, CallDated
  <2>2. call[c].read[s] # None => call[c].read[s].asof \in Int
    BY DEF BoardInv, TypeOK, Call, Entries, Entry
  <2> QED BY <1>1, <1>2, <2>1, <2>2 DEF Counted
<1>5. \A c \in Callers : CallDated(call[c], now)'
  BY <1>1, <1>4 DEF CallDated, Counted, Dated
<1>6. ASSUME ~ResetDue(now') PROVE counting' = SessionOf(now')
  <2>1. CASE Reset
    BY <1>6, <2>1 DEF Reset
  <2>2. CASE Fill
    BY <1>6, <2>2 DEF Fill, DatedInv
  <2>3. CASE Tick
    <3>1. /\ now' = now + 1 /\ counting' = counting
          /\ ResetDue(now) /\ ~ResetDue(now + 1) => counting = Day(now)
      BY <2>3 DEF Tick, market
    <3> QED BY <1>1, <1>6, <3>1, CountedOn DEF HoursHold, DatedInv
  <2> QED BY <2>1, <2>2, <2>3
<1>7. (~ResetDue(now) => counting = SessionOf(now))'
  BY <1>6
<1> QED BY <1>3, <1>5, <1>7 DEF DatedInv

\* What a call stamps and banks.
LEMMA StampedDated ==
  ASSUME HoursHold, BoardInv, DatedInv, NEW c \in Callers, call[c].pc = "asking",
         NEW s \in Symbols
  PROVE  Dated(Stamped(c)[s])
<1> SUFFICES ASSUME Stamped(c)[s] # None
             PROVE  BoardSession(Stamped(c)[s].read_at) \in {None, Stamped(c)[s].session}
  BY DEF Dated
<1> DEFINE read == call[c].read
<1>1. /\ read \in Entries /\ now \in Int /\ s \in Read(read) /\ read[s] \in Entry
      /\ read[s].asof \in Int /\ call[c].began \in Int /\ MaxCallTicks \in Int
  BY StampedTyped, ShapesTyped DEF BoardInv, TypeOK, Call, Read, Entries, Entry
<1>2. Blanked(read)[s] \in {read[s], [read[s] EXCEPT !.foreign = None]}
  BY <1>1 DEF Blanked, NoCounters
<1>3. Blanked(read)[s] \in Entry /\ Blanked(read)[s].session = read[s].session
  BY <1>1, <1>2 DEF Entry
<1>4. Stamped(c)[s] = [Blanked(read)[s] EXCEPT !.read_at = now]
  BY <1>1 DEF Stamped
<1>5. Stamped(c)[s].read_at = now /\ Stamped(c)[s].session = read[s].session
  BY <1>3, <1>4 DEF Entry
<1>6. read[s].asof <= now /\ (~ResetDue(read[s].asof) => read[s].session = SessionOf(read[s].asof))
  BY <1>1, ShapesTyped DEF DatedInv, CallDated, Counted, Read
<1>7. now - read[s].asof <= MaxCallTicks
  BY <1>1 DEF BoardInv, CallAged, Read
<1> QED BY <1>1, <1>5, <1>6, <1>7, StampDates DEF HoursHold

LEMMA OverDated ==
  ASSUME NEW old \in Entries, NEW fresh \in Entries,
         \A s \in Symbols : Dated(old[s]) /\ Dated(fresh[s])
  PROVE  \A s \in Symbols : Dated(Over(old, fresh)[s])
BY OverTyped

LEMMA LatestDated ==
  ASSUME BoardInv, DatedInv, NEW asked, NEW ttl \in Int
  PROVE  \A s \in Symbols : Dated(LatestBoard(asked, ttl)[s])
BY LatestTyped DEF BoardInv, DatedInv, Dated

LEMMA CallsDated ==
  ASSUME HoursHold, BoardInv, DatedInv, NEW c \in Callers, CallStep(c)
  PROVE  DatedInv'
<1>1. /\ call[c] \in Call /\ CallDated(call[c], now) /\ CallRead(call[c])
      /\ \A s \in Symbols : Dated(board[s])
      /\ board \in Entries /\ now \in Int
  BY DEF BoardInv, TypeOK, DatedInv
<1>2. CallDated(Idle, now)
  BY ShapesTyped DEF CallDated, Counted, Dated, Nothing
<1>3. CASE GetBoard(c)
  <2> DEFINE cached == LatestBoard(Asked(c), TTL)
             need == Asked(c) \ Read(cached)
             q == [Idle EXCEPT !.pc = "asking", !.began = now, !.need = need,
                               !.rest = need, !.out = cached]
  <2>1. /\ call' = [call EXCEPT ![c] = q] /\ UNCHANGED <<now, market, board>>
    BY <1>3 DEF GetBoard
  <2>2. q.read = Nothing /\ q.out = cached
    BY DEF Idle
  <2>3. \A s \in Symbols : Dated(cached[s])
    BY ShapesTyped, LatestDated
  <2> HIDE DEF q, cached, need
  <2>4. CallDated(q, now)
    BY <2>2, <2>3 DEF CallDated, Counted, Nothing
  <2> QED BY <1>1, <2>1, <2>4, CallStepDated
<1>4. CASE ReadBatch(c)
  <2>1. PICK batch \in SUBSET Symbols, known \in SUBSET Symbols, above \in SUBSET Symbols :
          call' = [call EXCEPT ![c] = AfterBatch(call[c], batch, known, above)]
    <3>1. call[c].rest \subseteq Symbols
      BY <1>1 DEF Call
    <3> QED BY <1>4, <3>1 DEF ReadBatch
  <2> DEFINE q == AfterBatch(call[c], batch, known, above)
  <2>2. /\ q.out = call[c].out
        /\ \A s \in Symbols : q.read[s] \in {call[c].read[s], Snapshot(0), Snapshot(1)}
    BY <1>1 DEF AfterBatch, Call
  <2>3. \A f \in {0, 1} : Counted(Snapshot(f), now)
    BY <1>1 DEF Counted, Snapshot, DatedInv
  <2> HIDE DEF q
  <2>4. CallDated(q, now)
    BY <1>1, <2>2, <2>3 DEF CallDated
  <2>5. UNCHANGED <<now, market, board>>
    BY <1>4 DEF ReadBatch
  <2> QED BY <1>1, <2>1, <2>4, <2>5, CallStepDated DEF q
<1>5. CASE NextSource(c)
  <2> DEFINE q == [call[c] EXCEPT !.rest = call[c].need, !.read = Nothing, !.early = {}]
  <2>1. /\ call' = [call EXCEPT ![c] = q] /\ UNCHANGED <<now, market, board>>
    BY <1>5 DEF NextSource
  <2>2. q.read = Nothing /\ q.out = call[c].out
    BY <1>1 DEF Call
  <2> HIDE DEF q
  <2>3. CallDated(q, now)
    BY <1>1, <2>2 DEF CallDated, Counted, Nothing
  <2> QED BY <1>1, <2>1, <2>3, CallStepDated
<1>6. CASE Bank(c)
  <2>1. /\ call[c].pc = "asking" /\ board' = Over(board, Stamped(c))
        /\ call' = [call EXCEPT ![c] = Idle] /\ UNCHANGED <<now, market>>
    BY <1>6 DEF Bank
  <2>2. \A s \in Symbols : Dated(board'[s])
    BY <1>1, <2>1, StampedDated, StampedTyped, OverDated
  <2> QED BY <1>2, <2>1, <2>2, CallStepDated
<1>7. CASE Unavailable(c)
  BY <1>1, <1>2, <1>7, CallStepDated DEF Unavailable
<1> QED BY <1>3, <1>4, <1>5, <1>6, <1>7 DEF CallStep

LEMMA NextDated ==
  ASSUME HoursHold
  PROVE  BoardInv /\ DatedInv /\ [Next]_vars => DatedInv'
<1> SUFFICES ASSUME BoardInv, DatedInv, [Next]_vars PROVE DatedInv'
  OBVIOUS
<1>1. CASE Reset \/ Fill \/ Tick
  BY <1>1, WorldDated
<1>2. ASSUME NEW c \in Callers, CallStep(c) PROVE DatedInv'
  BY <1>2, CallsDated
<1>3. CASE UNCHANGED vars
  BY <1>3 DEF vars, DatedInv, CallDated, Counted, Dated
<1> QED BY <1>1, <1>2, <1>3 DEF Next

\* A caller that banks what it is given under board_session of its stamp banks counters
\* under the session they count, or not at all, however the call, the reset of the
\* exchange, midnight and a closure fall.
THEOREM CountersDatedRight == ASSUME HoursHold PROVE Spec => []CountersOfTheirSession
<1>1. ASSUME BoardInv, DatedInv PROVE CountersOfTheirSession
  <2> SUFFICES ASSUME NEW c \in Callers,
                      NEW e \in Given(Cached) \cup Given(Answered(c)) \cup Given(Fallback(c))
               PROVE  Dated(e) /\ e # None
    BY DEF CountersOfTheirSession, Dated
  <2>1. \A s \in Symbols : Dated(call[c].out[s])
    BY <1>1 DEF DatedInv, CallDated
  <2>2. call[c].out \in Entries
    BY <1>1 DEF BoardInv, TypeOK, Call
  <2>3. \A s \in Symbols : Dated(Cached[s])
    BY <1>1, ShapesTyped, LatestDated DEF Cached
  <2>4. \A s \in Symbols : Dated(Answered(c)[s])
    <3>1. CASE call[c].pc = "asking"
      BY <1>1, <2>1, <2>2, <3>1, StampedDated, StampedTyped, OverDated
         DEF Answered, Nothing, Dated
    <3>2. CASE call[c].pc # "asking"
      BY <3>2 DEF Answered, Nothing, Dated
    <3> QED BY <3>1, <3>2
  <2>5. \A s \in Symbols : Dated(Fallback(c)[s])
    <3>1. /\ LatestBoard(call[c].need, StaleTTL) \in Entries
          /\ \A s \in Symbols : Dated(LatestBoard(call[c].need, StaleTTL)[s])
      BY <1>1, ShapesTyped, LatestTyped, LatestDated DEF BoardInv
    <3> QED BY <2>1, <2>2, <3>1, OverDated DEF Fallback
  <2> QED BY <2>3, <2>4, <2>5 DEF Given, Read
<1> QED BY <1>1, InitDated, NextDated, BoardInvariant, InitBoard, NextBoard, PTL DEF Spec

\* Entries, stamps, ages and what every call has read so far keep their shape.
THEOREM BoardTyped == Spec => []TypeOK
<1>1. BoardInv => TypeOK
  BY DEF BoardInv
<1> QED BY <1>1, BoardInvariant, PTL
=============================================================================
