---------------------------- MODULE RequestProofs ----------------------------
(***************************************************************************)
(* Theorems about the requests one source makes in a row.  Pacer: how far  *)
(* apart they are, for any number of threads, any interval and any overrun *)
(* of their sleeps.  ForeignHistory: what the pages of one crawl add up    *)
(* to, for any window, page size and archive.                              *)
(***************************************************************************)
EXTENDS Pacer, ForeignHistoryMC, FiniteSetTheorems, TLAPS

Asleep(t) == fetch[t].pc = "sleeping"

\* A slot given out is paid for in _next before the lock is released.
SlotsPaid == \A t \in Threads : Asleep(t) => fetch[t].due + Interval <= next

\* No sleep overruns by more than Overrun.
NoLateSleeper == \A t \in Threads : Asleep(t) => now <= fetch[t].due + Overrun

\* The last request left its mark on _next, and on every slot still to come.
SendPaid ==
  /\ lastSent <= now
  /\ lastSent + Interval - Overrun <= next
  /\ Overrun < Interval =>
       \A t \in Threads : Asleep(t) => lastSent + Interval - Overrun <= fetch[t].due

PacedInv == TypeOK /\ SlotsPaid /\ SlotsSpaced /\ NoLateSleeper /\ SendPaid

LEMMA InitPaced == Init => PacedInv
BY PacerAssumption
   DEF Init, PacedInv, TypeOK, SlotsPaid, SlotsSpaced, NoLateSleeper, SendPaid,
       Asleep, Fetch

\* A step that puts no thread to sleep and sends nothing leaves the slots alone.
LEMMA OthersPaced ==
  ASSUME PacedInv, TypeOK', UNCHANGED <<now, next, lastSent>>,
         \A t \in Threads : Asleep(t)' => Asleep(t) /\ fetch'[t].due = fetch[t].due
  PROVE  PacedInv'
BY DEF PacedInv, TypeOK, SlotsPaid, SlotsSpaced, NoLateSleeper, SendPaid, Asleep, Fetch

LEMMA ReservePaced ==
  ASSUME PacedInv, NEW t \in Threads, Reserve(t)
  PROVE  PacedInv'
<1> USE PacerAssumption
<1>0. /\ fetch \in [Threads -> Fetch] /\ now \in Int /\ next \in Int
      /\ lastSent \in Int /\ Interval \in Nat /\ Overrun \in Nat
  BY DEF PacedInv, TypeOK
<1>1. /\ Due \in Int /\ now <= Due /\ next <= Due /\ next' = Due + Interval
      /\ now' = now /\ lastSent' = lastSent
  BY <1>0 DEF Reserve, Due
<1>2. /\ fetch' \in [Threads -> Fetch]
      /\ fetch'[t].pc = "sleeping" /\ fetch'[t].due = Due
      /\ \A u \in Threads \ {t} : fetch'[u] = fetch[u]
  BY <1>0, <1>1 DEF Reserve, Fetch
<1>3. TypeOK'
  BY <1>0, <1>1, <1>2 DEF TypeOK
<1>4. SlotsPaid'
  BY <1>0, <1>1, <1>2 DEF PacedInv, SlotsPaid, Asleep, Fetch
<1>5. SlotsSpaced'
  BY <1>0, <1>1, <1>2 DEF PacedInv, SlotsSpaced, SlotsPaid, Asleep, Fetch
<1>6. NoLateSleeper'
  BY <1>0, <1>1, <1>2 DEF PacedInv, NoLateSleeper, Asleep, Fetch
<1>7. SendPaid'
  BY <1>0, <1>1, <1>2 DEF PacedInv, SendPaid, Asleep, Fetch
<1> QED
  BY <1>3, <1>4, <1>5, <1>6, <1>7 DEF PacedInv

\* The request of slot d leaves at most Overrun after d, and every other slot lies
\* at least the interval on either side of d; one that lies before is overdue.
LEMMA SendPaced ==
  ASSUME PacedInv, NEW t \in Threads, Send(t)
  PROVE  PacedInv'
<1> USE PacerAssumption
<1>0. /\ fetch \in [Threads -> Fetch] /\ now \in Int /\ next \in Int
      /\ lastSent \in Int /\ Interval \in Nat /\ Overrun \in Nat
      /\ fetch[t].due \in Int
  BY DEF PacedInv, TypeOK, Fetch
<1>1. /\ now' = now /\ next' = next /\ lastSent' = now
      /\ Asleep(t) /\ fetch[t].due <= now
  BY DEF Send, Asleep
<1>2. /\ fetch' \in [Threads -> Fetch] /\ ~Asleep(t)'
      /\ \A u \in Threads \ {t} : fetch'[u] = fetch[u]
  BY <1>0 DEF Send, Fetch, Asleep
<1>3. TypeOK'
  BY <1>0, <1>1, <1>2 DEF TypeOK
<1>4. SlotsPaid' /\ SlotsSpaced' /\ NoLateSleeper'
  BY <1>0, <1>1, <1>2 DEF PacedInv, SlotsPaid, SlotsSpaced, NoLateSleeper, Asleep, Fetch
<1>5. fetch[t].due + Interval <= next /\ now <= fetch[t].due + Overrun
  BY <1>1 DEF PacedInv, SlotsPaid, NoLateSleeper
<1>6. ASSUME Overrun < Interval, NEW u \in Threads, Asleep(u)'
      PROVE  now + Interval - Overrun <= fetch'[u].due
  <2>1. u # t /\ Asleep(u) /\ fetch'[u].due = fetch[u].due /\ fetch[u].due \in Int
    BY <1>0, <1>2, <1>6 DEF Asleep, Fetch
  <2>2. now <= fetch[u].due + Overrun
    BY <2>1 DEF PacedInv, NoLateSleeper
  <2>3. fetch[t].due - fetch[u].due >= Interval \/ fetch[u].due - fetch[t].due >= Interval
    BY <1>1, <2>1 DEF PacedInv, SlotsSpaced, Asleep
  <2> QED
    BY <1>0, <1>1, <1>5, <1>6, <2>1, <2>2, <2>3
<1>7. SendPaid'
  BY <1>0, <1>1, <1>5, <1>6 DEF SendPaid
<1> QED
  BY <1>3, <1>4, <1>7 DEF PacedInv

LEMMA TickPaced == PacedInv /\ Tick => PacedInv'
BY PacerAssumption
   DEF PacedInv, TypeOK, SlotsPaid, SlotsSpaced, NoLateSleeper, SendPaid, Asleep, Fetch, Tick

LEMMA NextPaced == PacedInv /\ [Next]_vars => PacedInv'
<1> SUFFICES ASSUME PacedInv, [Next]_vars PROVE PacedInv'
  OBVIOUS
<1> USE PacerAssumption
<1>1. CASE Tick
  BY <1>1, TickPaced
<1>2. ASSUME NEW t \in Threads, Reserve(t) PROVE PacedInv'
  BY <1>2, ReservePaced
<1>3. ASSUME NEW t \in Threads, Send(t) PROVE PacedInv'
  BY <1>3, SendPaced
<1>4. ASSUME NEW t \in Threads, Begin(t) \/ Answered(t) \/ Retry(t) \/ GiveUp(t)
      PROVE  PacedInv'
  <2>1. /\ fetch \in [Threads -> Fetch] /\ UNCHANGED <<now, next, lastSent>>
        /\ now \in Int /\ next \in Int /\ lastSent \in Int
    BY <1>4 DEF PacedInv, TypeOK, Begin, Answered, Retry, GiveUp
  <2>2. /\ fetch' \in [Threads -> Fetch] /\ fetch'[t].pc \in {"idle", "pacing"}
        /\ \A u \in Threads \ {t} : fetch'[u] = fetch[u]
    <3>0. 1 \in 1 .. Attempts /\ fetch[t].attempt \in 1 .. Attempts
          /\ (Again(t) => fetch[t].attempt + 1 \in 1 .. Attempts)
      BY <2>1, PacerAssumption DEF Again, Fetch
    <3>1. CASE Begin(t)
      <4>1. [fetch[t] EXCEPT !.pc = "pacing", !.attempt = 1] \in Fetch
        BY <2>1, <3>0 DEF Fetch
      <4> QED
        BY <2>1, <3>1, <4>1 DEF Begin
    <3>2. CASE Answered(t)
      BY <2>1, <3>2 DEF Answered, Fetch
    <3>3. CASE Retry(t)
      <4>1. [fetch[t] EXCEPT !.pc = "pacing", !.attempt = fetch[t].attempt + 1] \in Fetch
        BY <2>1, <3>0, <3>3 DEF Fetch, Retry
      <4> QED
        BY <2>1, <3>3, <4>1 DEF Retry
    <3>4. CASE GiveUp(t)
      BY <2>1, <3>4 DEF GiveUp, Fetch
    <3> QED
      BY <1>4, <3>1, <3>2, <3>3, <3>4
  <2>3. TypeOK' /\ \A u \in Threads : Asleep(u)' => Asleep(u) /\ fetch'[u].due = fetch[u].due
    BY <2>1, <2>2 DEF TypeOK, Asleep
  <2> QED
    BY <2>1, <2>3, OthersPaced
<1>5. CASE UNCHANGED vars
  BY <1>5 DEF vars, PacedInv, TypeOK, SlotsPaid, SlotsSpaced, NoLateSleeper, SendPaid, Asleep
<1> QED
  BY <1>1, <1>2, <1>3, <1>4, <1>5 DEF Next, FetchStep

LEMMA PacedAlways == Spec => []PacedInv
BY InitPaced, NextPaced, PTL DEF Spec

\* A slot, a try and a clock keep their ranges: no thread counts a try beyond
\* _ATTEMPTS, for any number of threads.
THEOREM TypeCorrect == Spec => []TypeOK
<1>1. PacedInv => TypeOK
  BY DEF PacedInv
<1> QED
  BY <1>1, PacedAlways, PTL

\* The slots of the threads that wait are the interval apart, for any number of
\* threads and whatever they retry.
THEOREM SlotsAlwaysSpaced == Spec => []SlotsSpaced
<1>1. PacedInv => SlotsSpaced
  BY DEF PacedInv
<1> QED
  BY <1>1, PacedAlways, PTL

\* Two requests leave the interval apart, less the overrun of the first one's
\* sleep; with sleeps that end on time they leave the whole interval apart.
THEOREM RequestsSpacedUpToOverrun == Spec => SpacedUpToOverrun
<1>1. PacedInv /\ [Next]_vars =>
        \A t \in Threads : Sends(t) => now - lastSent >= Interval - Overrun
  <2> SUFFICES ASSUME PacedInv, [Next]_vars, NEW t \in Threads, Sends(t)
               PROVE  now - lastSent >= Interval - Overrun
    OBVIOUS
  <2>1. /\ now \in Int /\ lastSent \in Int /\ Interval \in Nat /\ Overrun \in Nat
        /\ fetch \in [Threads -> Fetch] /\ fetch[t].due \in Int
    BY PacerAssumption DEF PacedInv, TypeOK, Fetch
  <2>2. fetch[t].due <= now
    <3>1. CASE Send(t)
      BY <3>1 DEF Send
    <3>2. CASE ~Send(t)
      BY <2>1, <3>2 DEF Sends, Next, FetchStep, Tick, Begin, Reserve, Send, Answered,
                        Retry, GiveUp, vars, Fetch
    <3> QED
      BY <3>1, <3>2
  <2>3. CASE Overrun < Interval
    BY <2>1, <2>2, <2>3 DEF PacedInv, SendPaid, Asleep, Sends
  <2>4. CASE ~(Overrun < Interval)
    BY <2>1, <2>4 DEF PacedInv, SendPaid
  <2> QED
    BY <2>3, <2>4
<1> QED
  BY <1>1, PacedAlways, PTL DEF Spec, SpacedUpToOverrun
-----------------------------------------------------------------------------
\* The crawl of get_foreign_history.

\* The sessions on the pages before page.
Passed(page) == {s \in Kept : settled - (page - 1) * PageSize < s}

\* A crawl under way has what it passed by of its window: a row that moves down a page
\* is read again, never skipped.
WindowInv ==
  /\ CrawlTypeOK
  /\ asked \in 0 .. settled
  /\ call.page > 0 =>
       \A s \in Passed(call.page) : s <= asked /\ s \in InWindow(Kept) => s \in call.seen

LEMMA CrawlConstants ==
  /\ LastSession \in Nat /\ LastSession > 0 /\ Depth \in Nat /\ PageSize \in Nat /\ PageSize > 0
  /\ MaxPages \in Nat /\ MaxPages > 0 /\ SettledBefore \in 0 .. LastSession /\ None \notin Nat
BY HistoryAssumption

LEMMA InitWindow == HistoryInit => WindowInv
BY CrawlConstants DEF HistoryInit, CrawlInit, WindowInv, CrawlTypeOK, Call, Sessions

\* One page more is passed: the pages are PageSize sessions each, back to the end of
\* the archive.
LEMMA PassedPage ==
  ASSUME CrawlTypeOK, NEW page \in 1 .. MaxPages
  PROVE  /\ Passed(page + 1) = Passed(page) \cup PageOf(page)
         /\ page * PageSize \in Nat /\ (page - 1) * PageSize = page * PageSize - PageSize
         /\ (page - 1) * PageSize \in Nat
<1>1. /\ page * PageSize \in Nat /\ (page - 1) * PageSize = page * PageSize - PageSize
      /\ (page - 1) * PageSize \in Nat /\ (page + 1) - 1 = page
  BY CrawlConstants
<1>2. settled \in Int /\ \A s \in Kept : s \in Int
  BY CrawlConstants DEF CrawlTypeOK, Kept, Sessions
<1> QED BY <1>1, <1>2, CrawlConstants DEF Passed, PageOf

\* A session the crawl has not come to, on page or behind it, lies on a page that is
\* full of sessions the archive keeps, or on the page itself.
LEMMA UnpassedKept ==
  ASSUME CrawlTypeOK, NEW page \in 1 .. MaxPages, NEW s \in Kept, s \notin Passed(page)
  PROVE  /\ PageOf(page) # {}
         /\ s \notin Passed(page + 1) =>
              /\ PageOf(page) = (settled - page * PageSize + 1) .. (settled - (page - 1) * PageSize)
              /\ page * PageSize < Total
<1> DEFINE n == page * PageSize
           m == (page - 1) * PageSize
<1>1. /\ n \in Nat /\ m = n - PageSize /\ m \in Nat
      /\ Passed(page + 1) = Passed(page) \cup PageOf(page)
  BY PassedPage
<1> HIDE DEF n, m
<1>2. settled \in 0 .. LastSession
  BY DEF CrawlTypeOK
<1>3. /\ s \in 1 .. LastSession /\ settled - Depth < s /\ s <= settled - m
      /\ \A d \in Int :
           d \in Kept <=> d \in 1 .. LastSession /\ settled - Depth < d /\ d <= settled
  BY <1>1, <1>2, CrawlConstants DEF Kept, Sessions, Passed, m
<1>4. \A d : d \in PageOf(page) <=> d \in Kept /\ settled - n < d /\ d <= settled - m
  BY DEF PageOf, n, m
<1>5. settled - m \in PageOf(page)
  BY <1>1, <1>2, <1>3, <1>4, CrawlConstants
<1>6. ASSUME s \notin Passed(page + 1)
      PROVE  PageOf(page) = (settled - n + 1) .. (settled - m) /\ n < Total
  <2>1. s <= settled - n
    BY <1>1, <1>2, <1>3, <1>4, <1>6
  <2>2. \A d : d \in PageOf(page) <=> d \in (settled - n + 1) .. (settled - m)
    <3>1. Kept \subseteq Int
      BY <1>2, CrawlConstants DEF Kept, Sessions
    <3>2. ASSUME NEW d \in Int, settled - n < d, d <= settled - m PROVE d \in Kept
      BY <1>1, <1>2, <1>3, <2>1, <3>2, CrawlConstants
    <3>3. settled - m \in Int /\ settled - n + 1 \in Int /\ n \in Int /\ settled \in Int
      BY <1>1, <1>2, CrawlConstants
    <3>4. ASSUME NEW d \in PageOf(page) PROVE d \in (settled - n + 1) .. (settled - m)
      <4>1. d \in Int /\ settled - n < d /\ d <= settled - m
        BY <1>4, <3>1
      <4> QED BY <3>3, <4>1
    <3>5. ASSUME NEW d \in (settled - n + 1) .. (settled - m) PROVE d \in PageOf(page)
      <4>1. d \in Int /\ settled - n < d /\ d <= settled - m
        BY <3>3
      <4> QED BY <1>4, <3>2, <4>1
    <3> QED BY <3>4, <3>5
  <2>3. n < Total
    BY <1>1, <1>2, <1>3, <2>1, CrawlConstants DEF Total
  <2> QED BY <2>2, <2>3
<1> QED BY <1>5, <1>6 DEF n, m

\* Where the crawl stops, it has passed the window or the archive.
LEMMA StopsBehindWindow ==
  ASSUME CrawlTypeOK, call.page \in 1 .. MaxPages, Unreadable = {},
         NEW total \in {None, Total}, Stops(Rows(call.page), total), NEW s \in Kept,
         call.lo <= s
  PROVE  s \in Passed(call.page + 1)
<1> DEFINE page == call.page
           n == page * PageSize
           m == (page - 1) * PageSize
<1> SUFFICES ASSUME s \notin Passed(page + 1) PROVE FALSE
  OBVIOUS
<1>1. /\ n \in Nat /\ m = n - PageSize /\ m \in Nat
      /\ Passed(page + 1) = Passed(page) \cup PageOf(page)
  BY PassedPage
<1>2. PageOf(page) # {} /\ PageOf(page) = (settled - n + 1) .. (settled - m) /\ n < Total
  BY <1>1, UnpassedKept
<1> HIDE DEF n, m
<1>3. /\ settled \in Int /\ call.lo \in Int /\ s \in Int
      /\ Rows(page) = (settled - n + 1) .. (settled - m)
  BY <1>2, CrawlConstants DEF CrawlTypeOK, Rows, Call, Sessions, Kept
<1>4. Cardinality(Rows(page)) = PageSize
  <2>1. settled - n + 1 \in Int /\ settled - m \in Int
    BY <1>1, <1>3, CrawlConstants
  <2>2. Cardinality((settled - n + 1) .. (settled - m))
          = (settled - m) - (settled - n + 1) + 1
    BY <1>1, <1>3, <2>1, FS_Interval, CrawlConstants
  <2> QED BY <1>1, <1>3, <2>2, CrawlConstants
<1>5. Min(Rows(page)) = settled - n + 1
  BY <1>1, <1>3, CrawlConstants DEF Min
<1>6. s <= settled - n
  <2>1. (page + 1) - 1 = page
    BY CrawlConstants
  <2> QED BY <1>1, <1>3, <2>1 DEF Passed, n
<1>7. Total \in Int
  BY <1>3, CrawlConstants DEF Total
<1>8. Rows(page) # {} /\ ~(Min(Rows(page)) <= call.lo) /\ ~(Cardinality(Rows(page)) < PageSize)
  BY <1>1, <1>2, <1>3, <1>4, <1>5, <1>6, CrawlConstants
<1>9. ~(total # None /\ n >= total)
  BY <1>1, <1>2, <1>7
<1> QED BY <1>8, <1>9 DEF Stops, n

\* A page taken is a page passed.
LEMMA PageTaken ==
  ASSUME WindowInv, call.page > 0, Unreadable = {}, NEW s \in Passed(call.page + 1),
         s <= asked, s \in InWindow(Kept)
  PROVE  s \in call.seen \cup InWindow(Rows(call.page))
<1>1. call.page \in 1 .. MaxPages
  BY CrawlConstants DEF WindowInv, CrawlTypeOK, Call
<1>2. CASE s \in Passed(call.page)
  BY <1>2 DEF WindowInv
<1>3. CASE s \in PageOf(call.page)
  BY <1>3 DEF InWindow, Rows
<1> QED BY <1>1, <1>2, <1>3, PassedPage DEF WindowInv

\* The two ways the loop goes on from a page.
LEMMA CallEnds ==
  ASSUME call \in Call, call' = [call EXCEPT !.page = 0, !.seen = {}]
  PROVE  call' \in Call /\ call'.page = 0
<1>1. 0 \in 0 .. MaxPages
  BY CrawlConstants
<1> QED BY <1>1 DEF Call

LEMMA CallGoesOn ==
  ASSUME call \in Call, call.page \in 1 .. MaxPages, NEW seen \in SUBSET Sessions,
         call' = [call EXCEPT !.page = @ + 1, !.seen = seen]
  PROVE  /\ call'.page = call.page + 1 /\ call'.seen = seen
         /\ call'.lo = call.lo /\ call'.hi = call.hi
         /\ call.page # MaxPages => call' \in Call
<1>1. call.page # MaxPages => call.page + 1 \in 0 .. MaxPages
  BY CrawlConstants
<1> QED BY <1>1 DEF Call

LEMMA TakePageWindow ==
  ASSUME WindowInv, Unreadable = {}, Garbled = FALSE, HistoryNext, FetchPage
  PROVE  WindowInv'
<1>1. /\ call \in Call /\ call.page \in 1 .. MaxPages
      /\ settled' = settled /\ settled \in 0 .. LastSession
  BY CrawlConstants DEF FetchPage, WindowInv, CrawlTypeOK, Call
<1>2. asked' = asked
  BY <1>1, CrawlConstants DEF HistoryNext, GetForeignHistory
<1>3. PICK total : TakePage(Rows(call.page), total)
  BY DEF FetchPage
<1> DEFINE seen == call.seen \cup InWindow(Rows(call.page))
<1>4. seen \in SUBSET Sessions
  BY <1>1 DEF Call, InWindow, Rows, PageOf, Kept
<1>5. CASE call' = [call EXCEPT !.page = 0, !.seen = {}] /\ answer' = seen
  <2>1. call' \in Call /\ call'.page = 0
    BY <1>1, <1>5, CallEnds
  <2> HIDE DEF seen
  <2> QED BY <1>1, <1>2, <1>4, <1>5, <2>1 DEF WindowInv, CrawlTypeOK
<1>6. CASE /\ call' = [call EXCEPT !.page = @ + 1, !.seen = seen] /\ UNCHANGED answer
           /\ call.page # MaxPages
  <2>1. call' \in Call /\ call'.page = call.page + 1 /\ call'.seen = seen
        /\ call'.lo = call.lo /\ call'.hi = call.hi
    BY <1>1, <1>4, <1>6, CallGoesOn
  <2>2. /\ Kept' = Kept /\ InWindow(Kept)' = InWindow(Kept)
        /\ Passed(call.page)' = Passed(call.page + 1)
    BY <1>1, <2>1 DEF Kept, Passed, InWindow
  <2>3. \A s \in Passed(call.page + 1) : s <= asked /\ s \in InWindow(Kept) => s \in seen
    BY <1>1, PageTaken
  <2> HIDE DEF seen
  <2>4. \A s \in Passed(call.page)' : s <= asked' /\ s \in InWindow(Kept)' => s \in call'.seen
    BY <1>2, <2>1, <2>2, <2>3
  <2>5. CrawlTypeOK' /\ asked' \in 0 .. settled'
    BY <1>1, <1>2, <1>6, <2>1 DEF WindowInv, CrawlTypeOK
  <2> QED BY <2>4, <2>5 DEF WindowInv
<1> QED BY <1>3, <1>5, <1>6 DEF TakePage, LastPage

LEMMA NextWindow ==
  ASSUME WindowInv, Unreadable = {}, Garbled = FALSE, [HistoryNext]_mcvars
  PROVE  WindowInv'
<1>0. /\ settled \in 0 .. LastSession /\ call \in Call /\ asked \in 0 .. settled
      /\ Kept \subseteq 1 .. settled
  BY CrawlConstants DEF WindowInv, CrawlTypeOK, Kept, Sessions
<1>1. CASE UNCHANGED mcvars
  BY <1>1 DEF mcvars, crawlVars, WindowInv, CrawlTypeOK, Passed, Kept, InWindow
<1>2. CASE HistoryNext /\ Settle
  <2>1. /\ settled' = settled + 1 /\ settled' \in 0 .. LastSession /\ call' = call
        /\ answer' = answer
    BY <1>0, <1>2, CrawlConstants DEF Settle
  <2>2. asked' \in {asked, settled} /\ (call.page > 0 => asked' = asked)
    BY <1>2 DEF HistoryNext, GetForeignHistory
  <2>3. ASSUME call.page > 0, NEW s \in Passed(call.page)', s <= asked, s \in InWindow(Kept)'
        PROVE  s \in call.seen
    <3>1. s \in Kept /\ s \in InWindow(Kept)
      BY <1>0, <2>1, <2>3, CrawlConstants DEF Passed, Kept, InWindow, Sessions
    <3>2. (call.page - 1) * PageSize \in Int
      BY <1>0, CrawlConstants DEF Call
    <3>3. s \in Passed(call.page)
      BY <1>0, <2>1, <2>3, <3>1, <3>2, CrawlConstants DEF Passed
    <3> QED BY <2>3, <3>1, <3>3 DEF WindowInv
  <2>4. CrawlTypeOK' /\ asked' \in 0 .. settled'
    BY <1>0, <2>1, <2>2 DEF WindowInv, CrawlTypeOK
  <2> QED BY <2>1, <2>2, <2>3, <2>4 DEF WindowInv
<1>3. CASE HistoryNext /\ GetForeignHistory
  <2>0. PICK lo, hi \in Sessions : call' = [page |-> 1, lo |-> lo, hi |-> hi, seen |-> {}]
    BY <1>3 DEF GetForeignHistory
  <2>1. /\ call' \in Call /\ call'.page = 1 /\ settled' = settled /\ answer' = answer
        /\ asked' = settled
    <3>1. call' \in Call /\ call'.page = 1
      BY <2>0, CrawlConstants DEF Call
    <3>2. settled' = settled /\ answer' = answer /\ asked' = settled
      BY <1>3 DEF HistoryNext, GetForeignHistory
    <3> QED BY <3>1, <3>2
  <2>2. Passed(call.page)' = {}
    <3>1. (call'.page - 1) * PageSize = 0
      BY <2>1, CrawlConstants
    <3> QED BY <1>0, <2>1, <3>1, CrawlConstants DEF Passed, Kept, Sessions
  <2> QED BY <1>0, <2>1, <2>2 DEF WindowInv, CrawlTypeOK
<1>4. CASE HistoryNext /\ FetchPage
  BY <1>4, TakePageWindow
<1>5. CASE HistoryNext /\ FetchFails
  <2>1. call' \in Call /\ call'.page = 0 /\ settled' = settled /\ answer' = None
    BY <1>0, <1>5, CallEnds DEF FetchFails
  <2>2. asked' = asked
    <3>1. call.page # 0
      BY <1>0, <1>5 DEF FetchFails, Call
    <3> QED BY <1>5, <3>1 DEF HistoryNext, GetForeignHistory
  <2> QED BY <1>0, <2>1, <2>2 DEF WindowInv, CrawlTypeOK
<1> QED BY <1>1, <1>2, <1>3, <1>4, <1>5 DEF HistoryNext, CrawlNext, Crawl

LEMMA AnswerCovers ==
  ASSUME WindowInv, Unreadable = {}, Garbled = FALSE, Depth <= MaxPages * PageSize,
         HistoryNext, Answers, NEW s \in Kept, s <= asked, call.lo <= s, s <= call.hi
  PROVE  s \in answer'
<1>1. FetchPage
  BY CrawlConstants
     DEF Answers, HistoryNext, CrawlNext, Crawl, Settle, GetForeignHistory, FetchFails
<1>2. call \in Call /\ call.page \in 1 .. MaxPages /\ settled \in 0 .. LastSession
  BY CrawlConstants DEF Answers, WindowInv, CrawlTypeOK, Call
<1>3. PICK total \in {None, Total} : TakePage(Rows(call.page), total)
  BY <1>1 DEF FetchPage
<1>4. /\ Stops(Rows(call.page), total) \/ call.page = MaxPages
      /\ answer' = call.seen \cup InWindow(Rows(call.page))
  <2> DEFINE seen == call.seen \cup InWindow(Rows(call.page))
  <2>1. seen \in SUBSET Sessions
    BY <1>2 DEF Call, InWindow, Rows, PageOf, Kept
  <2>2. call' # [call EXCEPT !.page = @ + 1, !.seen = seen]
    <3> HIDE DEF seen
    <3> SUFFICES ASSUME call' = [call EXCEPT !.page = @ + 1, !.seen = seen] PROVE FALSE
      OBVIOUS
    <3>1. call'.page = call.page + 1
      BY <1>2, <2>1, CallGoesOn
    <3> QED BY <1>2, <3>1, CrawlConstants DEF Answers
  <2> QED BY <1>3, <2>2 DEF TakePage, LastPage
<1>5. s \in Passed(call.page + 1)
  <2>1. CASE Stops(Rows(call.page), total)
    BY <1>2, <2>1, StopsBehindWindow DEF WindowInv
  <2>2. CASE call.page = MaxPages
    <3>1. MaxPages * PageSize \in Nat /\ (MaxPages + 1) - 1 = MaxPages
      BY CrawlConstants
    <3>2. s \in Int /\ settled - Depth < s
      BY <1>2, CrawlConstants DEF Kept, Sessions
    <3> QED BY <1>2, <2>2, <3>1, <3>2, CrawlConstants DEF Passed
  <2> QED BY <1>4, <2>1, <2>2
<1> QED BY <1>2, <1>4, <1>5, PageTaken DEF InWindow

\* Of an archive that keeps no more than the pages the crawl may read (four pages of
\* the eight, cafef.py:48-51), whose rows all parse, an answer has every session of the
\* window that was settled at the call and is still kept, however the archive grew and
\* forgot between two pages (ForeignMisread.cfg has the rows that do not parse).
THEOREM WindowAlwaysCovered ==
  ASSUME Unreadable = {}, Garbled = FALSE, Depth <= MaxPages * PageSize
  PROVE  HistorySpec => WindowCovered
<1>1. WindowInv /\ [HistoryNext]_mcvars => WindowInv'
  BY NextWindow
<1>2. WindowInv /\ [HistoryNext]_mcvars =>
        [Answers => \A s \in Kept : s <= asked /\ call.lo <= s /\ s <= call.hi
                                    => s \in answer']_mcvars
  BY AnswerCovers
<1> QED BY InitWindow, <1>1, <1>2, PTL DEF HistorySpec, WindowCovered
=============================================================================
