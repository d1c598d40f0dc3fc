------------------------------- MODULE Pacer -------------------------------
(***************************************************************************)
(* The request pacing of sources/vietcap.py: the process-wide _Pacer and   *)
(* the retrying _fetch of the threads that share it.  Pacer.wait reserves  *)
(* a slot under its lock, releases it, and sleeps until the slot comes; a  *)
(* sleep may overrun.                                                      *)
(***************************************************************************)
EXTENDS Integers

CONSTANTS
  Threads,     \* the threads that call the source
  Interval,    \* _MIN_INTERVAL_S
  Attempts,    \* _ATTEMPTS
  Overrun,     \* how late the scheduler may wake a sleeping thread
  Timeout,     \* _TIMEOUT: how long a request may stay unanswered
  LastBegin,   \* no fetch begins after this instant (bounds the model)
  End          \* the last instant, after every fetch that began has ended

ASSUME PacerAssumption ==
  /\ Interval \in Nat /\ Overrun \in Nat /\ Timeout \in Nat
  /\ Attempts \in Nat \ {0}
  /\ LastBegin \in Nat /\ End \in Nat

VARIABLES
  now,       \* time.monotonic()
  next,      \* _Pacer._next
  fetch,     \* what each thread's _fetch is doing
  lastSent   \* when this process last put a request on the wire

vars == <<now, next, fetch, lastSent>>

Fetch == [pc : {"idle", "pacing", "sleeping", "sent"}, due : Int,
          attempt : 1 .. Attempts]

TypeOK ==
  /\ now \in Int /\ next \in Int /\ lastSent \in Int
  /\ fetch \in [Threads -> Fetch]

Init ==
  /\ now = 0 /\ next = 0 /\ lastSent = -Interval
  /\ fetch = [t \in Threads |->
                [pc |-> "idle", due |-> 0, attempt |-> 1]]

Begin(t) ==
  /\ fetch[t].pc = "idle" /\ now <= LastBegin
  /\ fetch' = [fetch EXCEPT ![t] = [@ EXCEPT !.pc = "pacing", !.attempt = 1]]
  /\ UNCHANGED <<now, next, lastSent>>

\* Mutated: a slot in the past is not brought forward to the present.
DueUnclamped == next

Due == IF now >= next THEN now ELSE next

\* Mutated: the slot taken is not marked as taken while it lies in the future.
ReserveUncounted(t) ==
  /\ fetch[t].pc = "pacing"
  /\ next' = now + Interval
  /\ fetch' = [fetch EXCEPT ![t] = [@ EXCEPT !.pc = "sleeping", !.due = Due]]
  /\ UNCHANGED <<now, lastSent>>

Reserve(t) ==
  /\ fetch[t].pc = "pacing"
  /\ next' = Due + Interval
  /\ fetch' = [fetch EXCEPT ![t] = [@ EXCEPT !.pc = "sleeping", !.due = Due]]
  /\ UNCHANGED <<now, lastSent>>

Send(t) ==
  /\ fetch[t].pc = "sleeping" /\ now >= fetch[t].due
  /\ lastSent' = now
  /\ fetch' = [fetch EXCEPT ![t] = [@ EXCEPT !.pc = "sent"]]
  /\ UNCHANGED <<now, next>>

\* A status came back, whatever it says, or an error no retry is for.
Answered(t) ==
  /\ fetch[t].pc = "sent"
  /\ fetch' = [fetch EXCEPT ![t] = [@ EXCEPT !.pc = "idle"]]
  /\ UNCHANGED <<now, next, lastSent>>

\* Mutated: one try more than _ATTEMPTS.
AgainOnceMore(t) == fetch[t].attempt <= Attempts

Again(t) == fetch[t].attempt < Attempts

\* Mutated: the tries are not counted.
RetryUncounted(t) ==
  /\ fetch[t].pc = "sent" /\ Again(t)
  /\ fetch' = [fetch EXCEPT ![t] = [@ EXCEPT !.pc = "pacing"]]
  /\ UNCHANGED <<now, next, lastSent>>

Retry(t) ==
  /\ fetch[t].pc = "sent" /\ Again(t)
  /\ fetch' = [fetch EXCEPT ![t] = [@ EXCEPT !.pc = "pacing", !.attempt = fetch[t].attempt + 1]]
  /\ UNCHANGED <<now, next, lastSent>>

GiveUp(t) ==
  /\ fetch[t].pc = "sent" /\ ~Again(t)
  /\ fetch' = [fetch EXCEPT ![t] = [@ EXCEPT !.pc = "idle"]]
  /\ UNCHANGED <<now, next, lastSent>>

\* A thread reaches the lock before the clock moves: Reserve reads the clock itself,
\* so waiting for the lock is the same as beginning, or trying again, later.
Tick ==
  /\ now < End
  /\ \A t \in Threads :
       /\ fetch[t].pc # "pacing"
       /\ fetch[t].pc = "sleeping" => now < fetch[t].due + Overrun
       /\ fetch[t].pc = "sent" => now < fetch[t].due + Overrun + Timeout
  /\ now' = now + 1
  /\ UNCHANGED <<next, fetch, lastSent>>

FetchStep(t) ==
  \/ Reserve(t) \/ Send(t)
  \/ Answered(t) \/ Retry(t) \/ GiveUp(t)

Next == Tick \/ \E t \in Threads : Begin(t) \/ FetchStep(t)

Spec == Init /\ [][Next]_vars
FairSpec == Spec /\ WF_vars(Tick) /\ \A t \in Threads : WF_vars(FetchStep(t))
-----------------------------------------------------------------------------
\* No two threads hold slots closer than the interval, however many of them wait
\* and whatever they retry (the slot is taken before the lock is released).
SlotsSpaced ==
  \A t, u \in Threads :
    t # u /\ fetch[t].pc = "sleeping" /\ fetch[u].pc = "sleeping"
    => fetch[t].due - fetch[u].due >= Interval \/ fetch[u].due - fetch[t].due >= Interval

Sends(t) == fetch[t].pc = "sleeping" /\ fetch'[t].pc = "sent"

\* Two requests of the process leave the interval apart, less what the sleep of the
\* first one overran: an idle pacer saves up no slots, so there is no burst.
SpacedUpToOverrun ==
  [][\A t \in Threads : Sends(t) => now - lastSent >= Interval - Overrun]_vars

\* Every fetch comes back, answered or given up (_ATTEMPTS, with a timeout each).
FetchReturns ==
  \A t \in Threads : fetch[t].pc = "pacing" ~> fetch[t].pc = "idle"

\* Two requests of the process leave at least the interval apart (vietcap.py:119).
\* Not kept: PacerOverrun.cfg.
RequestsSpaced == [][\A t \in Threads : Sends(t) => now - lastSent >= Interval]_vars
=============================================================================
