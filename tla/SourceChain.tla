----------------------------- MODULE SourceChain -----------------------------
(***************************************************************************)
(* The source chain of adapter.py and the bill record_source_calls keeps   *)
(* of it: _query, the second-opinion loop of _resolve_stubs, the recorders *)
(* of a context and the worker threads it is carried into, and the meter a *)
(* source reports its units through (sources/base.py).                     *)
(***************************************************************************)
EXTENDS Integers, Sequences

CONSTANTS
  Threads,
  Coroutine,     \* the thread whose context the recorders are opened in
  Sources,       \* the chain holds sources 1 .. Sources, tried in that order
  Supporting,    \* the sources that implement the capability asked for
  Recorders,
  MaxRequests,   \* requests of a behaviour (bounds the model)
  MayResolve,    \* whether second opinions are asked for
  MayFail,       \* whether a source may raise something else
  None

ASSUME ChainAssumption ==
  /\ Coroutine \in Threads
  /\ Sources \in Nat \ {0} /\ Supporting \subseteq 1 .. Sources
  /\ MaxRequests \in Nat /\ MayResolve \in BOOLEAN /\ MayFail \in BOOLEAN
  /\ None \notin Nat

VARIABLES
  open,      \* _recorders in the context each thread runs in, innermost last
  bill,      \* the list each recorder has yielded
  meter,     \* _metered.units of each thread
  job,       \* what each thread does in the chain
  requests   \* how many requests have been made

vars == <<open, bill, meter, job, requests>>

Outcomes == {"ok", "unavailable", "unreachable", "error"}
Units == {None, 1, 2}
SourceCall == [source : 1 .. Sources, outcome : Outcomes, symbol : Threads, units : Units]

Job == [pc : {"idle", "next", "asked", "answered"}, of : {"query", "resolve"},
        at : 1 .. Sources + 1, banked : 0 .. Sources,
        outcome : Outcomes, units : Units]

TypeOK ==
  /\ open \in [Threads -> Seq(Recorders)]
  /\ bill \in [Recorders -> Seq(SourceCall)]
  /\ meter \in [Threads -> Units]
  /\ job \in [Threads -> Job]
  /\ requests \in 0 .. MaxRequests

Init ==
  /\ open = [t \in Threads |-> <<>>]
  /\ bill = [r \in Recorders |-> <<>>]
  /\ meter = [t \in Threads |-> None]
  /\ job = [t \in Threads |-> [pc |-> "idle", of |-> "query", at |-> 1, banked |-> 0,
                               outcome |-> "ok", units |-> None]]
  /\ requests = 0

Used == {r \in Recorders : \E t \in Threads : \E i \in DOMAIN open[t] : open[t][i] = r}

\* record_source_calls is entered; a recorder is a fresh list.
Enter(r) ==
  /\ job[Coroutine].pc = "idle"
  /\ r \notin Used /\ bill[r] = <<>>
  /\ open' = [open EXCEPT ![Coroutine] = Append(@, r)]
  /\ UNCHANGED <<bill, meter, job, requests>>

Leave ==
  /\ job[Coroutine].pc = "idle" /\ open[Coroutine] # <<>>
  /\ open' = [open EXCEPT ![Coroutine] = SubSeq(@, 1, Len(@) - 1)]
  /\ UNCHANGED <<bill, meter, job, requests>>

\* _query and _resolve_stubs are entered; a thread that is not the coroutine's runs a
\* copy of the coroutine's context (asyncio.to_thread).
Start(t, of, banked) ==
  /\ job[t].pc = "idle" /\ requests < MaxRequests
  /\ job' = [job EXCEPT ![t] = [@ EXCEPT !.pc = "next", !.of = of, !.at = 1, !.banked = banked]]
  /\ open' = [open EXCEPT ![t] = open[Coroutine]]
  /\ UNCHANGED <<bill, meter, requests>>

Query(t) == Start(t, "query", 0)
Resolve(t) == MayResolve /\ \E s \in Supporting : Start(t, "resolve", s)

Passed(t) == job[t].at \notin Supporting \/ job[t].at = job[t].banked

\* Mutated: the meter is one for the process.
MeterOfProcess(t) == Coroutine

\* The thread-local the units of thread t are kept in.
Meter(t) == t

\* NotSupported, or the source whose bar is in question.
PassBy(t) ==
  /\ job[t].pc = "next" /\ job[t].at <= Sources /\ Passed(t)
  /\ meter' = IF job[t].of = "query" THEN [meter EXCEPT ![Meter(t)] = None] ELSE meter
  /\ job' = [job EXCEPT ![t] = [@ EXCEPT !.at = job[t].at + 1]]
  /\ UNCHANGED <<open, bill, requests>>

Ask(t) ==
  /\ job[t].pc = "next" /\ job[t].at <= Sources /\ ~Passed(t)
  /\ requests < MaxRequests
  /\ requests' = requests + 1
  /\ meter' = IF job[t].of = "query" THEN [meter EXCEPT ![Meter(t)] = None] ELSE meter
  /\ job' = [job EXCEPT ![t] = [@ EXCEPT !.pc = "asked"]]
  /\ UNCHANGED <<open, bill>>

\* The source returns or raises; only statements, once fetched, report units.
Answer(t) ==
  /\ job[t].pc = "asked"
  /\ \E outcome \in {o \in Outcomes : o = "error" => MayFail}, units \in Units :
       /\ units # None => outcome \in {"ok", "error"} /\ job[t].of = "query"
       /\ meter' = IF units = None THEN meter ELSE [meter EXCEPT ![Meter(t)] = units]
       /\ job' = [job EXCEPT ![t] = [@ EXCEPT !.pc = "answered", !.outcome = outcome,
                                              !.units = units]]
  /\ UNCHANGED <<open, bill, requests>>

\* Mutated: only the innermost recorder is extended.
RecordedInInnermost(t, outcome) ==
  [r \in Recorders |->
     IF open[t] # <<>> /\ open[t][Len(open[t])] = r
     THEN Append(bill[r], [source |-> job[t].at, outcome |-> outcome,
                           symbol |-> t, units |-> meter[Meter(t)]])
     ELSE bill[r]]

Recorded(t, outcome) ==
  [r \in Recorders |->
     IF \E i \in DOMAIN open[t] : open[t][i] = r
     THEN Append(bill[r], [source |-> job[t].at, outcome |-> outcome,
                           symbol |-> t, units |-> meter[Meter(t)]])
     ELSE bill[r]]

Record(t, outcome) ==
  /\ bill' = Recorded(t, outcome)
  /\ meter' = [meter EXCEPT ![Meter(t)] = None]

Advance(t) == job' = [job EXCEPT ![t] = [@ EXCEPT !.pc = "next", !.at = job[t].at + 1]]
Finish(t) == job' = [job EXCEPT ![t] = [@ EXCEPT !.pc = "idle"]]

Down(t) == job[t].outcome \in {"unavailable", "unreachable"}

QueryStep(t) ==
  /\ job[t].pc = "answered" /\ job[t].of = "query"
  /\ Record(t, job[t].outcome)
  /\ IF Down(t) THEN Advance(t) ELSE Finish(t)
  /\ UNCHANGED <<open, requests>>

\* A source without the bar, or without its volume, is passed over.
ResolveStep(t) ==
  /\ job[t].pc = "answered" /\ job[t].of = "resolve" /\ job[t].outcome # "error"
  /\ Record(t, IF Down(t) THEN "unavailable" ELSE "ok")
  /\ Advance(t) \/ (~Down(t) /\ Finish(t))
  /\ UNCHANGED <<open, requests>>

ResolveFails(t) ==
  /\ job[t].pc = "answered" /\ job[t].of = "resolve" /\ job[t].outcome = "error"
  /\ Finish(t)
  /\ UNCHANGED <<open, bill, meter, requests>>

\* The chain is at its end: SourceUnavailable, NotSupported, or no second opinion.
Exhausted(t) ==
  /\ job[t].pc = "next" /\ job[t].at > Sources
  /\ Finish(t)
  /\ UNCHANGED <<open, bill, meter, requests>>

ChainStep(t) ==
  \/ Query(t) \/ Resolve(t)
  \/ PassBy(t) \/ Ask(t) \/ Answer(t)
  \/ QueryStep(t) \/ ResolveStep(t) \/ ResolveFails(t) \/ Exhausted(t)

Next == Leave \/ (\E r \in Recorders : Enter(r)) \/ (\E t \in Threads : ChainStep(t))
Spec == Init /\ [][Next]_vars
=============================================================================
