---------------------------- MODULE SourceChainMC ----------------------------
(***************************************************************************)
(* SourceChain with what the sources were asked, as they saw it.           *)
(***************************************************************************)
EXTENDS SourceChain, Functions

VARIABLES
  made,      \* for each recorder the requests made within it that have ended
  opinions   \* the recorders within which a second opinion was asked for

mcvars == <<vars, made, opinions>>

Ended(t) == job[t].pc = "answered" /\ job'[t].pc \in {"next", "idle"}

Within(t, r) == \E i \in DOMAIN open[t] : open[t][i] = r

HistoryInit == Init /\ made = [r \in Recorders |-> <<>>] /\ opinions = {}
HistoryNext ==
  /\ Next
  /\ made' = [r \in Recorders |->
       IF \E t \in Threads : Ended(t) /\ Within(t, r)
       THEN LET t == CHOOSE u \in Threads : Ended(u)
            IN Append(made[r], [source |-> job[t].at, outcome |-> job[t].outcome,
                                symbol |-> t, units |-> job[t].units])
       ELSE made[r]]
  /\ opinions' = opinions \cup
       {r \in Recorders : \E t \in Threads : Ended(t) /\ Within(t, r) /\ job[t].of = "resolve"}
HistorySpec == HistoryInit /\ [][HistoryNext]_mcvars

Of(outcomes, calls) == SelectSeq(calls, LAMBDA c : c.outcome \in outcomes)

\* Whatever the worker threads interleave, every recorder that was open in the context
\* of a request has it, with the outcome and the units of that request and no other
\* (_query and report_units; second opinions bill failures differently).
BillIsExact == \A r \in Recorders \ opinions : bill[r] = made[r]

\* The requests answered with data are the same in both lists, in the same order.
Answered(calls) == {i \in DOMAIN calls : calls[i].outcome = "ok"}
SameAnswers(calls, others) ==
  \E f \in Bijection(Answered(calls), Answered(others)) :
    \A i \in Answered(calls) :
      /\ calls[i] = others[f[i]]
      /\ \A j \in Answered(calls) : i < j => f[i] < f[j]

\* With second opinions in between, the same holds of the requests that were answered.
AnswersAreBilled == \A r \in Recorders : SameAnswers(bill[r], made[r])

\* A dropped connection is never on the bill as a refusal (sources/base.py:121-123).
\* Not kept: ChainErrors.cfg.
NoFalseTrip ==
  \A r \in Recorders :
    Len(Of({"unavailable"}, bill[r])) <= Len(Of({"unavailable"}, made[r]))

\* Every request is on the bill, one that raised something else included
\* (adapter.py:96-102, "one request the adapter put to a source").  Not kept:
\* ChainErrors.cfg.
ErrorsAreBilled == \A r \in Recorders : Len(bill[r]) = Len(made[r])
=============================================================================
