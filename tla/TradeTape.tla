----------------------------- MODULE TradeTape -----------------------------
(***************************************************************************)
(* get_trade_tape of sources/kbs.py: the matched prints of one session are *)
(* read page by page, newest first, while the exchange keeps printing and  *)
(* the endpoint may roll over to the next session.  The pages are put in   *)
(* order by accumulated volume and refused unless they chain from zero.    *)
(***************************************************************************)
EXTENDS Integers, Sequences, SequencesExt

CONSTANTS
  LastSession,   \* the sessions are 1 .. LastSession, served one at a time
  MaxPrints,     \* prints of one session (bounds the model)
  MaxVolume,     \* the volume of one print (bounds the model)
  PageSize,      \* _PAGE_SIZE
  MaxPages,      \* _MAX_PAGES
  Faulty,        \* the sessions whose pages may lack or repeat a print
  NoTape,        \* None: the symbol has not traded
  Refused        \* SourceUnavailable

ASSUME TapeAssumption ==
  /\ LastSession \in Nat \ {0} /\ MaxPrints \in Nat /\ MaxVolume \in Nat
  /\ PageSize \in Nat \ {0} /\ MaxPages \in Nat \ {0}
  /\ Faulty \subseteq 1 .. LastSession

VARIABLES
  session,   \* the session the endpoint serves
  log,       \* the prints of each session so far, oldest first
  call,      \* the paging loop: where it stands and the prints it holds
  answer     \* what the last get_trade_tape returned or raised

vars == <<session, log, call, answer>>

Sessions == 1 .. LastSession
Trade == [date : Sessions, volume : 1 .. MaxVolume, accumulated_volume : Nat]

TypeOK ==
  /\ session \in Sessions
  /\ log \in [Sessions -> Seq(Trade)]
  /\ call \in [page : 0 .. MaxPages, prints : Seq(Trade)]
  /\ answer \in Seq(Trade) \cup {NoTape, Refused}

Idle == [page |-> 0, prints |-> <<>>]

Init ==
  /\ session = 1
  /\ log = [s \in Sessions |-> <<>>]
  /\ call = Idle /\ answer = NoTape

Accumulated(tape) ==
  IF tape = <<>> THEN 0 ELSE tape[Len(tape)].accumulated_volume

\* The exchange matches a trade in the session being served.
Match(v) ==
  /\ Len(log[session]) < MaxPrints
  /\ log' = [log EXCEPT ![session] =
       Append(@, [date |-> session, volume |-> v,
                  accumulated_volume |-> Accumulated(log[session]) + v])]
  /\ UNCHANGED <<session, call, answer>>

\* The endpoint turns to the next session, at an hour nobody knows.
RollOver ==
  /\ session < LastSession
  /\ session' = session + 1
  /\ UNCHANGED <<log, call, answer>>

\* Prints of one order share a timestamp and are served in either order.
ServedOrders ==
  LET newest == Reverse(log[session])
      Swapped(i) == [newest EXCEPT ![i] = newest[i + 1], ![i + 1] = newest[i]]
  IN {newest} \cup {Swapped(i) : i \in 1 .. Len(newest) - 1}

\* A page of a faulty answer lacks one of its prints, or has one twice.
Misread(rows) ==
  {RemoveAt(rows, i) : i \in DOMAIN rows} \cup {InsertAt(rows, i, rows[i]) : i \in DOMAIN rows}

Pages(page) ==
  LET Page(rows) == SubSeq(rows, (page - 1) * PageSize + 1,
                           IF page * PageSize < Len(rows) THEN page * PageSize ELSE Len(rows))
      pages == {Page(rows) : rows \in ServedOrders}
  IN pages \cup (IF session \in Faulty THEN UNION {Misread(p) : p \in pages} ELSE {})

\* sorted() is stable: before a print come those of less accumulated volume and, of as
\* much, those served before it.
Rank(prints, i) ==
  1 + Cardinality({j \in DOMAIN prints :
        \/ prints[j].accumulated_volume < prints[i].accumulated_volume
        \/ prints[j].accumulated_volume = prints[i].accumulated_volume /\ j < i})

Sorted(prints) ==
  [r \in DOMAIN prints |-> prints[CHOOSE i \in DOMAIN prints : Rank(prints, i) = r]]

\* Mutated: the running sum starts at the first print instead of zero.
ChainsFromFirst(tape) ==
  \A i \in DOMAIN tape :
    /\ tape[i].date = tape[1].date
    /\ i > 1 => tape[i].accumulated_volume = tape[i - 1].accumulated_volume + tape[i].volume

\* The running sum of the code is the accumulated volume of the print before.
Chains(tape) ==
  \A i \in DOMAIN tape :
    /\ tape[i].date = tape[1].date
    /\ tape[i].accumulated_volume =
         tape[i].volume + (IF i = 1 THEN 0 ELSE tape[i - 1].accumulated_volume)

Tape(prints) ==
  IF prints = <<>> THEN NoTape
  ELSE IF Chains(Sorted(prints)) THEN Sorted(prints) ELSE Refused

GetTradeTape ==
  /\ call.page = 0
  /\ call' = [page |-> 1, prints |-> <<>>]
  /\ UNCHANGED <<session, log, answer>>

FetchPage ==
  /\ call.page > 0
  /\ \E rows \in Pages(call.page) :
       LET prints == call.prints \o rows
       IN IF Len(rows) < PageSize
          THEN call' = Idle /\ answer' = Tape(prints)
          ELSE IF call.page < MaxPages
          THEN call' = [page |-> call.page + 1, prints |-> prints] /\ UNCHANGED answer
          ELSE call' = Idle /\ answer' = Refused
  /\ UNCHANGED <<session, log>>

\* The network, an HTTP status or a page that does not parse.
FetchFails ==
  /\ call.page > 0
  /\ call' = Idle /\ answer' = Refused
  /\ UNCHANGED <<session, log>>

Exchange == RollOver \/ \E v \in 1 .. MaxVolume : Match(v)
Source == GetTradeTape \/ FetchPage \/ FetchFails
Next == Exchange \/ Source
Spec == Init /\ [][Next]_vars
-----------------------------------------------------------------------------
\* A returned tape is one session from its first print on, with none missing and
\* none twice, whatever was printed or rolled over between its pages.
TapeIsAPrefix ==
  answer \notin {NoTape, Refused} =>
    \E s \in Sessions : IsPrefix(answer, log[s])
=============================================================================
