------------------------------ MODULE TxParser ------------------------------
(***************************************************************************)
(* How the wallet SDK reads a transaction as a list of token standard       *)
(* events (core/ledger-client/src/txparse/parser.ts): it goes over the      *)
(* nodes in order, tells what an exercise it knows did to the party's       *)
(* holdings as one event and goes on after its last descendant, and tells   *)
(* creates and archives it meets outside of such exercises one by one.      *)
(*                                                                         *)
(* An event is kept as the holdings it names: labels, amounts, parent       *)
(* choices and the split into locked and unlocked holdings are left out.    *)
(***************************************************************************)
EXTENDS Participant

VARIABLES parser    \* the transaction it reads, its next node, the node after
                    \* which it goes on, and what it has told so far

NoParser == [of |-> 0, next |-> 1, after |-> 0, told |-> <<>>]

Event == [label : {"create", "archive", "exercise"},
          creates : SUBSET Contract, archives : SUBSET Contract]

ReadTransaction(o) == parser' = [NoParser EXCEPT !.of = o]

Tree == history[parser.of].nodes
Current == Tree[parser.next]
Reading == parser.of # 0 /\ parser.next <= Len(Tree)
Parsed == parser.of # 0 /\ parser.next > Len(Tree)
Skipped == parser.next <= parser.after

IsHolding(c) == About[c].type = "holding"
Own(S) == {c \in S : About[c].own}

-----------------------------------------------------------------------------

\* getChildren: the holdings an exercise creates and archives, without those it
\* does both to.  Another party's archived holding is only seen if it is found.
Below(i) == (i + 1)..LastDescendant(Tree, i)
Created(I) == {Tree[j].on : j \in {k \in I : Tree[k].kind = "create" /\ IsHolding(Tree[k].on)}}
Archived(I) ==
    {Tree[j].on : j \in {k \in I : /\ Consumes(Tree[k]) /\ IsHolding(Tree[k].on)
                                   /\ About[Tree[k].on].found}}

MutantChildren(i) ==
    [creates |-> Created(Below(i)) \ Archived(Below(i)),
     archives |-> Archived(Below(i)) \ Created(Below(i))]

Children(i) ==
    [creates |-> Created(Below(i)) \ Archived({i} \cup Below(i)),
     archives |-> Archived({i} \cup Below(i)) \ Created(Below(i))]

\* sumHoldings refuses to add the amounts of two instruments.
OneInstrument(S) == \A c, d \in S : About[c].instrument = About[d].instrument
Summable(change) ==
    \A S \in {change.creates, change.archives} :
        OneInstrument(Own(S)) /\ OneInstrument(S \ Own(S))

\* An exercise it tells as a whole; one of an instruction that is not found is
\* left to its children.
Known(n) ==
    /\ n.kind = "exercise"
    /\ \/ n.choice = "known"
       \/ n.choice = "instruction" /\ About[n.on].found

Tell(label, creates, archives) ==
    IF creates \cup archives = {} THEN parser.told
    ELSE Append(parser.told, [label |-> label, creates |-> creates, archives |-> archives])

-----------------------------------------------------------------------------

\* A node below an exercise that has been told.
Skip ==
    /\ Reading /\ Skipped
    /\ parser' = [parser EXCEPT !.next = @ + 1]

\* A raw create tells a holding of the party; so does a raw archive, which looks
\* the contract up and names it as created, too, under the label Archive.
ParseRaw ==
    /\ Reading /\ ~Skipped
    /\ Current.kind \in {"create", "archive"}
    /\ LET c == Current.on
           told == IF IsHolding(c) /\ About[c].own
                   THEN Tell(Current.kind, {c}, {}) ELSE parser.told
       IN parser' = [parser EXCEPT !.next = @ + 1, !.told = told]

\* An exercise it knows.
ParseKnown ==
    /\ Reading /\ ~Skipped
    /\ Known(Current)
    /\ LET change == Children(parser.next) IN
       /\ Summable(change)
       /\ parser' = [parser EXCEPT
             !.next = @ + 1, !.after = LastDescendant(Tree, parser.next),
             !.told = Tell("exercise", Own(change.creates), Own(change.archives))]

\* Any other: its children are read one by one, and nobody tells what it consumed.
ParseOther ==
    /\ Reading /\ ~Skipped
    /\ Current.kind = "exercise" /\ ~Known(Current) /\ Current.choice # "strange"
    /\ parser' = [parser EXCEPT !.next = @ + 1]

\* An unknown tx-kind or result, or two instruments: the parser throws.
Throws ==
    /\ Reading /\ ~Skipped
    /\ \/ Current.choice = "strange"
       \/ Known(Current) /\ ~Summable(Children(parser.next))

ParserOK ==
    parser \in [of : 0..End, next : Nat \ {0}, after : Nat, told : Seq(Event)]

=============================================================================
