-------------------------- MODULE TransactionList --------------------------
(***************************************************************************)
(* listHoldingTransactions of core/ledger-client/src/token-standard-        *)
(* service.ts: the transactions after an offset, each parsed, and the       *)
(* offset to go on from.  A client keeps what it is told and lists again    *)
(* from there.                                                             *)
(***************************************************************************)
EXTENDS TxParser

VARIABLES
    list,       \* the list in progress: its end, the transactions yet to parse,
                \* the next offset it will return, and the events so far
    told,       \* the events of the lists that were returned
    after       \* the offset from which the client lists next

listing == <<parser, list, told, after>>

NoList == [at |-> "idle", end |-> 0, todo |-> {}, next |-> 0, told |-> <<>>]

ListInit ==
    /\ parser = NoParser /\ list = NoList
    /\ told = <<>> /\ after = 0

LastOf(S) == CHOOSE o \in S : \A q \in S : q <= o
FirstOf(S) == CHOOSE o \in S : \A q \in S : o <= q

\* From offset 0, or without one, it starts after what the participant has pruned,
\* here nothing.
StartList ==
    /\ list.at = "idle" /\ Spend("lists")
    /\ list' = [NoList EXCEPT !.at = "updates", !.end = End]
    /\ UNCHANGED <<inFlight, ledger, parser, told, after>>

\* The participant may send checkpoints among the transactions, or none.  The next
\* offset is the last of both, or none at all (Math.max of nothing).
MutantReadUpdates ==
    /\ list.at = "updates"
    /\ LET todo == {o \in (after + 1)..list.end : HasTransaction(o)} IN
       \E checkpoints \in {{}} \cup {{o} : o \in (after + 1)..list.end} :
          list' = [list EXCEPT !.at = "parse", !.todo = todo,
                      !.next = IF checkpoints = {} THEN 0 ELSE LastOf(checkpoints)]
    /\ UNCHANGED <<participant, parser, told, after>>

ReadUpdates ==
    /\ list.at = "updates"
    /\ LET todo == {o \in (after + 1)..list.end : HasTransaction(o)} IN
       \E checkpoints \in {{}} \cup {{o} : o \in (after + 1)..list.end} :
          list' = [list EXCEPT !.at = "parse", !.todo = todo,
                      !.next = IF todo \cup checkpoints = {} THEN 0
                               ELSE LastOf(todo \cup checkpoints)]
    /\ UNCHANGED <<participant, parser, told, after>>

\* Promise.all parses the transactions side by side; they share nothing.
ParseNext ==
    /\ list.at = "parse" /\ parser = NoParser /\ list.todo # {}
    /\ ReadTransaction(FirstOf(list.todo))
    /\ UNCHANGED <<participant, list, told, after>>

ParseStep ==
    /\ Skip \/ ParseRaw \/ ParseKnown \/ ParseOther
    /\ UNCHANGED <<participant, list, told, after>>

ParseEnd ==
    /\ Parsed
    /\ list' = [list EXCEPT !.todo = @ \ {parser.of}, !.told = @ \o parser.told]
    /\ parser' = NoParser
    /\ UNCHANGED <<participant, told, after>>

\* A client goes on from the next offset if that is one.
ReturnList ==
    /\ list.at = "parse" /\ parser = NoParser /\ list.todo = {}
    /\ told' = told \o list.told
    /\ after' = IF list.next = 0 THEN after ELSE list.next
    /\ list' = NoList
    /\ UNCHANGED <<participant, parser>>

\* One transaction that cannot be parsed, or a failed request, fails the list.
FailList ==
    /\ list.at # "idle" /\ (parser = NoParser \/ Throws)
    /\ list' = NoList /\ parser' = NoParser
    /\ UNCHANGED <<participant, told, after>>

ListNext ==
    \/ StartList \/ ReadUpdates
    \/ ParseNext \/ ParseStep \/ ParseEnd
    \/ ReturnList \/ FailList

ListOK ==
    /\ ParserOK
    /\ list \in [at : {"idle", "updates", "parse"}, end : 0..End, todo : SUBSET (1..End),
                next : 0..End, told : Seq(Event)]
    /\ list.todo \subseteq 1..list.end /\ list.next <= list.end
    /\ told \in Seq(Event)
    /\ after \in 0..End

=============================================================================
