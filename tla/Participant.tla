---------------------------- MODULE Participant ----------------------------
(***************************************************************************)
(* The Canton participant as the wallet SDK sees it: the updates of one     *)
(* party by offset, each with a transaction, a completion or both, and the  *)
(* submissions in flight.  External to the repository and modelled from how *)
(* core/ledger-client/src and sdk/wallet-sdk/src use it.                    *)
(*                                                                         *)
(* A transaction is the sequence of its nodes in the order of their ids;    *)
(* the depth of a node says whose descendant it is.                        *)
(***************************************************************************)
EXTENDS Integers, Sequences, FiniteSets

CONSTANTS
    Contract,
    About,      \* About[c]: what contract c is, and whose
    Command,    \* command ids
    None,
    Budgets     \* bounds: how much of each thing a behaviour does, on which contracts

\* found: events-by-contract-id answers, for the party is a stakeholder.
ASSUME ContractAssumption ==
    \A c \in Contract :
        /\ About[c].type \in {"holding", "instruction", "other"}
        /\ {About[c].own, About[c].found} \subseteq BOOLEAN
        /\ About[c].own => About[c].found

Allowance == [nodes : Nat, elsewhere : Nat, calls : Nat, lists : Nat, scans : Nat,
              streams : Nat, faults : Nat, onboards : BOOLEAN, contracts : SUBSET Contract]

ASSUME ParticipantAssumption ==
    /\ None \notin Command \cup Contract
    /\ Budgets \subseteq Allowance

VARIABLES
    life,       \* life[c]: "unborn", "active" or "archived"
    before,     \* the contracts that were active at offset 0
    draft,      \* the nodes of a transaction that is being sequenced
    history,    \* history[o]: the update at offset o
    inFlight,   \* the submissions without a completion
    hosted,     \* the participant knows the party
    budget      \* what is left of one of the Budgets

ledger == <<life, before, draft, history, hosted>>
participant == <<ledger, inFlight, budget>>

\* What an exercise is to the parser: a choice of the token standard or with a
\* tx-kind it knows; a choice of a transfer instruction; one with a tx-kind or a
\* result it does not know; any other.
ChoicesOn(c) ==
    CASE About[c].type = "holding" -> {"known", "plain"}
      [] About[c].type = "instruction" -> {"instruction", "strange"}
      [] OTHER -> {"known", "strange", "plain"}

Node == [depth : Nat, kind : {"create", "archive", "exercise"}, on : Contract,
         choice : {"none", "known", "instruction", "strange", "plain"}]

\* Two submissions of a command may have one id: call says whose they are.
Submission == [command : Command, id : Command \cup Nat, call : Nat]

Update == [nodes : Seq(Node), completes : Submission \cup {None}, ok : BOOLEAN]

End == Len(history)
HasTransaction(o) == history[o].nodes # <<>>
IsCompletion(o) == history[o].completes # None

\* Node j is the last of the subtree of node i.
Ends(nodes, i, j) ==
    /\ \A k \in (i + 1)..j : nodes[k].depth > nodes[i].depth
    /\ j < Len(nodes) => nodes[j + 1].depth <= nodes[i].depth
LastDescendant(nodes, i) == CHOOSE j \in i..Len(nodes) : Ends(nodes, i, j)

\* The consuming choices: those on holdings and instructions, and Archive.
Consumes(n) ==
    \/ n.kind = "archive"
    \/ n.kind = "exercise" /\ About[n.on].type # "other"

Stake(c) == About[c].found

\* The participant sends what a transaction leaves behind (ACS_DELTA): neither a
\* contract it creates and consumes, nor one the party has no stake in.
NodesAt(o) == {history[o].nodes[i] : i \in DOMAIN history[o].nodes}
BornAt(o) == {n.on : n \in {m \in NodesAt(o) : m.kind = "create"}}
GoneAt(o) == {n.on : n \in {m \in NodesAt(o) : Consumes(m)}}
CreatedAt(o) == {c \in BornAt(o) \ GoneAt(o) : Stake(c)}
ArchivedAt(o) == {c \in GoneAt(o) \ BornAt(o) : Stake(c)}
Seen(b, e) == {o \in (b + 1)..e : CreatedAt(o) \cup ArchivedAt(o) # {}}

\* A completion with a transaction: its command took effect.
Committed(command) ==
    \E o \in 1..End : /\ IsCompletion(o) /\ history[o].ok
                      /\ history[o].completes.command = command

-----------------------------------------------------------------------------

ParticipantInit ==
    /\ budget \in Budgets
    /\ \E S \in SUBSET budget.contracts :
          /\ \A c \in budget.contracts : About[c].type = "other" => c \in S
          /\ before = S
          /\ life = [c \in Contract |-> IF c \in S THEN "active" ELSE "unborn"]
    /\ draft = <<>> /\ history = <<>> /\ inFlight = {}
    /\ hosted \in BOOLEAN

Spend(on) == budget[on] > 0 /\ budget' = [budget EXCEPT ![on] = @ - 1]

\* A node of the transaction that comes next.
Perform(n) ==
    /\ Spend("nodes") /\ n.on \in budget.contracts
    /\ n.depth <= IF draft = <<>> THEN 0
                  ELSE LET top == draft[Len(draft)] IN
                       top.depth + (IF top.kind = "exercise" THEN 1 ELSE 0)
    /\ life[n.on] = IF n.kind = "create" THEN "unborn" ELSE "active"
    /\ n.kind = "archive" => About[n.on].type # "other"
    /\ IF n.kind = "exercise" THEN n.choice \in ChoicesOn(n.on) ELSE n.choice = "none"
    /\ life' = [life EXCEPT ![n.on] = IF n.kind = "create" THEN "active"
                                      ELSE IF Consumes(n) THEN "archived" ELSE @]
    /\ draft' = Append(draft, n)
    /\ UNCHANGED <<before, history, inFlight, hosted>>

Record(update) == history' = Append(history, update)

\* The transaction of a submission or, for None, of somebody else.  A command
\* that took effect does not do so again.
Commit(s) ==
    /\ draft # <<>>
    /\ s # None => ~Committed(s.command)
    /\ Record([nodes |-> draft, completes |-> s, ok |-> TRUE])
    /\ draft' = <<>> /\ inFlight' = inFlight \ {s}
    /\ UNCHANGED <<life, before, hosted, budget>>

Reject(s) ==
    /\ draft = <<>>
    /\ Record([nodes |-> <<>>, completes |-> s, ok |-> FALSE])
    /\ inFlight' = inFlight \ {s}
    /\ UNCHANGED <<life, before, draft, hosted, budget>>

\* A reassignment, a topology transaction or another party's transaction.
Elsewhere ==
    /\ draft = <<>> /\ Spend("elsewhere")
    /\ Record([nodes |-> <<>>, completes |-> None, ok |-> TRUE])
    /\ UNCHANGED <<life, before, draft, inFlight, hosted>>

HostParty ==
    /\ ~hosted /\ draft = <<>>
    /\ hosted' = TRUE
    /\ UNCHANGED <<life, before, draft, history, inFlight, budget>>

ParticipantNext ==
    \/ \E d \in 0..Len(draft), c \in Contract :
          \/ \E kind \in {"create", "archive"} :
                Perform([depth |-> d, kind |-> kind, on |-> c, choice |-> "none"])
          \/ \E choice \in ChoicesOn(c) :
                Perform([depth |-> d, kind |-> "exercise", on |-> c, choice |-> choice])
    \/ \E s \in inFlight \cup {None} : Commit(s)
    \/ \E s \in inFlight : Reject(s)
    \/ Elsewhere
    \/ HostParty

\* A post of a submission that the participant takes.
Accept(s) == inFlight' = inFlight \cup {s}

ParticipantOK ==
    /\ life \in [Contract -> {"unborn", "active", "archived"}]
    /\ before \subseteq Contract
    /\ draft \in Seq(Node) /\ history \in Seq(Update)
    /\ inFlight \subseteq Submission
    /\ hosted \in BOOLEAN /\ budget \in Allowance

=============================================================================
