----------------------------- MODULE TxApproval -----------------------------
(***************************************************************************)
(* What the gateway promises of transactions, without its pages, requests  *)
(* and statements: users approve transactions of parties; the ledger       *)
(* commits a command once for a party, and for a party that holds its own  *)
(* key only what was approved; the wallet calls nothing else executed, and *)
(* goes on calling it so unless its command id is used again.              *)
(***************************************************************************)
CONSTANTS
    Command, Tx, Party,
    KeyHolders,   \* parties for which no participant can sign
    Reused,       \* command ids that several transactions have
    NoTx, NoParty \* what a page shows that has not loaded

VARIABLES
    approved,     \* transactions of parties
    committed,    \* commands with their transaction and party
    executed,     \* executed[c]: the transaction that c's row calls executed
    told          \* commands that an event calls executed

approvalVars == <<approved, committed, executed, told>>

Init ==
    /\ approved = {} /\ committed = {} /\ told = {}
    /\ executed = [c \in Command |-> NoTx]

Approve(a) ==
    /\ approved' = approved \cup {a}
    /\ UNCHANGED <<committed, executed, told>>

\* The answer of the ledger, which announces it, may be lost.
Commit(k) ==
    /\ \A j \in committed : j.cmd # k.cmd \/ j.party # k.party
    /\ k.party \in KeyHolders => [tx |-> k.tx, party |-> k.party] \in approved
    /\ committed' = committed \cup {k}
    /\ told' \in {told, told \cup {k.cmd}}
    /\ UNCHANGED <<approved, executed>>

Record(k) ==
    /\ k \in committed
    /\ executed' = [executed EXCEPT ![k.cmd] = k.tx]
    /\ UNCHANGED <<approved, committed, told>>

\* Another transaction takes over the row.
Reuse(c) ==
    /\ executed' = [executed EXCEPT ![c] = NoTx]
    /\ UNCHANGED <<approved, committed, told>>

Next ==
    \/ \E a \in [tx : Tx \cup {NoTx}, party : Party \cup {NoParty}] : Approve(a)
    \/ \E k \in [cmd : Command, tx : Tx, party : Party] : Commit(k) \/ Record(k)
    \/ \E c \in Reused : Reuse(c)

Spec == Init /\ [][Next]_approvalVars

=============================================================================
