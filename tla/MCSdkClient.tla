---------------------------- MODULE MCSdkClient ----------------------------
(* Contracts for TLC: two holdings of the party, of two instruments; another *)
(* party's holding, which is not found; an instruction; a rules contract.   *)
EXTENDS SdkClient, TLC

CONSTANTS mine1, mine2, theirs, instruction, rules, x, y

Is(type, own, found, instrument) ==
    [type |-> type, own |-> own, found |-> found, instrument |-> instrument]

Contracts ==
    mine1 :> Is("holding", TRUE, TRUE, x)
    @@ mine2 :> Is("holding", TRUE, TRUE, y)
    @@ theirs :> Is("holding", FALSE, FALSE, x)
    @@ instruction :> Is("instruction", FALSE, TRUE, x)
    @@ rules :> Is("other", FALSE, FALSE, x)

Budget(nodes, elsewhere, calls_, lists, scans, streams, faults, onboards, contracts) ==
    [nodes |-> nodes, elsewhere |-> elsewhere, calls |-> calls_, lists |-> lists,
     scans |-> scans, streams |-> streams, faults |-> faults,
     onboards |-> onboards, contracts |-> contracts]

\* Transactions of three nodes and one list; of two, with other updates and two
\* lists; transactions and a scan; two calls that both take effect, or that fail; a
\* party to wait for, a call and a list; a stream over
\* transactions and other updates, with a failure.
Mixed ==
    {Budget(3, 0, 0, 1, 0, 0, 0, FALSE, {mine1, mine2, rules}),
     Budget(2, 1, 0, 2, 0, 0, 0, FALSE, {mine1, theirs, instruction}),
     Budget(3, 1, 0, 0, 1, 0, 0, FALSE, {mine1, mine2}),
     Budget(2, 0, 2, 0, 0, 0, 0, FALSE, {mine1}),
     Budget(1, 0, 2, 0, 0, 0, 1, FALSE, {mine1}),
     Budget(1, 1, 1, 1, 1, 0, 1, TRUE, {mine1}),
     Budget(2, 2, 0, 0, 0, 1, 1, FALSE, {mine1})}

\* A scan alone, and a stream alone, over a few transactions.
OnlyScan == {Budget(3, 0, 0, 0, 1, 0, 0, FALSE, {mine1, mine2})}
OnlyStream == {Budget(2, 0, 0, 0, 0, 1, 1, FALSE, {mine1})}

=============================================================================
