--------------------------- MODULE MCTxLifecycle ---------------------------
(* Values of the constants of TxLifecycle for TLC.                         *)
EXTENDS TxLifecycle

CONSTANTS p1, p2, c1, c2, hosted, external

\* Every prepareExecute has a command id of its own (v4()).
FreshIds == [p \in Calls |-> IF p = p1 THEN c1 ELSE c2]

\* The dApp names the same command id in every call.
OneId == [p \in Calls |-> c1]

MixedCustody == [w \in Wallet |-> IF w = hosted THEN "participant" ELSE "external"]
AllExternal == [w \in Wallet |-> "external"]

\* The openings of the page are alike.
TabSymmetry == Permutations(Tabs)
=============================================================================
