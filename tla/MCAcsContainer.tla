--------------------------- MODULE MCAcsContainer ---------------------------
(***************************************************************************)
(* Small instances of AcsContainer for TLC.                                *)
(***************************************************************************)
EXTENDS AcsContainer, TLC

\* Contracts only differ by when they are born and die.
ContractSymmetry == Permutations(Contract)

\* Callers that follow the ledger: none asks for an offset that some call has
\* already gone beyond, so no call ever drops the set as too recent for it.
OffsetsGrow ==
    \A p \in Callers : \A o \in Offset : Begin(p, o) => \A q \in Callers : off[q] <= o

OrderedSpec == Init /\ [][Next /\ OffsetsGrow]_vars
=============================================================================
