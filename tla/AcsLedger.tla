----------------------------- MODULE AcsLedger -----------------------------
(***************************************************************************)
(* The part of a Canton ledger that the ledger client reads: the creates   *)
(* and archives of the contracts visible under one filter, by offset, and  *)
(* the pages in which the JSON API returns updates.  All of it is external *)
(* to the repository and modelled from how core/ledger-client/src uses it. *)
(***************************************************************************)
EXTENDS Integers, FiniteSets

CONSTANTS
    Contract,   \* identifiers of the contracts that match the filter
    MaxOffset   \* the ledger end: offsets are 0..MaxOffset

ASSUME LedgerAssumption == MaxOffset \in Nat \ {0} /\ IsFiniteSet(Contract)

VARIABLES
    born,    \* born[c]: offset of the transaction that created c
    died     \* died[c]: offset of the one that archived it (MaxOffset + 1: none)

ledgerVars == <<born, died>>

Offset == 0..MaxOffset

\* A collection of active contract responses: how often each one occurs.
Count == [Contract -> Nat]
NoCount == [c \in Contract |-> 0]

(***************************************************************************)
(* The history never changes below the ledger end.  A contract created and *)
(* archived by the same transaction does not occur in it: the client asks  *)
(* for TRANSACTION_SHAPE_ACS_DELTA, which leaves those out.                *)
(***************************************************************************)
History ==
    /\ born \in [Contract -> 1..MaxOffset]
    /\ died \in [Contract -> 2..(MaxOffset + 1)]
    /\ \A c \in Contract : born[c] < died[c]

Active(c, o) == born[c] <= o /\ o < died[c]
ActiveAt(o) == [c \in Contract |-> IF Active(c, o) THEN 1 ELSE 0]

\* The offsets in (b, e] of the transactions with an event of the filter.
TxOffsets(b, e) ==
    {o \in (b + 1)..e : \E c \in Contract : born[c] = o \/ died[c] = o}

PageSize(pg) == Cardinality(pg.txs) + Cardinality(pg.checkpoints)

(***************************************************************************)
(* The pages of at most limit updates the ledger may return for (b, e]:    *)
(* the transactions up to some offset with the checkpoints it chose to     *)
(* interleave (a checkpoint at o follows the transaction at o), either all *)
(* there is or cut at the limit.                                           *)
(***************************************************************************)
Pages(b, e, limit) ==
    {pg \in UNION {[txs : {TxOffsets(b, u)}, checkpoints : SUBSET ((b + 1)..u),
                    upto : {u}] : u \in b..e} :
        \/ PageSize(pg) < limit /\ pg.upto = e
        \/ PageSize(pg) = limit /\ pg.upto \in pg.txs \cup pg.checkpoints}
=============================================================================
