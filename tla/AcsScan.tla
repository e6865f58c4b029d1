------------------------------ MODULE AcsScan ------------------------------
(***************************************************************************)
(* LedgerClient.fetchActiveContractsUntilComplete (core/ledger-client/src/ *)
(* ledger-client.ts): the active contracts of activeContracts({limit,      *)
(* continueUntilCompletion}), collected without the cache by reading the   *)
(* party's updates from offset 0 to the ledger end, a page at a time.      *)
(***************************************************************************)
EXTENDS Participant

CONSTANT ScanLimit   \* the caller's page limit

ASSUME LimitAssumption == ScanLimit \in Nat \ {0}

\* What it does; the ledger end, read once; currentOffset; how often each contract
\* was pushed to the result; and how many entries of the result each transaction has
\* (an entry's reassignmentCounter is the offset of its transaction).
VARIABLES scan

NoScan == [at |-> "idle", end |-> 0, current |-> 0,
           result |-> [c \in Contract |-> 0], read |-> <<>>]

ScanInit == scan = NoScan

(***************************************************************************)
(* The pages of at most ScanLimit updates the participant may return for    *)
(* (b, e]: the transactions up to some offset, with the checkpoints and     *)
(* other updates among them, all there is or cut at the limit.              *)
(***************************************************************************)
UpdatePages(b, e) ==
    {pg \in UNION {[txs : {Seen(b, u)}, others : SUBSET ((b + 1)..u), upto : {u}] : u \in b..e} :
        LET size == Cardinality(pg.txs) + Cardinality(pg.others) IN
        \/ size < ScanLimit /\ pg.upto = e
        \/ size = ScanLimit /\ pg.upto \in pg.txs \cup pg.others}

-----------------------------------------------------------------------------

\* The loop condition, currentOffset < ledgerEnd.offset.
MutantMoreLastSkipped(current, end) == current + 1 < end
More(current, end) == current < end

Stands(current, end) == IF More(current, end) THEN "scanning" ELSE "done"

\* currentOffset after a page without transactions (currentOffset++).
MutantPastNothing(o) == o
PastNothing(o) == o + 1

\* Math.max over the offsets of the page's transactions.
MutantFirstOffset(txs) == CHOOSE o \in txs : \A x \in txs : o <= x
LastOffset(txs) == CHOOSE o \in txs : \A x \in txs : x <= o

StartScan ==
    /\ scan.at = "idle" /\ Spend("scans")
    /\ scan' = [NoScan EXCEPT !.at = Stands(0, End), !.end = End,
                              !.read = [o \in 1..End |-> 0]]
    /\ UNCHANGED <<inFlight, ledger>>

\* Of every transaction of the page the first created event is pushed.
TakePage ==
    /\ scan.at = "scanning"
    /\ \E pg \in UpdatePages(scan.current, scan.end) :
        /\ \A o \in pg.txs : CreatedAt(o) # {}
        /\ \E first \in [pg.txs -> Contract] :
            /\ \A o \in pg.txs : first[o] \in CreatedAt(o)
            /\ LET next == IF pg.txs = {} THEN PastNothing(scan.current)
                           ELSE LastOffset(pg.txs)
               IN scan' = [scan EXCEPT
                    !.at = Stands(next, scan.end), !.current = next,
                    !.read = [o \in 1..scan.end |->
                        scan.read[o] + (IF o \in pg.txs THEN 1 ELSE 0)],
                    !.result = [c \in Contract |->
                        scan.result[c] + Cardinality({o \in pg.txs : first[o] = c})]]
    /\ UNCHANGED participant

\* A transaction that only archives: 'CreatedEvent not found'.
PageThrows ==
    /\ scan.at = "scanning"
    /\ \E pg \in UpdatePages(scan.current, scan.end) : \E o \in pg.txs : CreatedAt(o) = {}
    /\ scan' = [scan EXCEPT !.at = "threw"]
    /\ UNCHANGED participant

PageFails ==
    /\ scan.at = "scanning" /\ Spend("faults")
    /\ scan' = [scan EXCEPT !.at = "threw"]
    /\ UNCHANGED <<inFlight, ledger>>

ScanNext == StartScan \/ TakePage \/ PageThrows \/ PageFails

ScanOK ==
    /\ scan \in [at : {"idle", "scanning", "done", "threw"}, end : 0..End, current : 0..End,
                result : [Contract -> Nat], read : Seq(Nat)]
    /\ Len(scan.read) = scan.end
    /\ scan.current <= scan.end

=============================================================================
