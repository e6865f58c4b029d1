------------------------- MODULE AcsContainerProofs -------------------------
(***************************************************************************)
(* Proofs about AcsContainer: its types for any number of callers, and for *)
(* serial use the cache invariant and the implementation of AcsOracle.     *)
(***************************************************************************)
EXTENDS AcsContainer, FiniteSetTheorems, WellFoundedInduction, TLAPS

\* One call of update() at a time, a second caller does not exist, and snapshots
\* over HTTP: a socket that closes early leaves a snapshot that is not complete.
Serial == (\A p, q \in Callers : p = q) /\ OverSocket = FALSE

(***************************************************************************)
(* Pages and offsets                                                       *)
(***************************************************************************)

\* A nonempty set of offsets has a largest element.
LEMMA LastExists ==
    ASSUME NEW S \in SUBSET Offset, S # {}
    PROVE  \E o \in S : \A x \in S : x <= o
<1> DEFINE T == {MaxOffset - x : x \in S}
<1>1. T \subseteq Nat /\ T # {}
    BY LedgerAssumption DEF Offset
<1>2. PICK m \in T : \A y \in T : <<y, m>> \notin OpToRel(<, Nat)
    BY <1>1, NatLessThanWellFounded, WFMin
<1>3. \A y \in T : ~(y < m)
    BY <1>1, <1>2, Zenon DEF OpToRel
<1>4. PICK o \in S : m = MaxOffset - o
    BY <1>2
<1>5. ASSUME NEW x \in S PROVE x <= o
    <2>1. ~(MaxOffset - x < m)
        BY <1>3
    <2> QED BY <2>1, <1>4, LedgerAssumption DEF Offset
<1> QED BY <1>5

\* What a page of (b, e] holds.
LEMMA PageShape ==
    ASSUME NEW b \in Offset, NEW e \in Offset, b <= e,
           NEW pg \in Pages(b, e, MaxUpdates)
    PROVE  /\ pg.upto \in b..e
           /\ pg.upto \in Offset
           /\ pg.txs = TxOffsets(b, pg.upto)
           /\ pg.txs \in SUBSET Offset
           /\ pg.checkpoints \in SUBSET ((b + 1)..pg.upto)
           /\ pg.checkpoints \in SUBSET Offset
           /\ PageSize(pg) < MaxUpdates => pg.upto = e
           /\ PageSize(pg) >= MaxUpdates => pg.upto \in pg.txs \cup pg.checkpoints
<1>1. PICK u \in b..e : pg \in [txs : {TxOffsets(b, u)},
                                checkpoints : SUBSET ((b + 1)..u), upto : {u}]
    BY DEF Pages
<1>2. /\ pg.upto = u
      /\ pg.txs = TxOffsets(b, u)
      /\ pg.checkpoints \in SUBSET ((b + 1)..u)
    BY <1>1
<1>3. \/ PageSize(pg) < MaxUpdates /\ pg.upto = e
      \/ PageSize(pg) = MaxUpdates /\ pg.upto \in pg.txs \cup pg.checkpoints
    BY DEF Pages
<1>4. u \in Offset /\ (b + 1)..u \subseteq Offset
    BY LedgerAssumption DEF Offset
<1>5. TxOffsets(b, u) \subseteq Offset
    BY <1>4 DEF TxOffsets
<1>6. PageSize(pg) \in Nat
    <2>1. IsFiniteSet(0..MaxOffset)
        BY FS_Interval, LedgerAssumption
    <2>2. IsFiniteSet(pg.txs) /\ IsFiniteSet(pg.checkpoints)
        BY <1>2, <1>4, <1>5, <2>1, FS_Subset DEF Offset
    <2> QED BY <2>2, FS_CardinalityType DEF PageSize
<1>7. /\ PageSize(pg) < MaxUpdates => pg.upto = e
      /\ PageSize(pg) >= MaxUpdates => pg.upto \in pg.txs \cup pg.checkpoints
    BY <1>3, <1>6, ConfigAssumption
<1> QED BY <1>2, <1>4, <1>5, <1>6, <1>7

\* NewOffset is the old offset if the page brings nothing, and otherwise the
\* largest of the offsets it brings.
LEMMA NewOffsetIsLast ==
    ASSUME NEW b \in Offset, NEW pg, pg.txs \in SUBSET Offset,
           pg.checkpoints \in SUBSET Offset
    PROVE  LET S == Accepted(b, pg) \cup pg.checkpoints IN
           /\ NewOffset(b, pg) \in Offset
           /\ S = {} => NewOffset(b, pg) = b
           /\ S # {} => /\ NewOffset(b, pg) \in S
                        /\ \A x \in S : x <= NewOffset(b, pg)
<1> DEFINE S == Accepted(b, pg) \cup pg.checkpoints
<1>1. S \in SUBSET Offset
    BY DEF Accepted
<1>2. CASE S = {}
    BY <1>2 DEF NewOffset
<1>3. CASE S # {}
    <2>1. \E o \in S : \A x \in S : x <= o
        BY <1>1, <1>3, LastExists
    <2>2. NewOffset(b, pg) = CHOOSE o \in S : \A x \in S : x <= o
        BY <1>3 DEF NewOffset
    <2>3. NewOffset(b, pg) \in S /\ \A x \in S : x <= NewOffset(b, pg)
        BY <2>1, <2>2
    <2> QED BY <1>1, <1>3, <2>3
<1> QED BY <1>2, <1>3

(***************************************************************************)
(* Types, for any number of callers                                        *)
(***************************************************************************)

LEMMA CountType ==
    /\ NoCount \in Count
    /\ \A o \in Offset : ActiveAt(o) \in Count
    BY DEF NoCount, Count, ActiveAt

LEMMA CalculateAtType ==
    ASSUME NEW a \in AcsSet, NEW o
    PROVE  CalculateAt(a, o) \in Count
<1>1. \A c \in Contract : a.initial[c] \in Nat /\ a.created[c] \in Nat
    BY DEF AcsSet, Count
<1> QED BY <1>1 DEF CalculateAt, Count

LEMMA SnapshotsType ==
    ASSUME NEW o \in Offset
    PROVE  Snapshots(o) \subseteq Count
<1>1. CASE OverSocket
    BY <1>1 DEF Snapshots, Count
<1>2. CASE ~OverSocket
    BY <1>2, CountType DEF Snapshots
<1> QED BY <1>1, <1>2

LEMMA FreshAcsType ==
    ASSUME NEW o \in Offset, NEW active \in Snapshots(o)
    PROVE  FreshAcs(o, active) \in AcsSet
    BY CountType, SnapshotsType DEF FreshAcs, AcsSet

LEMMA CompactType ==
    ASSUME NEW a \in AcsSet
    PROVE  Compact(a) \in AcsSet
<1> DEFINE n == a.last - SafeDelta
<1>1. CASE ~(n > a.acsOffset)
    BY <1>1 DEF Compact
<1>2. CASE n > a.acsOffset
    <2>1. n \in Offset
        BY <1>2, ConfigAssumption, LedgerAssumption DEF AcsSet, Offset
    <2>2. CalculateAt(a, n) \in Count
        BY CalculateAtType
    <2>3. /\ [c \in Contract |-> IF born[c] > n THEN a.created[c] ELSE 0] \in Count
          /\ [c \in Contract |-> IF died[c] > n THEN a.archived[c] ELSE 0] \in Count
        BY DEF AcsSet, Count
    <2> QED BY <1>2, <2>1, <2>2, <2>3 DEF Compact, AcsSet
<1> QED BY <1>1, <1>2

LEMMA AbsorbType ==
    ASSUME NEW a \in AcsSet, NEW pg, pg.txs \in SUBSET Offset,
           pg.checkpoints \in SUBSET Offset
    PROVE  Absorb(a, pg) \in AcsSet
<1> DEFINE taken == Accepted(a.last, pg)
<1>1. NewOffset(a.last, pg) \in Offset
    BY NewOffsetIsLast DEF AcsSet
<1>2. /\ [c \in Contract |-> a.created[c] + (IF born[c] \in taken THEN 1 ELSE 0)] \in Count
      /\ [c \in Contract |-> a.archived[c] + (IF died[c] \in taken THEN 1 ELSE 0)] \in Count
    BY DEF AcsSet, Count
<1> QED BY <1>1, <1>2 DEF Absorb, AcsSet

\* Entering update() on a well-typed set keeps the types.
LEMMA EnterType ==
    ASSUME TypeOK, NEW p \in Callers, NEW o \in Offset,
           NEW a \in AcsSet \cup {NoAcs}, Enter(p, o, a)
    PROVE  /\ acs' \in AcsSet \cup {NoAcs}
           /\ pc' \in [Callers -> Waiting \cup Settled]
           /\ from' \in [Callers -> Offset]
           /\ snap' \in [Callers -> AcsSet \cup {NoAcs}]
<1>1. a # NoAcs => a.last \in Offset
    BY DEF AcsSet
<1> QED BY <1>1 DEF Enter, Usable, TypeOK, Waiting

\* A compaction in progress has a set to work on.
SnapHeld == \A p \in Callers : pc[p] = "compacting" => snap[p] # NoAcs
TypeInv == TypeOK /\ SnapHeld

LEMMA EnterSnapHeld ==
    ASSUME TypeInv, NEW p \in Callers, NEW o \in Offset,
           NEW a \in AcsSet \cup {NoAcs}, Enter(p, o, a)
    PROVE  SnapHeld'
<1>1. a # NoAcs \/ ~Usable(a, o)
    BY DEF Usable
<1> QED BY <1>1 DEF Enter, Usable, TypeInv, SnapHeld, TypeOK

LEMMA TypeInvStep == TypeInv /\ [Next]_vars => TypeInv'
<1> SUFFICES ASSUME TypeInv, [Next]_vars PROVE TypeInv'
    OBVIOUS
<1> USE DEF Settled, Waiting
<1>1. ASSUME NEW p \in Callers, NEW o \in Offset, Begin(p, o) PROVE TypeInv'
    <2>1. acs \in AcsSet \cup {NoAcs} /\ Enter(p, o, acs)
        BY <1>1 DEF TypeInv, TypeOK, Begin
    <2>2. /\ off' \in [Callers -> Offset]
          /\ res' \in [Callers -> Count]
          /\ calls' \in Nat
        BY <1>1, CountType DEF TypeInv, TypeOK, Begin
    <2>3. TypeOK'
        BY <1>1, <2>1, <2>2, EnterType DEF TypeInv, TypeOK, Begin, History, ledgerVars
    <2> QED BY <2>1, <2>3, EnterSnapHeld DEF TypeInv
<1>2. ASSUME NEW p \in Callers, SnapshotRead(p) PROVE TypeInv'
    <2>0. PICK active \in Snapshots(off[p]) :
            /\ acs' = FreshAcs(off[p], active)
            /\ res' = [res EXCEPT ![p] = CalculateAt(FreshAcs(off[p], active), off[p])]
        BY <1>2 DEF SnapshotRead
    <2>1. acs' \in AcsSet
        BY <2>0, FreshAcsType DEF TypeInv, TypeOK
    <2>2. res' \in [Callers -> Count]
        BY <2>0, <2>1, CalculateAtType DEF TypeInv, TypeOK
    <2> QED BY <1>2, <2>1, <2>2 DEF TypeInv, TypeOK, SnapHeld, SnapshotRead, History
<1>3. ASSUME NEW p \in Callers, Compacted(p) PROVE TypeInv'
    <2>1. snap[p] \in AcsSet
        BY <1>3 DEF TypeInv, TypeOK, SnapHeld, Compacted
    <2>2. Compact(snap[p]) \in AcsSet /\ snap[p].last \in Offset
        BY <2>1, CompactType DEF AcsSet
    <2> QED BY <1>3, <2>2 DEF TypeInv, TypeOK, SnapHeld, Compacted, History
<1>4. ASSUME NEW p \in Callers, FullPage(p) PROVE TypeInv'
    <2>1. PICK pg \in Pages(from[p], off[p], MaxUpdates) :
            Enter(p, off[p], Absorb(acs, pg))
        BY <1>4 DEF FullPage
    <2>2. /\ from[p] \in Offset /\ off[p] \in Offset /\ from[p] <= off[p]
          /\ acs \in AcsSet
        BY <1>4 DEF TypeInv, TypeOK, FullPage, RangeServed
    <2>3. Absorb(acs, pg) \in AcsSet
        BY <2>2, PageShape, AbsorbType
    <2>4. TypeOK'
        BY <1>4, <2>1, <2>2, <2>3, EnterType DEF TypeInv, TypeOK, FullPage, History
    <2> QED BY <2>1, <2>2, <2>3, <2>4, EnterSnapHeld DEF TypeInv
<1>5. ASSUME NEW p \in Callers, LastPage(p) PROVE TypeInv'
    <2>1. PICK pg \in Pages(from[p], off[p], MaxUpdates) :
            LET a == CaughtUp(Absorb(acs, pg), off[p]) IN
            /\ acs' = a
            /\ \/ /\ res' = [res EXCEPT ![p] = CalculateAt(a, off[p])]
                  /\ pc' = [pc EXCEPT ![p] = "ok"]
               \/ /\ pc' = [pc EXCEPT ![p] = "cannotCalculate"]
                  /\ UNCHANGED res
        BY <1>5, Zenon DEF LastPage
    <2>2. /\ from[p] \in Offset /\ off[p] \in Offset /\ from[p] <= off[p]
          /\ acs \in AcsSet
        BY <1>5 DEF TypeInv, TypeOK, LastPage, RangeServed
    <2>3. Absorb(acs, pg) \in AcsSet
        BY <2>2, PageShape, AbsorbType
    <2>4. CaughtUp(Absorb(acs, pg), off[p]) \in AcsSet
        BY <2>2, <2>3 DEF AcsSet, CaughtUp
    <2>5. CalculateAt(CaughtUp(Absorb(acs, pg), off[p]), off[p]) \in Count
        BY <2>4, CalculateAtType
    <2> QED BY <1>5, <2>1, <2>4, <2>5 DEF TypeInv, TypeOK, SnapHeld, LastPage, History
<1>6. ASSUME NEW p \in Callers, PageWithoutSet(p) PROVE TypeInv'
    BY <1>6 DEF TypeInv, TypeOK, SnapHeld, PageWithoutSet, History
<1>7. ASSUME NEW p \in Callers, RequestFailed(p) PROVE TypeInv'
    BY <1>7 DEF TypeInv, TypeOK, SnapHeld, RequestFailed, History
<1>8. CASE UNCHANGED vars
    BY <1>8 DEF TypeInv, TypeOK, SnapHeld, vars, History
<1> QED BY <1>1, <1>2, <1>3, <1>4, <1>5, <1>6, <1>7, <1>8 DEF Next, Resume

\* Every state of AcsContainer is well typed: offsets stay within the ledger,
\* and the cached set keeps its shape through paging, compaction and reset.
THEOREM TypeCorrect == Spec => []TypeOK
<1>1. Init => TypeInv
    BY CountType, LedgerAssumption DEF Init, TypeInv, TypeOK, SnapHeld, Offset, Settled
<1>2. TypeInv => TypeOK
    BY DEF TypeInv
<1> QED BY <1>1, <1>2, TypeInvStep, PTL DEF Spec

(***************************************************************************)
(* The helpers on a faithful set                                           *)
(***************************************************************************)

LEMMA FreshAcsFaithful ==
    ASSUME History, NEW o \in Offset
    PROVE  /\ Faithful(FreshAcs(o, ActiveAt(o)))
           /\ FreshAcs(o, ActiveAt(o)).acsOffset = o
           /\ FreshAcs(o, ActiveAt(o)).last = o
    BY LedgerAssumption DEF Faithful, FreshAcs, ActiveAt, NoCount, Offset, History

\* From its snapshot to its last update, a faithful set gives exact answers.
LEMMA CalculateAtExact ==
    ASSUME History, NEW a \in AcsSet, Faithful(a), NEW o \in Offset,
           a.acsOffset <= o, o <= a.last
    PROVE  CalculateAt(a, o) = ActiveAt(o)
<1> SUFFICES ASSUME NEW c \in Contract
             PROVE  CalculateAt(a, o)[c] = ActiveAt(o)[c]
    BY DEF CalculateAt, ActiveAt
<1>1. /\ a.acsOffset \in Int /\ a.last \in Int /\ o \in Int
      /\ born[c] \in Int /\ died[c] \in Int /\ born[c] < died[c]
    BY LedgerAssumption DEF AcsSet, Offset, History
<1>2. /\ a.initial[c] = (IF Active(c, a.acsOffset) THEN 1 ELSE 0)
      /\ a.created[c] = (IF a.acsOffset < born[c] /\ born[c] <= a.last THEN 1 ELSE 0)
      /\ a.archived[c] = (IF a.acsOffset < died[c] /\ died[c] <= a.last THEN 1 ELSE 0)
    BY DEF Faithful
<1> QED BY <1>1, <1>2 DEF CalculateAt, ActiveAt, Active

LEMMA CompactFaithful ==
    ASSUME History, NEW a \in AcsSet, Faithful(a)
    PROVE  Faithful(Compact(a)) /\ Compact(a).last = a.last
<1> DEFINE n == a.last - SafeDelta
<1>1. CASE ~(n > a.acsOffset)
    BY <1>1 DEF Compact
<1>2. CASE n > a.acsOffset
    <2>1. n \in Offset /\ a.acsOffset <= n /\ n <= a.last /\ a.acsOffset \in Int
          /\ a.last \in Int /\ n \in Int
        BY <1>2, ConfigAssumption, LedgerAssumption DEF AcsSet, Offset
    <2>2. CalculateAt(a, n) = ActiveAt(n)
        BY <2>1, CalculateAtExact
    <2>3. /\ Compact(a).acsOffset = n
          /\ Compact(a).last = a.last
          /\ \A c \in Contract :
                /\ Compact(a).initial[c] = ActiveAt(n)[c]
                /\ Compact(a).created[c] = IF born[c] > n THEN a.created[c] ELSE 0
                /\ Compact(a).archived[c] = IF died[c] > n THEN a.archived[c] ELSE 0
        BY <1>2, <2>2 DEF Compact
    <2>4. \A c \in Contract : born[c] \in Int /\ died[c] \in Int
        BY LedgerAssumption DEF History
    <2> HIDE DEF n
    <2> QED BY <2>1, <2>3, <2>4 DEF Faithful, ActiveAt
<1> QED BY <1>1, <1>2

\* A page that begins at the last update adds exactly the events up to where
\* the page ends, and leaves no event behind between there and the new last.
LEMMA AbsorbEffect ==
    ASSUME History, NEW a \in AcsSet, Faithful(a), NEW e \in Offset,
           a.last <= e, NEW pg \in Pages(a.last, e, MaxUpdates)
    PROVE  LET n == Absorb(a, pg) IN
           /\ n \in AcsSet
           /\ n.acsOffset = a.acsOffset
           /\ n.last \in a.last..pg.upto
           /\ TxOffsets(n.last, pg.upto) = {}
           /\ \A c \in Contract :
                /\ n.initial[c] = a.initial[c]
                /\ n.created[c] = (IF a.acsOffset < born[c] /\ born[c] <= pg.upto THEN 1 ELSE 0)
                /\ n.archived[c] = (IF a.acsOffset < died[c] /\ died[c] <= pg.upto THEN 1 ELSE 0)
<1> DEFINE b == a.last
           S == Accepted(b, pg) \cup pg.checkpoints
           last == NewOffset(b, pg)
<1>1. /\ b \in Offset /\ b \in Int
      /\ a.acsOffset \in Int /\ a.acsOffset <= b
      /\ \A c \in Contract : born[c] \in Int /\ died[c] \in Int
    BY LedgerAssumption DEF AcsSet, Offset, History, Faithful
<1>2. /\ pg.upto \in b..e /\ pg.upto \in Int
      /\ pg.txs = TxOffsets(b, pg.upto)
      /\ pg.txs \in SUBSET Offset
      /\ pg.checkpoints \in SUBSET Offset
      /\ pg.checkpoints \in SUBSET ((b + 1)..pg.upto)
    BY <1>1, PageShape, LedgerAssumption DEF Offset
<1>3. Accepted(b, pg) = TxOffsets(b, pg.upto)
    BY <1>1, <1>2 DEF Accepted, TxOffsets
<1>4. /\ last \in Offset /\ last \in Int
      /\ S = {} => last = b
      /\ S # {} => last \in S /\ \A x \in S : x <= last
    BY <1>1, <1>2, NewOffsetIsLast, LedgerAssumption DEF Offset
<1>5. S \subseteq (b + 1)..pg.upto
    BY <1>1, <1>2, <1>3 DEF TxOffsets
<1>6. last \in b..pg.upto
    BY <1>1, <1>2, <1>4, <1>5
<1>7. TxOffsets(last, pg.upto) = {}
    <2> SUFFICES ASSUME NEW x \in TxOffsets(last, pg.upto) PROVE FALSE
        OBVIOUS
    <2>1. x \in TxOffsets(b, pg.upto) /\ x > last /\ x \in Int
        BY <1>1, <1>2, <1>4, <1>6 DEF TxOffsets
    <2> QED BY <2>1, <1>3, <1>4
<1>8. \A c \in Contract :
        /\ born[c] \in Accepted(b, pg) <=> b < born[c] /\ born[c] <= pg.upto
        /\ died[c] \in Accepted(b, pg) <=> b < died[c] /\ died[c] <= pg.upto
    BY <1>1, <1>2, <1>3 DEF TxOffsets
<1>9. CASE last > b
    <2>1. /\ Absorb(a, pg).acsOffset = a.acsOffset
          /\ Absorb(a, pg).last = last
          /\ \A c \in Contract :
                /\ Absorb(a, pg).initial[c] = a.initial[c]
                /\ Absorb(a, pg).created[c] =
                        a.created[c] + (IF born[c] \in Accepted(b, pg) THEN 1 ELSE 0)
                /\ Absorb(a, pg).archived[c] =
                        a.archived[c] + (IF died[c] \in Accepted(b, pg) THEN 1 ELSE 0)
        BY <1>9 DEF Absorb, AcsSet
    <2>2. Absorb(a, pg) \in AcsSet
        BY <1>2, AbsorbType
    <2> HIDE DEF last
    <2> QED BY <1>1, <1>2, <1>6, <1>7, <1>8, <2>1, <2>2 DEF Faithful
<1>10. CASE ~(last > b)
    <2>1. Absorb(a, pg) = a
        BY <1>10 DEF Absorb
    <2>2. last = b
        BY <1>1, <1>4, <1>6, <1>10
    <2>3. TxOffsets(b, pg.upto) = {}
        BY <1>7, <2>2
    <2>4. \A c \in Contract :
            /\ ~(b < born[c] /\ born[c] <= pg.upto)
            /\ ~(b < died[c] /\ died[c] <= pg.upto)
        BY <1>3, <1>8, <2>3
    <2> QED BY <1>1, <1>2, <2>1, <2>3, <2>4 DEF Faithful
<1> QED BY <1>9, <1>10

LEMMA AbsorbFaithful ==
    ASSUME History, NEW a \in AcsSet, Faithful(a), NEW e \in Offset,
           a.last <= e, NEW pg \in Pages(a.last, e, MaxUpdates)
    PROVE  /\ Faithful(Absorb(a, pg))
           /\ PageSize(pg) < MaxUpdates => Faithful(CaughtUp(Absorb(a, pg), e))
<1> DEFINE n == Absorb(a, pg)
<1>1. /\ n \in AcsSet
      /\ n.acsOffset = a.acsOffset
      /\ n.last \in a.last..pg.upto
      /\ TxOffsets(n.last, pg.upto) = {}
      /\ \A c \in Contract :
            /\ n.initial[c] = a.initial[c]
            /\ n.created[c] = (IF a.acsOffset < born[c] /\ born[c] <= pg.upto THEN 1 ELSE 0)
            /\ n.archived[c] = (IF a.acsOffset < died[c] /\ died[c] <= pg.upto THEN 1 ELSE 0)
    BY AbsorbEffect
<1>2. /\ a.acsOffset \in Int /\ a.last \in Int /\ a.acsOffset <= a.last
      /\ pg.upto \in a.last..e /\ pg.upto \in Int /\ n.last \in Int
      /\ \A c \in Contract : born[c] \in Int /\ died[c] \in Int
      /\ PageSize(pg) < MaxUpdates => pg.upto = e
    BY <1>1, PageShape, LedgerAssumption DEF AcsSet, Offset, History, Faithful
<1>3. \A c \in Contract : /\ ~(n.last < born[c] /\ born[c] <= pg.upto)
                          /\ ~(n.last < died[c] /\ died[c] <= pg.upto)
    BY <1>1, <1>2 DEF TxOffsets
<1>4. /\ CaughtUp(n, e).acsOffset = n.acsOffset
      /\ CaughtUp(n, e).last = e
      /\ CaughtUp(n, e).initial = n.initial
      /\ CaughtUp(n, e).created = n.created
      /\ CaughtUp(n, e).archived = n.archived
    BY <1>1 DEF CaughtUp, AcsSet
<1>5. \A c \in Contract : n.initial[c] = (IF Active(c, a.acsOffset) THEN 1 ELSE 0)
    BY <1>1 DEF Faithful
<1> HIDE DEF n
<1>6. Faithful(n)
    BY <1>1, <1>2, <1>3, <1>5 DEF Faithful
<1>7. PageSize(pg) < MaxUpdates => Faithful(CaughtUp(n, e))
    BY <1>1, <1>2, <1>4, <1>5 DEF Faithful
<1> QED BY <1>6, <1>7 DEF n

(***************************************************************************)
(* The cache invariant of serial use                                       *)
(***************************************************************************)

\* Entering update() leaves the set or drops it, and what the call remembers
\* of the set is still true of it.
LEMMA EnterInFlight ==
    ASSUME Serial, TypeOK, NEW p \in Callers, NEW o \in Offset,
           NEW a \in AcsSet \cup {NoAcs}, Enter(p, o, a)
    PROVE  /\ acs' = NoAcs \/ acs' = a
           /\ pc'[p] \in Waiting
           /\ pc'[p] = "compacting" => acs' # NoAcs /\ snap'[p] = acs'
           /\ pc'[p] = "fetching" => acs' # NoAcs /\ from'[p] = acs'.last
<1>1. ~Usable(a, o) \/ a # NoAcs
    BY DEF Usable
<1> QED BY <1>1 DEF Enter, Usable, TypeOK, Waiting

\* What the actions leave alone, put together with what they establish.
LEMMA CacheInvFrom ==
    ASSUME Serial, NEW p \in Callers, TypeOK', UNCHANGED ledgerVars,
           acs' # NoAcs => Faithful(acs'),
           pc'[p] = "compacting" => acs' # NoAcs /\ snap'[p] = acs',
           pc'[p] = "fetching" => acs' # NoAcs /\ from'[p] = acs'.last,
           pc'[p] = "ok" => res'[p] = ActiveAt(off'[p]),
           pc'[p] \notin {"cannotCalculate", "typeError"}
    PROVE  CacheInv'
<1>1. (acs # NoAcs => Faithful(acs))'
    BY DEF Faithful, Active, ledgerVars
<1>2. \A q \in Callers : q = p
    BY DEF Serial
<1>3. (\A q \in Callers : InFlight(q))'
    BY <1>2 DEF InFlight
<1>4. ExactAtOffset'
    BY <1>2 DEF ExactAtOffset, ActiveAt, Active, ledgerVars
<1>5. NeverBeforeSnapshot' /\ SetNeverLost'
    BY <1>2 DEF NeverBeforeSnapshot, SetNeverLost
<1> QED BY <1>1, <1>3, <1>4, <1>5 DEF CacheInv

LEMMA CacheInvStep ==
    ASSUME Serial, TypeInv, CacheInv, [Next]_vars
    PROVE  CacheInv'
<1> USE DEF Settled, Waiting
<1>1. TypeInv'
    BY TypeInvStep
<1>2. TypeOK /\ TypeOK' /\ History
    BY <1>1 DEF TypeInv, TypeOK
<1>3. ASSUME NEW p \in Callers, NEW o \in Offset, Begin(p, o) PROVE CacheInv'
    <2>1. /\ acs \in AcsSet \cup {NoAcs} /\ Enter(p, o, acs)
          /\ acs # NoAcs => Faithful(acs)
          /\ UNCHANGED ledgerVars
        BY <1>2, <1>3 DEF TypeOK, Begin, CacheInv
    <2>2. /\ acs' = NoAcs \/ acs' = acs
          /\ pc'[p] \in Waiting
          /\ pc'[p] = "compacting" => acs' # NoAcs /\ snap'[p] = acs'
          /\ pc'[p] = "fetching" => acs' # NoAcs /\ from'[p] = acs'.last
        BY <1>2, <2>1, EnterInFlight
    <2> QED BY <1>2, <2>1, <2>2, CacheInvFrom
<1>4. ASSUME NEW p \in Callers, SnapshotRead(p) PROVE CacheInv'
    <2> DEFINE fresh == FreshAcs(off[p], ActiveAt(off[p]))
    <2>0. Snapshots(off[p]) = {ActiveAt(off[p])}
        BY DEF Snapshots, Serial
    <2>1. off[p] \in Offset /\ fresh \in AcsSet
        BY <1>2, <2>0, FreshAcsType DEF TypeOK
    <2>2. /\ Faithful(fresh)
          /\ CalculateAt(fresh, off[p]) = ActiveAt(off[p])
        <3>1. off[p] <= off[p]
            BY <2>1, LedgerAssumption DEF Offset
        <3> QED BY <1>2, <2>1, <3>1, FreshAcsFaithful, CalculateAtExact
    <2>3. /\ acs' = fresh
          /\ pc'[p] = "ok"
          /\ res'[p] = ActiveAt(off'[p])
          /\ UNCHANGED ledgerVars
        BY <1>2, <1>4, <2>0, <2>2 DEF SnapshotRead, TypeOK, ledgerVars
    <2> QED BY <1>2, <2>2, <2>3, CacheInvFrom
<1>5. ASSUME NEW p \in Callers, Compacted(p) PROVE CacheInv'
    <2>1. acs # NoAcs /\ snap[p] = acs /\ acs \in AcsSet /\ Faithful(acs)
        BY <1>2, <1>5 DEF Compacted, CacheInv, InFlight, TypeOK
    <2>2. /\ Faithful(Compact(acs)) /\ Compact(acs).last = acs.last
          /\ Compact(acs) \in AcsSet
        BY <1>2, <2>1, CompactFaithful, CompactType
    <2>3. /\ acs' = Compact(acs)
          /\ pc'[p] = "fetching"
          /\ from'[p] = acs'.last
          /\ UNCHANGED ledgerVars
        BY <1>2, <1>5, <2>1, <2>2 DEF Compacted, TypeOK, ledgerVars
    <2>4. acs' # NoAcs
        BY <2>2, <2>3, NoAcsAssumption
    <2> QED BY <1>2, <2>2, <2>3, <2>4, CacheInvFrom
<1>6. ASSUME NEW p \in Callers, FullPage(p) PROVE CacheInv'
    <2>1. PICK pg \in Pages(from[p], off[p], MaxUpdates) :
            Enter(p, off[p], Absorb(acs, pg))
        BY <1>6 DEF FullPage
    <2>2. /\ off[p] \in Offset /\ acs \in AcsSet /\ Faithful(acs)
          /\ from[p] = acs.last /\ acs.last <= off[p]
        BY <1>2, <1>6 DEF FullPage, RangeServed, CacheInv, InFlight, TypeOK
    <2>3. Faithful(Absorb(acs, pg)) /\ Absorb(acs, pg) \in AcsSet
        BY <1>2, <2>1, <2>2, AbsorbFaithful, AbsorbEffect
    <2>4. /\ acs' = NoAcs \/ acs' = Absorb(acs, pg)
          /\ pc'[p] \in Waiting
          /\ pc'[p] = "compacting" => acs' # NoAcs /\ snap'[p] = acs'
          /\ pc'[p] = "fetching" => acs' # NoAcs /\ from'[p] = acs'.last
        BY <1>2, <2>1, <2>2, <2>3, EnterInFlight
    <2>5. UNCHANGED ledgerVars
        BY <1>6 DEF FullPage, ledgerVars
    <2> QED BY <1>2, <2>3, <2>4, <2>5, CacheInvFrom
<1>7. ASSUME NEW p \in Callers, LastPage(p) PROVE CacheInv'
    <2>1. PICK pg \in Pages(from[p], off[p], MaxUpdates) :
            LET a == CaughtUp(Absorb(acs, pg), off[p]) IN
            /\ PageSize(pg) < MaxUpdates
            /\ acs' = a
            /\ \/ /\ a.acsOffset <= off[p]
                  /\ res' = [res EXCEPT ![p] = CalculateAt(a, off[p])]
                  /\ pc' = [pc EXCEPT ![p] = "ok"]
               \/ /\ a.acsOffset > off[p]
                  /\ pc' = [pc EXCEPT ![p] = "cannotCalculate"]
        BY <1>7, Zenon DEF LastPage
    <2> DEFINE a == CaughtUp(Absorb(acs, pg), off[p])
    <2>2. /\ off[p] \in Offset /\ acs \in AcsSet /\ Faithful(acs)
          /\ from[p] = acs.last /\ acs.last <= off[p]
        BY <1>2, <1>7 DEF LastPage, RangeServed, CacheInv, InFlight, TypeOK
    <2>3. Faithful(a)
        BY <1>2, <2>1, <2>2, AbsorbFaithful
    <2>4. /\ a \in AcsSet /\ a.last = off[p]
        <3>1. Absorb(acs, pg) \in AcsSet
            BY <1>2, <2>1, <2>2, AbsorbEffect
        <3> QED BY <2>2, <3>1 DEF AcsSet, CaughtUp
    <2> HIDE DEF a
    <2>5. a.acsOffset <= off[p] /\ ~(a.acsOffset > off[p]) /\ off[p] <= a.last
        BY <2>2, <2>3, <2>4, LedgerAssumption DEF Faithful, AcsSet, Offset
    <2>6. CalculateAt(a, off[p]) = ActiveAt(off[p])
        BY <1>2, <2>2, <2>3, <2>4, <2>5, CalculateAtExact
    <2>7. /\ acs' = a
          /\ pc' = [pc EXCEPT ![p] = "ok"]
          /\ res' = [res EXCEPT ![p] = CalculateAt(a, off[p])]
        BY <2>1, <2>5 DEF a
    <2>8. /\ pc'[p] = "ok" /\ res'[p] = ActiveAt(off'[p]) /\ UNCHANGED ledgerVars
        BY <1>2, <1>7, <2>6, <2>7 DEF LastPage, TypeOK, ledgerVars
    <2> QED BY <1>2, <2>3, <2>7, <2>8, CacheInvFrom
<1>8. ASSUME NEW p \in Callers, PageWithoutSet(p) PROVE CacheInv'
    BY <1>8 DEF PageWithoutSet, RangeServed, CacheInv, InFlight
<1>9. ASSUME NEW p \in Callers, RequestFailed(p) PROVE CacheInv'
    <2>1. /\ pc'[p] = "httpError" /\ UNCHANGED <<acs, born, died>>
          /\ acs # NoAcs => Faithful(acs)
        BY <1>2, <1>9 DEF RequestFailed, TypeOK, CacheInv
    <2> QED BY <1>2, <2>1, CacheInvFrom DEF ledgerVars
<1>10. CASE UNCHANGED vars
    <2>1. (acs # NoAcs => Faithful(acs))'
        BY <1>10 DEF CacheInv, vars, Faithful, Active
    <2>2. (\A p \in Callers : InFlight(p))'
        BY <1>10 DEF CacheInv, vars, InFlight
    <2>3. ExactAtOffset' /\ NeverBeforeSnapshot' /\ SetNeverLost'
        BY <1>10 DEF CacheInv, vars, ExactAtOffset, NeverBeforeSnapshot, SetNeverLost, ActiveAt, Active
    <2> QED BY <1>2, <2>1, <2>2, <2>3 DEF CacheInv
<1> QED BY <1>3, <1>4, <1>5, <1>6, <1>7, <1>8, <1>9, <1>10 DEF Next, Resume

LEMMA CacheInvInit == Init => TypeInv /\ CacheInv
<1> SUFFICES ASSUME Init PROVE TypeInv /\ CacheInv
    OBVIOUS
<1>1. TypeInv
    BY CountType, LedgerAssumption DEF Init, TypeInv, TypeOK, SnapHeld, Offset, Settled
<1> QED BY <1>1 DEF Init, TypeInv, CacheInv, InFlight, ExactAtOffset,
                    NeverBeforeSnapshot, SetNeverLost

\* With one call at a time the cache is always faithful to the ledger between
\* its snapshot and its last update, and every answer is exact at the offset
\* asked for, whatever pages, compactions and resets came before.
THEOREM SerialCacheCorrect == Serial /\ Spec => []CacheInv
<1>1. Serial /\ TypeInv /\ CacheInv /\ [Next]_vars => (TypeInv /\ CacheInv)'
    BY TypeInvStep, CacheInvStep
<1>2. CASE Serial
    <2>1. TypeInv /\ CacheInv /\ [Next]_vars => (TypeInv /\ CacheInv)'
        BY <1>1, <1>2
    <2> QED BY <2>1, CacheInvInit, PTL DEF Spec
<1>3. CASE ~Serial
    BY <1>3
<1> QED BY <1>2, <1>3

(***************************************************************************)
(* What the container implements                                           *)
(***************************************************************************)

LEMMA OracleInit == Init => Oracle!Init
    BY DEF Init, Oracle!Init, Status, Oracle!NoCount, NoCount, Oracle!History,
           History, Waiting

\* Only the call that takes the step changes its status.
LEMMA StatusStep ==
    ASSUME TypeOK, NEW p \in Callers, NEW s,
           pc' = [pc EXCEPT ![p] = s]
    PROVE  Status' = [Status EXCEPT ![p] =
                        IF s \in Waiting THEN "busy"
                        ELSE IF s \in {"idle", "ok"} THEN s ELSE "rejected"]
    BY DEF Status, TypeOK

LEMMA EnterStatus ==
    ASSUME TypeOK, NEW p \in Callers, NEW o, NEW a, Enter(p, o, a)
    PROVE  Status' = [Status EXCEPT ![p] = "busy"]
<1>1. PICK s \in Waiting : pc' = [pc EXCEPT ![p] = s]
    BY DEF Enter, Waiting
<1> QED BY <1>1, StatusStep

\* An answer of the container is an answer of the oracle.
LEMMA AnswerStep ==
    ASSUME TypeOK, CacheInv', NEW p \in Callers,
           pc[p] \in Waiting, pc' = [pc EXCEPT ![p] = "ok"],
           \E r : res' = [res EXCEPT ![p] = r],
           UNCHANGED <<born, died, off>>
    PROVE  Oracle!Answer(p)
<1> PICK r : res' = [res EXCEPT ![p] = r]
    OBVIOUS
<1>1. Status[p] = "busy" /\ Status' = [Status EXCEPT ![p] = "ok"]
    BY StatusStep DEF Status, Waiting, TypeOK
<1>2. pc'[p] = "ok" /\ res'[p] = r
    BY DEF TypeOK
<1>3. r = ActiveAt(off[p])
    BY <1>2 DEF CacheInv, ExactAtOffset, ActiveAt, Active
<1> QED BY <1>1, <1>3 DEF Oracle!Answer, Oracle!ActiveAt, Oracle!Active,
                          ActiveAt, Active

LEMMA OracleStep ==
    ASSUME Serial, TypeInv, CacheInv, [Next]_vars, CacheInv'
    PROVE  [Oracle!Next]_(Oracle!oracleVars)
<1> USE DEF Settled, Waiting
<1>1. TypeOK
    BY DEF TypeInv
<1>2. \A p \in Callers : pc[p] \in Waiting => Status[p] = "busy"
    BY DEF Status
<1>3. ASSUME NEW p \in Callers, NEW o \in Offset, Begin(p, o)
      PROVE  Oracle!Ask(p, o)
    <2>1. Status[p] # "busy"
        BY <1>3 DEF Begin, Status
    <2>2. Status' = [Status EXCEPT ![p] = "busy"]
        BY <1>1, <1>3, EnterStatus DEF Begin
    <2> QED BY <1>3, <2>1, <2>2 DEF Begin, Oracle!Ask, Oracle!NoCount, NoCount,
                                    Oracle!ledgerVars, ledgerVars
<1>4. ASSUME NEW p \in Callers, SnapshotRead(p) PROVE Oracle!Answer(p)
    <2>1. /\ \E r : res' = [res EXCEPT ![p] = r]
          /\ pc[p] \in Waiting
          /\ pc' = [pc EXCEPT ![p] = "ok"]
          /\ UNCHANGED <<born, died, off>>
        BY <1>4 DEF SnapshotRead
    <2> QED BY <1>1, <2>1, AnswerStep
<1>5. ASSUME NEW p \in Callers, Compacted(p) PROVE UNCHANGED Oracle!oracleVars
    <2>1. Status' = [Status EXCEPT ![p] = "busy"]
        BY <1>1, <1>5, StatusStep DEF Compacted
    <2>2. Status' = Status
        BY <1>5, <1>2, <2>1 DEF Compacted, Status
    <2> QED BY <1>5, <2>2 DEF Compacted, Oracle!oracleVars
<1>6. ASSUME NEW p \in Callers, FullPage(p) PROVE UNCHANGED Oracle!oracleVars
    <2>1. Status' = [Status EXCEPT ![p] = "busy"]
        BY <1>1, <1>6, EnterStatus DEF FullPage
    <2>2. Status' = Status
        BY <1>6, <1>2, <2>1 DEF FullPage, RangeServed, Status
    <2> QED BY <1>6, <2>2 DEF FullPage, Oracle!oracleVars
<1>7. ASSUME NEW p \in Callers, LastPage(p) PROVE Oracle!Answer(p)
    <2>1. pc[p] \in Waiting
        BY <1>7 DEF LastPage, RangeServed
    <2>2. PICK pg, a :
            \/ /\ res' = [res EXCEPT ![p] = CalculateAt(a, off[p])]
               /\ pc' = [pc EXCEPT ![p] = "ok"]
            \/ pc' = [pc EXCEPT ![p] = "cannotCalculate"]
        BY <1>7, Zenon DEF LastPage
    <2>3. ~(pc' = [pc EXCEPT ![p] = "cannotCalculate"])
        BY <1>1 DEF CacheInv, NeverBeforeSnapshot, TypeOK
    <2>4. /\ \E r : res' = [res EXCEPT ![p] = r]
          /\ pc' = [pc EXCEPT ![p] = "ok"]
          /\ UNCHANGED <<born, died, off>>
        BY <1>7, <2>2, <2>3 DEF LastPage
    <2> QED BY <1>1, <2>1, <2>4, AnswerStep
<1>8. ASSUME NEW p \in Callers, PageWithoutSet(p) PROVE FALSE
    BY <1>8 DEF PageWithoutSet, RangeServed, CacheInv, InFlight
<1>9. ASSUME NEW p \in Callers, RequestFailed(p) PROVE Oracle!Reject(p)
    <2> DEFINE seen == IF "httpError" \in Waiting THEN "busy"
                       ELSE IF "httpError" \in {"idle", "ok"} THEN "httpError"
                       ELSE "rejected"
    <2>1. Status' = [Status EXCEPT ![p] = "rejected"]
        <3>1. pc' = [pc EXCEPT ![p] = "httpError"]
            BY <1>9 DEF RequestFailed
        <3>2. Status' = [Status EXCEPT ![p] = seen]
            BY <1>1, <3>1, StatusStep
        <3> QED BY <3>2
    <2> QED BY <1>2, <1>9, <2>1 DEF RequestFailed, Oracle!Reject
<1>10. ASSUME UNCHANGED vars PROVE UNCHANGED Oracle!oracleVars
    BY <1>10 DEF vars, Oracle!oracleVars, Status
<1>11. CASE \E p \in Callers : \E o \in Offset : Begin(p, o)
    BY <1>3, <1>11 DEF Oracle!Next, Oracle!Offset, Offset
<1>12. CASE \E p \in Callers : SnapshotRead(p) \/ LastPage(p) \/ RequestFailed(p)
    BY <1>4, <1>7, <1>9, <1>12 DEF Oracle!Next
<1> QED BY <1>5, <1>6, <1>8, <1>10, <1>11, <1>12 DEF Next, Resume

\* With one call at a time the container implements the cache-free oracle:
\* every call of update() is answered with the ledger at its own offset or is
\* rejected, and nothing else is ever seen of the cache.
THEOREM SerialImplementsOracle == Serial /\ Spec => ImplementsOracle
<1>1. CASE Serial
    <2>1. TypeInv /\ CacheInv /\ [Next]_vars => (TypeInv /\ CacheInv)'
        BY <1>1, TypeInvStep, CacheInvStep
    <2>2. TypeInv /\ CacheInv /\ CacheInv' /\ [Next]_vars
            => [Oracle!Next]_(Oracle!oracleVars)
        BY <1>1, OracleStep
    <2> QED BY <2>1, <2>2, CacheInvInit, OracleInit, PTL
            DEF Spec, ImplementsOracle, Oracle!Spec
<1>2. CASE ~Serial
    BY <1>2
<1> QED BY <1>1, <1>2

(***************************************************************************)
(* What remains of it with any number of callers                           *)
(***************************************************************************)

\* A set holds nothing in its snapshot from after the snapshot's offset.
Backward(a) == \A c \in Contract : a.initial[c] > 0 => born[c] <= a.acsOffset

BackwardInv ==
    /\ TypeInv
    /\ acs # NoAcs => Backward(acs)
    /\ \A p \in Callers : snap[p] # NoAcs => Backward(snap[p])
    /\ NothingFromTheFuture

LEMMA CalculateAtBackward ==
    ASSUME History, NEW a \in AcsSet, Backward(a), NEW o \in Offset,
           a.acsOffset <= o
    PROVE  \A c \in Contract : CalculateAt(a, o)[c] > 0 => born[c] <= o
<1> SUFFICES ASSUME NEW c \in Contract, CalculateAt(a, o)[c] > 0, ~(born[c] <= o)
             PROVE  FALSE
    OBVIOUS
<1>1. /\ a.acsOffset \in Int /\ o \in Int /\ born[c] \in Int
      /\ a.initial[c] \in Nat
    BY LedgerAssumption DEF AcsSet, Offset, History, Count
<1>2. a.initial[c] > 0
    BY <1>1 DEF CalculateAt
<1> QED BY <1>1, <1>2 DEF Backward

LEMMA FreshAcsBackward ==
    ASSUME History, NEW o \in Offset, NEW active \in Snapshots(o)
    PROVE  Backward(FreshAcs(o, active))
<1>1. \A c \in Contract : active[c] > 0 => ActiveAt(o)[c] > 0
    <2>1. CASE OverSocket
        BY <2>1 DEF Snapshots, ActiveAt
    <2>2. CASE ~OverSocket
        BY <2>2 DEF Snapshots
    <2> QED BY <2>1, <2>2
<1> QED BY <1>1, LedgerAssumption DEF Backward, FreshAcs, ActiveAt, Active, Offset, History

LEMMA CompactBackward ==
    ASSUME History, NEW a \in AcsSet, Backward(a) PROVE Backward(Compact(a))
<1> DEFINE n == a.last - SafeDelta
<1>1. CASE ~(n > a.acsOffset)
    BY <1>1 DEF Compact
<1>2. CASE n > a.acsOffset
    <2>1. n \in Offset /\ a.acsOffset <= n
        BY <1>2, ConfigAssumption, LedgerAssumption DEF AcsSet, Offset
    <2>2. \A c \in Contract : CalculateAt(a, n)[c] > 0 => born[c] <= n
        BY <2>1, CalculateAtBackward
    <2>3. Compact(a).acsOffset = n /\ Compact(a).initial = CalculateAt(a, n)
        BY <1>2 DEF Compact
    <2> QED BY <2>2, <2>3 DEF Backward
<1> QED BY <1>1, <1>2

LEMMA AbsorbBackward ==
    ASSUME NEW a \in AcsSet, Backward(a), NEW pg, NEW o
    PROVE  Backward(Absorb(a, pg)) /\ Backward(CaughtUp(Absorb(a, pg), o))
<1>1. /\ Absorb(a, pg).initial = a.initial
      /\ Absorb(a, pg).acsOffset = a.acsOffset
    BY DEF Absorb, AcsSet
<1>2. /\ CaughtUp(Absorb(a, pg), o).initial = a.initial
      /\ CaughtUp(Absorb(a, pg), o).acsOffset = a.acsOffset
    BY <1>1 DEF CaughtUp, Absorb, AcsSet
<1> QED BY <1>1, <1>2 DEF Backward

\* Any step keeps the sets free of contracts from beyond their snapshots, and
\* so the answers free of contracts from beyond the offset asked for.
LEMMA BackwardStep == BackwardInv /\ [Next]_vars => BackwardInv'
<1> SUFFICES ASSUME BackwardInv, [Next]_vars PROVE BackwardInv'
    OBVIOUS
<1> USE DEF Settled, Waiting
<1>1. TypeInv'
    BY TypeInvStep DEF BackwardInv
<1>2. TypeOK /\ TypeOK' /\ History /\ UNCHANGED <<born, died>>
    <2>1. UNCHANGED <<born, died>>
        BY DEF Next, Resume, Begin, SnapshotRead, Compacted, FullPage, LastPage,
               PageWithoutSet, RequestFailed, vars, ledgerVars
    <2> QED BY <1>1, <2>1 DEF BackwardInv, TypeInv, TypeOK
<1>3. ASSUME \/ acs' = NoAcs
             \/ acs' = acs
             \/ Backward(acs'),
             \A p \in Callers :
                \/ snap'[p] = snap[p]
                \/ snap'[p] = NoAcs
                \/ Backward(snap'[p]),
             \A p \in Callers :
                \/ pc'[p] # "ok"
                \/ pc'[p] = pc[p] /\ res'[p] = res[p] /\ off'[p] = off[p]
                \/ \A c \in Contract : res'[p][c] > 0 => born[c] <= off'[p]
      PROVE  BackwardInv'
    <2>1. (acs # NoAcs => Backward(acs))'
        BY <1>2, <1>3 DEF BackwardInv, Backward
    <2>2. (\A p \in Callers : snap[p] # NoAcs => Backward(snap[p]))'
        BY <1>2, <1>3 DEF BackwardInv, Backward
    <2>3. NothingFromTheFuture'
        BY <1>2, <1>3 DEF BackwardInv, NothingFromTheFuture
    <2> QED BY <1>1, <2>1, <2>2, <2>3 DEF BackwardInv
<1>4. ASSUME NEW p \in Callers, NEW o \in Offset, NEW a \in AcsSet \cup {NoAcs},
             a = NoAcs \/ Backward(a), Enter(p, o, a)
      PROVE  /\ acs' = NoAcs \/ Backward(acs')
             /\ \A q \in Callers : snap'[q] = snap[q] \/ Backward(snap'[q])
             /\ \A q \in Callers : q = p \/ pc'[q] = pc[q]
             /\ pc'[p] # "ok"
    <2>1. ~Usable(a, o) \/ a # NoAcs
        BY DEF Usable
    <2> QED BY <1>2, <1>4, <2>1 DEF Enter, Usable, TypeOK
<1>5. ASSUME NEW p \in Callers, NEW o \in Offset, Begin(p, o) PROVE BackwardInv'
    <2>1. /\ acs \in AcsSet \cup {NoAcs} /\ Enter(p, o, acs)
          /\ acs = NoAcs \/ Backward(acs)
        BY <1>2, <1>5 DEF Begin, BackwardInv, TypeOK
    <2>2. \A q \in Callers : q = p \/ (res'[q] = res[q] /\ off'[q] = off[q])
        BY <1>2, <1>5 DEF Begin, TypeOK
    <2> QED BY <1>3, <1>4, <2>1, <2>2
<1>6. ASSUME NEW p \in Callers, SnapshotRead(p) PROVE BackwardInv'
    <2>0. PICK active \in Snapshots(off[p]) :
            /\ acs' = FreshAcs(off[p], active)
            /\ res' = [res EXCEPT ![p] = CalculateAt(FreshAcs(off[p], active), off[p])]
        BY <1>6 DEF SnapshotRead
    <2> DEFINE fresh == FreshAcs(off[p], active)
    <2>1. off[p] \in Offset /\ fresh \in AcsSet /\ Backward(fresh)
        BY <1>2, FreshAcsType, FreshAcsBackward DEF TypeOK
    <2>2. \A c \in Contract : CalculateAt(fresh, off[p])[c] > 0 => born[c] <= off[p]
        <3>1. fresh.acsOffset <= off[p]
            BY <2>1, LedgerAssumption DEF FreshAcs, Offset
        <3> QED BY <1>2, <2>1, <3>1, CalculateAtBackward
    <2>3. /\ acs' = fresh /\ UNCHANGED <<snap, off>>
          /\ res'[p] = CalculateAt(fresh, off[p])
          /\ \A q \in Callers : q = p \/ (pc'[q] = pc[q] /\ res'[q] = res[q])
        BY <1>2, <1>6, <2>0 DEF SnapshotRead, TypeOK
    <2> QED BY <1>3, <2>1, <2>2, <2>3
<1>7. ASSUME NEW p \in Callers, Compacted(p) PROVE BackwardInv'
    <2>1. snap[p] \in AcsSet /\ Backward(snap[p])
        BY <1>2, <1>7 DEF Compacted, BackwardInv, TypeInv, SnapHeld, TypeOK
    <2>2. Backward(Compact(snap[p]))
        BY <1>2, <2>1, CompactBackward
    <2>3. /\ acs' = Compact(snap[p]) /\ UNCHANGED <<res, off>>
          /\ pc'[p] # "ok"
          /\ \A q \in Callers : q = p \/ pc'[q] = pc[q]
          /\ \A q \in Callers : snap'[q] = snap[q] \/ snap'[q] = NoAcs
        BY <1>2, <1>7 DEF Compacted, TypeOK
    <2> QED BY <1>3, <2>2, <2>3
<1>8. ASSUME NEW p \in Callers, FullPage(p) PROVE BackwardInv'
    <2>1. PICK pg \in Pages(from[p], off[p], MaxUpdates) :
            Enter(p, off[p], Absorb(acs, pg))
        BY <1>8 DEF FullPage
    <2>2. /\ off[p] \in Offset /\ acs \in AcsSet /\ Backward(acs)
          /\ from[p] \in Offset /\ from[p] <= off[p]
        BY <1>2, <1>8 DEF FullPage, RangeServed, BackwardInv, TypeOK
    <2>3. Absorb(acs, pg) \in AcsSet /\ Backward(Absorb(acs, pg))
        BY <2>2, PageShape, AbsorbType, AbsorbBackward
    <2>4. UNCHANGED <<res, off>>
        BY <1>8 DEF FullPage
    <2> QED BY <1>3, <1>4, <2>1, <2>2, <2>3, <2>4
<1>9. ASSUME NEW p \in Callers, LastPage(p) PROVE BackwardInv'
    <2>1. PICK pg \in Pages(from[p], off[p], MaxUpdates) :
            LET a == CaughtUp(Absorb(acs, pg), off[p]) IN
            /\ acs' = a
            /\ \/ /\ a.acsOffset <= off[p]
                  /\ res' = [res EXCEPT ![p] = CalculateAt(a, off[p])]
                  /\ pc' = [pc EXCEPT ![p] = "ok"]
               \/ /\ pc' = [pc EXCEPT ![p] = "cannotCalculate"]
                  /\ UNCHANGED res
        BY <1>9, Zenon DEF LastPage
    <2> DEFINE a == CaughtUp(Absorb(acs, pg), off[p])
    <2>2. /\ off[p] \in Offset /\ acs \in AcsSet /\ Backward(acs)
          /\ from[p] \in Offset /\ from[p] <= off[p]
        BY <1>2, <1>9 DEF LastPage, RangeServed, BackwardInv, TypeOK
    <2>3. Backward(a)
        BY <2>2, AbsorbBackward
    <2>4. a \in AcsSet
        <3>1. Absorb(acs, pg) \in AcsSet
            BY <2>2, PageShape, AbsorbType
        <3> QED BY <2>2, <3>1 DEF AcsSet, CaughtUp
    <2> HIDE DEF a
    <2>5. acs' = a /\ UNCHANGED <<snap, off>>
        BY <1>9, <2>1 DEF a, LastPage
    <2>6. CASE /\ a.acsOffset <= off[p]
               /\ res' = [res EXCEPT ![p] = CalculateAt(a, off[p])]
               /\ pc' = [pc EXCEPT ![p] = "ok"]
        <3>1. \A c \in Contract : CalculateAt(a, off[p])[c] > 0 => born[c] <= off[p]
            BY <1>2, <2>2, <2>3, <2>4, <2>6, CalculateAtBackward
        <3>2. /\ res'[p] = CalculateAt(a, off[p])
              /\ \A q \in Callers : q = p \/ (pc'[q] = pc[q] /\ res'[q] = res[q])
            BY <1>2, <2>6 DEF TypeOK
        <3> QED BY <1>3, <2>3, <2>5, <3>1, <3>2
    <2>7. CASE pc' = [pc EXCEPT ![p] = "cannotCalculate"] /\ UNCHANGED res
        <3>1. pc'[p] # "ok" /\ \A q \in Callers : q = p \/ pc'[q] = pc[q]
            BY <1>2, <2>7 DEF TypeOK
        <3> QED BY <1>3, <2>3, <2>5, <2>7, <3>1
    <2> QED BY <2>1, <2>6, <2>7 DEF a
<1>10. ASSUME NEW p \in Callers, PageWithoutSet(p) \/ RequestFailed(p)
       PROVE  BackwardInv'
    <2>1. /\ UNCHANGED <<acs, snap, res, off>>
          /\ pc'[p] # "ok"
          /\ \A q \in Callers : q = p \/ pc'[q] = pc[q]
        BY <1>2, <1>10 DEF PageWithoutSet, RequestFailed, TypeOK
    <2> QED BY <1>3, <2>1
<1>11. CASE UNCHANGED vars
    <2>1. UNCHANGED <<acs, snap, res, off, pc>>
        BY <1>11 DEF vars
    <2> QED BY <1>3, <2>1
<1> QED BY <1>5, <1>6, <1>7, <1>8, <1>9, <1>10, <1>11 DEF Next, Resume

\* However many callers interleave on the shared set, no answer holds a
\* contract created after the offset it was asked for.
THEOREM NothingFromTheFutureAlways == Spec => []NothingFromTheFuture
<1>1. Init => BackwardInv
    BY CountType, LedgerAssumption DEF Init, BackwardInv, TypeInv, TypeOK, SnapHeld,
       Offset, Settled, NothingFromTheFuture
<1>2. BackwardInv => NothingFromTheFuture
    BY DEF BackwardInv
<1> QED BY <1>1, <1>2, BackwardStep, PTL DEF Spec
=============================================================================
