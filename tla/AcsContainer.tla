---------------------------- MODULE AcsContainer ----------------------------
(***************************************************************************)
(* The cache of one ACS key (class ACSContainer, core/ledger-client/src/   *)
(* acs/acs-container.ts): a snapshot of the active contracts at acsOffset  *)
(* and the updates after it up to lastUpdateOffset, shared by every caller *)
(* of update().  A call is cut at its awaits: the snapshot request, the    *)
(* compaction and each page of updates.  Whatever the call reads after an  *)
(* await it reads from the shared set as the other calls left it.          *)
(*                                                                         *)
(* Updates are kept as counts: an update is a create or an archive of a    *)
(* contract, and its offset is the ledger's (born, died).                  *)
(***************************************************************************)
EXTENDS AcsLedger, Functions

CONSTANTS
    Callers,     \* the promises of update() that may be pending at once
    MaxUpdates,  \* ACS_UPDATE_CONFIG.maxUpdatesToFetch: the page limit
    MaxEvents,   \* ACS_UPDATE_CONFIG.maxEventsBeforePrune
    SafeDelta,   \* ACS_UPDATE_CONFIG.safeOffsetDeltaForPrune
    MaxCalls,    \* bound: how many calls of update() a behaviour makes
    OverSocket,  \* wsSupport: snapshots are asked for over a WebSocket first
    NoAcs        \* acsSet === null

ASSUME ConfigAssumption ==
    /\ MaxUpdates \in Nat \ {0}
    /\ MaxEvents \in Nat
    /\ SafeDelta \in Nat
    /\ MaxCalls \in Nat
    /\ OverSocket \in BOOLEAN

VARIABLES
    acs,         \* this.acsSet
    pc,          \* pc[p]: where the call of p stands
    off,         \* off[p]: the offset p asked for
    from,        \* from[p]: beginExclusive of p's request in flight
    snap,        \* snap[p]: the set that p's compaction works on
    res,         \* res[p]: occurrences of each contract in p's answer
    calls        \* number of calls made so far

vars == <<born, died, acs, pc, off, from, snap, res, calls>>

AcsSet == [acsOffset : Offset, initial : Count, last : Offset,
           created : Count, archived : Count]

Waiting == {"reading", "compacting", "fetching"}
Settled == {"idle", "ok", "httpError", "typeError", "cannotCalculate"}

ASSUME NoAcsAssumption == NoAcs \notin AcsSet

-----------------------------------------------------------------------------
(* The static helpers of ACSContainer.                                     *)

\* updates.length
NumEvents(a) ==
    FoldFunction(+, 0, [c \in Contract |-> a.created[c] + a.archived[c]])

\* A calculateAt that forgets the offset of the creates.
MutantCalculateLatest(a, o) ==
    [c \in Contract |->
        IF a.archived[c] > 0 /\ died[c] <= o THEN 0
        ELSE a.initial[c] + a.created[c]]

\* calculateAt: the snapshot and the creates up to o, without what the
\* archives up to o name.  It rejects when a.acsOffset > o.
CalculateAt(a, o) ==
    [c \in Contract |->
        IF a.archived[c] > 0 /\ died[c] <= o THEN 0
        ELSE a.initial[c] + (IF born[c] <= o THEN a.created[c] ELSE 0)]

(***************************************************************************)
(* extractEvents(fromOffset, updates): a transaction is taken when it is   *)
(* beyond the running newOffset, which a checkpoint sets to its own offset *)
(* even when that lowers it.  So a transaction is taken when it is beyond  *)
(* fromOffset or follows a checkpoint of the same page.                    *)
(***************************************************************************)
Accepted(fromOffset, pg) ==
    {o \in pg.txs : o > fromOffset \/ \E k \in pg.checkpoints : k < o}

NewOffset(fromOffset, pg) ==
    LET S == Accepted(fromOffset, pg) \cup pg.checkpoints IN
    IF S = {} THEN fromOffset ELSE CHOOSE o \in S : \A x \in S : x <= o

\* An update() that keeps the events of a page but not how far it went.
MutantAbsorbStandsStill(a, pg) ==
    LET taken == Accepted(a.last, pg) IN
    [a EXCEPT
        !.created = [c \in Contract |->
                        a.created[c] + (IF born[c] \in taken THEN 1 ELSE 0)],
        !.archived = [c \in Contract |->
                        a.archived[c] + (IF died[c] \in taken THEN 1 ELSE 0)]]

\* What update() keeps of a page.
Absorb(a, pg) ==
    LET taken == Accepted(a.last, pg) IN
    IF NewOffset(a.last, pg) > a.last
    THEN [a EXCEPT
            !.last = NewOffset(a.last, pg),
            !.created = [c \in Contract |->
                            a.created[c] + (IF born[c] \in taken THEN 1 ELSE 0)],
            !.archived = [c \in Contract |->
                            a.archived[c] + (IF died[c] \in taken THEN 1 ELSE 0)]]
    ELSE a

\* After the last page, whatever its last event was.
CaughtUp(a, o) == [a EXCEPT !.last = o]

\* A compaction that keeps the events of its own offset.
MutantCompactKeepsBoundary(a) ==
    LET n == a.last - SafeDelta IN
    IF n > a.acsOffset
    THEN [acsOffset |-> n,
          initial   |-> CalculateAt(a, n),
          last      |-> a.last,
          created   |-> [c \in Contract |-> IF born[c] >= n THEN a.created[c] ELSE 0],
          archived  |-> [c \in Contract |-> IF died[c] >= n THEN a.archived[c] ELSE 0]]
    ELSE a

\* compact: move the snapshot forward to last - SafeDelta, if that is forward.
Compact(a) ==
    LET n == a.last - SafeDelta IN
    IF n > a.acsOffset
    THEN [acsOffset |-> n,
          initial   |-> CalculateAt(a, n),
          last      |-> a.last,
          created   |-> [c \in Contract |-> IF born[c] > n THEN a.created[c] ELSE 0],
          archived  |-> [c \in Contract |-> IF died[c] > n THEN a.archived[c] ELSE 0]]
    ELSE a

\* Snapshots whose updates start from the beginning, or one too late.
MutantFreshFromZero(o, active) ==
    [acsOffset |-> o, initial |-> active, last |-> 0,
     created |-> NoCount, archived |-> NoCount]
MutantFreshBeyond(o, active) ==
    [acsOffset |-> o, initial |-> active, last |-> o + 1,
     created |-> NoCount, archived |-> NoCount]

\* The set that a snapshot at o begins.
FreshAcs(o, active) ==
    [acsOffset |-> o, initial |-> active, last |-> o,
     created |-> NoCount, archived |-> NoCount]

(***************************************************************************)
(* What readACS may resolve with.  Over HTTP it is the participant's        *)
(* answer.  Over a socket it is what has come until the socket closes,      *)
(* whoever closed it and why; a socket that fails, or that says nothing for *)
(* some time, is followed by a request over HTTP.                           *)
(***************************************************************************)
Snapshots(o) ==
    IF OverSocket
    THEN {s \in [Contract -> {0, 1}] : \A c \in Contract : s[c] <= ActiveAt(o)[c]}
    ELSE {ActiveAt(o)}

-----------------------------------------------------------------------------
(* update(offset, key, api)                                                *)

Init ==
    /\ History
    /\ acs = NoAcs
    /\ pc = [p \in Callers |-> "idle"]
    /\ off = [p \in Callers |-> 0]
    /\ from = [p \in Callers |-> 0]
    /\ snap = [p \in Callers |-> NoAcs]
    /\ res = [p \in Callers |-> NoCount]
    /\ calls = 0

\* Not null, and its snapshot is not beyond o.
Usable(a, o) == a # NoAcs /\ a.acsOffset <= o

(***************************************************************************)
(* The code of update() up to its first await, run for p on the set a:     *)
(* ask for a snapshot (dropping a set that is too recent for o), or start  *)
(* a compaction, or ask for the updates after the last one seen.           *)
(***************************************************************************)
Enter(p, o, a) ==
    \/ /\ ~Usable(a, o)
       /\ acs' = NoAcs
       /\ pc' = [pc EXCEPT ![p] = "reading"]
       /\ UNCHANGED <<from, snap>>
    \/ /\ Usable(a, o)
       /\ NumEvents(a) >= MaxEvents
       /\ acs' = a
       /\ pc' = [pc EXCEPT ![p] = "compacting"]
       /\ snap' = [snap EXCEPT ![p] = a]
       /\ UNCHANGED from
    \/ /\ Usable(a, o)
       /\ NumEvents(a) < MaxEvents
       /\ acs' = a
       /\ pc' = [pc EXCEPT ![p] = "fetching"]
       /\ from' = [from EXCEPT ![p] = a.last]
       /\ UNCHANGED snap

Begin(p, o) ==
    /\ pc[p] \in Settled
    /\ calls < MaxCalls
    /\ calls' = calls + 1
    /\ off' = [off EXCEPT ![p] = o]
    /\ res' = [res EXCEPT ![p] = NoCount]
    /\ Enter(p, o, acs)
    /\ UNCHANGED ledgerVars

\* readACS returned: the set is replaced, whatever it is by now.
SnapshotRead(p) ==
    /\ pc[p] = "reading"
    /\ \E active \in Snapshots(off[p]) :
          /\ acs' = FreshAcs(off[p], active)
          /\ res' = [res EXCEPT ![p] = CalculateAt(FreshAcs(off[p], active), off[p])]
    /\ pc' = [pc EXCEPT ![p] = "ok"]
    /\ UNCHANGED <<born, died, off, from, snap, calls>>

\* compact returned: the set is replaced, and the next page is asked for.
Compacted(p) ==
    /\ pc[p] = "compacting"
    /\ acs' = Compact(snap[p])
    /\ from' = [from EXCEPT ![p] = snap[p].last]
    /\ snap' = [snap EXCEPT ![p] = NoAcs]
    /\ pc' = [pc EXCEPT ![p] = "fetching"]
    /\ UNCHANGED <<born, died, off, res, calls>>

\* The ledger refuses a range that ends before it begins.
RangeServed(p) == pc[p] = "fetching" /\ from[p] <= off[p]

\* A full page: keep it and go on from the top of update().
FullPage(p) ==
    /\ RangeServed(p)
    /\ acs # NoAcs
    /\ \E pg \in Pages(from[p], off[p], MaxUpdates) :
        /\ PageSize(pg) >= MaxUpdates
        /\ Enter(p, off[p], Absorb(acs, pg))
    /\ UNCHANGED <<born, died, off, res, calls>>

\* The last page: caught up, answer from the set.
LastPage(p) ==
    /\ RangeServed(p)
    /\ acs # NoAcs
    /\ \E pg \in Pages(from[p], off[p], MaxUpdates) :
        LET a == CaughtUp(Absorb(acs, pg), off[p]) IN
        /\ PageSize(pg) < MaxUpdates
        /\ acs' = a
        /\ \/ /\ a.acsOffset <= off[p]
              /\ res' = [res EXCEPT ![p] = CalculateAt(a, off[p])]
              /\ pc' = [pc EXCEPT ![p] = "ok"]
           \/ /\ a.acsOffset > off[p]
              /\ pc' = [pc EXCEPT ![p] = "cannotCalculate"]
              /\ UNCHANGED res
    /\ UNCHANGED <<born, died, off, from, snap, calls>>

\* The page arrived, but another call has set acsSet to null meanwhile.
PageWithoutSet(p) ==
    /\ RangeServed(p)
    /\ acs = NoAcs
    /\ pc' = [pc EXCEPT ![p] = "typeError"]
    /\ UNCHANGED <<born, died, acs, off, from, snap, res, calls>>

\* The request failed, its retries included; the set stays as it is.
RequestFailed(p) ==
    /\ pc[p] \in {"reading", "fetching"}
    /\ pc' = [pc EXCEPT ![p] = "httpError"]
    /\ UNCHANGED <<born, died, acs, off, from, snap, res, calls>>

Resume(p) ==
    \/ SnapshotRead(p)
    \/ Compacted(p)
    \/ FullPage(p)
    \/ LastPage(p)
    \/ PageWithoutSet(p)
    \/ RequestFailed(p)

Next ==
    \E p \in Callers :
        \/ \E o \in Offset : Begin(p, o)
        \/ Resume(p)

Spec == Init /\ [][Next]_vars

\* Every request is answered or fails in the end (postWithRetry retries a
\* bounded number of times; a socket that has begun to answer is assumed to be
\* closed some time), so a waiting call is resumed.
FairSpec == Spec /\ \A p \in Callers : WF_vars(Resume(p))

-----------------------------------------------------------------------------
(* Properties *)

TypeOK ==
    /\ History
    /\ acs \in AcsSet \cup {NoAcs}
    /\ pc \in [Callers -> Waiting \cup Settled]
    /\ off \in [Callers -> Offset]
    /\ from \in [Callers -> Offset]
    /\ snap \in [Callers -> AcsSet \cup {NoAcs}]
    /\ res \in [Callers -> Count]
    /\ calls \in Nat

\* The answer of update(offset) holds exactly the contracts active at that
\* offset, each once, however many pages, compactions, failed requests and
\* earlier offsets the cache went through (acs-container.ts:39).
ExactAtOffset ==
    \A p \in Callers : pc[p] = "ok" => res[p] = ActiveAt(off[p])

\* An answer holds no contract created after the offset asked for, not even
\* when other calls have carried the shared set beyond it (calculateAt).
NothingFromTheFuture ==
    \A p \in Callers : \A c \in Contract :
        pc[p] = "ok" /\ res[p][c] > 0 => born[c] <= off[p]

\* calculateAt is never asked for an offset before the snapshot: "This should
\* never happen as we check this before calling calculateAt" (:140).
NeverBeforeSnapshot == \A p \in Callers : pc[p] # "cannotCalculate"

\* The set is never null where update() goes on using it after an await.
SetNeverLost == \A p \in Callers : pc[p] # "typeError"

\* Every call of update() is answered or rejected: paging ends.
EveryCallSettles ==
    \A p \in Callers : pc[p] \in Waiting ~> pc[p] \in Settled

-----------------------------------------------------------------------------
(* The inductive invariant of serial use (one caller at a time).           *)

\* The set tells the ledger's history from its snapshot to its last update.
Faithful(a) ==
    /\ a.acsOffset <= a.last
    /\ \A c \in Contract :
        /\ a.initial[c] = (IF Active(c, a.acsOffset) THEN 1 ELSE 0)
        /\ a.created[c] = (IF a.acsOffset < born[c] /\ born[c] <= a.last THEN 1 ELSE 0)
        /\ a.archived[c] = (IF a.acsOffset < died[c] /\ died[c] <= a.last THEN 1 ELSE 0)

InFlight(p) ==
    /\ pc[p] = "compacting" => acs # NoAcs /\ snap[p] = acs
    /\ pc[p] = "fetching" => acs # NoAcs /\ from[p] = acs.last

CacheInv ==
    /\ TypeOK
    /\ acs # NoAcs => Faithful(acs)
    /\ \A p \in Callers : InFlight(p)
    /\ ExactAtOffset
    /\ NeverBeforeSnapshot
    /\ SetNeverLost

-----------------------------------------------------------------------------
(* What the container implements.                                          *)

Status ==
    [p \in Callers |->
        IF pc[p] \in Waiting THEN "busy"
        ELSE IF pc[p] \in {"idle", "ok"} THEN pc[p] ELSE "rejected"]

Oracle == INSTANCE AcsOracle WITH status <- Status, asked <- off, answer <- res

\* Seen from outside, serial use of the container is a ledger that answers
\* every query at its own offset: there is no trace of the cache.
ImplementsOracle == Oracle!Spec
=============================================================================
