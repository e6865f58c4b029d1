------------------------------ MODULE Wallets ------------------------------
(***************************************************************************)
(* The wallets of one user on one network: createWallet, setPrimaryWallet  *)
(* and syncWallets of the user API, the wallets table of the SQL store, the *)
(* parties and rights on the ledger, and the signing providers             *)
(* (wallet-gateway/remote/src/user-api/controller.ts,                      *)
(* wallet-gateway/remote/src/ledger, core/wallet-store-sql/src).           *)
(*                                                                         *)
(* A request is cut at its awaits.  What it has asked the store to do is a  *)
(* task: a store operation reads the table first and writes it later, in a *)
(* transaction.  Tasks run in any order, which covers both databases; what *)
(* they differ in is OneConnection.                                        *)
(***************************************************************************)
EXTENDS Integers, FiniteSets

CONSTANTS
    Party,          \* the parties the user has or may create
    Provider,       \* Provider[p]: who signs for p, "participant", "kernel",
                    \* "blockdaemon" or "fireblocks"
    Request,        \* requests that may be under way at a time
    OneConnection,  \* TRUE: SQLite, transactions run one after the other;
                    \* FALSE: PostgreSQL, they overlap
    MaxRequests,    \* bound: requests in all
    MaxRestarts,    \* bound: restarts of the gateway
    NoRow, NoParty, NoRequest

ASSUME WalletsAssumption ==
    /\ IsFiniteSet(Party)
    /\ Provider \in [Party -> {"participant", "kernel", "blockdaemon", "fireblocks"}]
    /\ OneConnection \in BOOLEAN
    /\ MaxRequests \in Nat /\ MaxRestarts \in Nat
    /\ NoParty \notin Party /\ NoRequest \notin Request
    /\ NoRow \notin [primary : BOOLEAN, status : {"initialized", "allocated"},
                     tx : BOOLEAN, disabled : BOOLEAN]

VARIABLES
    rows,       \* rows[p]: p's row of the wallets table
    tasks,      \* the store operations under way
    job,        \* job[r]: where request r stands
    hosted,     \* the ledger: the parties it hosts
    rights,     \* the ledger: the parties the user may act as
    readable,   \* the ledger: those the user may read or execute as
    onboarding, \* onboarding[p]: p's topology transaction at its provider
    removed,    \* ghost: the kinds of request that have ever removed a row
    known,      \* ghost: the parties a sync has found, and no poll removed since
    crashed,    \* a promise nobody awaits was rejected: the process is gone
    started, restarts

ledger == <<hosted, rights, readable>>
bounds == <<started, restarts>>
ghosts == <<removed, known>>
vars == <<rows, tasks, job, ledger, onboarding, ghosts, crashed, bounds>>

\* tx: externalTxId holds the id of the provider's transaction.
Row == [primary : BOOLEAN, status : {"initialized", "allocated"},
        tx : BOOLEAN, disabled : BOOLEAN]

External(p) == Provider[p] \in {"blockdaemon", "fireblocks"}

Stored == {p \in Party : rows[p] # NoRow}
Disabled == {p \in Stored : rows[p].disabled}
PrimariesIn(table) == {p \in Party : table[p] # NoRow /\ table[p].primary}

WithPrimary(row, isPrimary) == [row EXCEPT !.primary = isPrimary]

\* table with the rows of S no longer primary.
Unset(table, S) ==
    [p \in Party |-> IF p \in S /\ table[p] # NoRow
                     THEN WithPrimary(table[p], FALSE) ELSE table[p]]

\* The unique index wallets_one_primary_per_network_user.
IndexHolds(table) == Cardinality(PrimariesIn(table)) <= 1

Task(op, by, p, row) ==
    [op |-> op, by |-> by, party |-> p, row |-> row, old |-> {}]

TasksOf(r) == {t \in tasks : t.by = r}

Idle == [kind |-> "none", at |-> "idle", party |-> NoParty, primary |-> FALSE,
         context |-> FALSE, tx |-> FALSE, status |-> "allocated",
         found |-> {}, unmatched |-> {}]

-----------------------------------------------------------------------------
(* Store operations                                                        *)

Done(t, more) == tasks' = (tasks \ {t}) \cup more

(***************************************************************************)
(* The operation throws.  Its request fails; the others of a Promise.all   *)
(* go on, for nobody.  Nobody waits for the setPrimaryWallet of a sync: its *)
(* rejection ends the process.                                             *)
(***************************************************************************)
Orphan(t) == [t EXCEPT !.by = NoRequest]

Rejected(t) ==
    /\ tasks' = {IF u.by = t.by THEN Orphan(u) ELSE u : u \in tasks \ {t}}
    /\ job' = [r \in Request |-> IF r = t.by THEN Idle ELSE job[r]]
    /\ crashed' = (t.by = NoRequest /\ t.op \in {"setPrimary", "swap"})
    /\ UNCHANGED <<rows, ghosts>>

\* addWallet reads the wallets: the first one is primary, asked for or not.
MutantAsAsked(row) == row
FirstMadePrimary(row) == IF Stored = {} THEN WithPrimary(row, TRUE) ELSE row

LookBeforeAdd(t) ==
    /\ t.op = "add"
    /\ \/ /\ t.party \in Stored
          /\ Rejected(t)
       \/ /\ t.party \notin Stored
          /\ Done(t, {[t EXCEPT !.op = "insert", !.row = FirstMadePrimary(t.row),
                                !.old = PrimariesIn(rows)]})
          /\ UNCHANGED <<rows, job, ghosts, crashed>>

(***************************************************************************)
(* The transaction of addWallet: a primary wallet takes over from the      *)
(* primary ones that its first statement sees.  When transactions overlap  *)
(* these may be the ones there were when the wallets were read.            *)
(***************************************************************************)
MutantTakesOver(t) == {t.old}
TakesOver(t) == IF OneConnection THEN {PrimariesIn(rows)}
                ELSE {PrimariesIn(rows), t.old}

Inserted(t, old) ==
    [Unset(rows, IF t.row.primary THEN old ELSE {}) EXCEPT ![t.party] = t.row]

InsertWallet(t) ==
    /\ t.op = "insert"
    /\ \/ /\ t.party \in Stored
          /\ Rejected(t)
       \/ /\ t.party \notin Stored
          /\ \E old \in TakesOver(t) :
                \/ /\ IndexHolds(Inserted(t, old))
                   /\ rows' = Inserted(t, old)
                   /\ Done(t, {})
                   /\ UNCHANGED <<job, ghosts, crashed>>
                \/ /\ ~IndexHolds(Inserted(t, old))
                   /\ Rejected(t)

\* setPrimaryWallet reads the wallets, also for the one that is primary now.
LookBeforeSet(t) ==
    /\ t.op = "setPrimary"
    /\ \/ /\ t.party \notin Stored
          /\ Rejected(t)
       \/ /\ t.party \in Stored
          /\ Done(t, {[t EXCEPT !.op = "swap", !.old = PrimariesIn(rows)]})
          /\ UNCHANGED <<rows, job, ghosts, crashed>>

\* Its transaction: the old primary row and the new one, as they were read.
Swapped(t) ==
    [p \in Party |-> IF p = t.party /\ p \in Stored THEN WithPrimary(rows[p], TRUE)
                     ELSE Unset(rows, t.old)[p]]

SwapPrimary(t) ==
    /\ t.op = "swap"
    /\ \/ /\ IndexHolds(Swapped(t))
          /\ rows' = Swapped(t)
          /\ Done(t, {})
          /\ UNCHANGED <<job, ghosts, crashed>>
       \/ /\ ~IndexHolds(Swapped(t))
          /\ Rejected(t)

\* Polls and syncs remove wallets.
Remover(t) == IF job[t.by].kind = "poll" THEN "poll" ELSE "sync"

\* removeWallet: whatever row the party has by now.  A primary row leaves no
\* primary behind.
RemoveWallet(t) ==
    /\ t.op = "remove"
    /\ rows' = [rows EXCEPT ![t.party] = NoRow]
    /\ removed' = IF t.party \in Stored THEN removed \cup {Remover(t)} ELSE removed
    /\ known' = IF Remover(t) = "poll" THEN known \ {t.party} ELSE known
    /\ Done(t, {})
    /\ UNCHANGED <<job, crashed>>

\* updateWallet: status and externalTxId, if there is a row.
UpdatedRow(row, new) == [row EXCEPT !.status = new.status, !.tx = new.tx]

UpdateWallet(t) ==
    /\ t.op = "update"
    /\ rows' = IF t.party \in Stored
               THEN [rows EXCEPT ![t.party] = UpdatedRow(rows[t.party], t.row)] ELSE rows
    /\ Done(t, {})
    /\ UNCHANGED <<job, ghosts, crashed>>

RunTask ==
    /\ \E t \in tasks :
        \/ LookBeforeAdd(t)
        \/ InsertWallet(t)
        \/ LookBeforeSet(t)
        \/ SwapPrimary(t)
        \/ RemoveWallet(t)
        \/ UpdateWallet(t)
    /\ UNCHANGED <<ledger, onboarding, bounds>>

-----------------------------------------------------------------------------
(* Requests                                                                *)

Begin(r, j) ==
    /\ job[r].at = "idle"
    /\ started < MaxRequests
    /\ started' = started + 1
    /\ job' = [job EXCEPT ![r] = j]
    /\ UNCHANGED <<rows, ledger, onboarding, ghosts, crashed, restarts>>

Goes(r, j) ==
    /\ job' = [job EXCEPT ![r] = j]
    /\ UNCHANGED <<rows, removed, crashed, bounds>>
    /\ known' = IF j.at = "reading" THEN known \cup j.found ELSE known

Issues(more) == tasks' = tasks \cup more

Throws(r) == Goes(r, Idle) /\ UNCHANGED <<tasks, ledger, onboarding>>

\* A party whose key or hint is new.
Fresh(p) ==
    /\ p \notin Stored /\ p \notin hosted /\ onboarding[p] = "none"
    /\ \A r \in Request : job[r].party # p

\* createWallet without a signingProviderContext.
CreateWallet(r, p, isPrimary) ==
    /\ Fresh(p)
    /\ Begin(r, [Idle EXCEPT !.kind = "create", !.party = p, !.primary = isPrimary,
                             !.at = IF External(p) THEN "asking" ELSE "allocating"])
    /\ UNCHANGED tasks

\* createWallet with one: the page's Allocate button, for a wallet it lists.
\* The context is what the row was when the page read it.
PollWallet(r, p) ==
    /\ p \in Stored /\ rows[p].status = "initialized" /\ External(p)
    /\ Begin(r, [Idle EXCEPT !.kind = "poll", !.at = "polling", !.party = p,
                             !.context = TRUE, !.tx = rows[p].tx])
    /\ UNCHANGED tasks

\* setPrimaryWallet, for a wallet the page lists as usable.
SetPrimary(r, p) ==
    /\ p \in Stored /\ rows[p].status = "allocated" /\ ~rows[p].disabled
    /\ Begin(r, [Idle EXCEPT !.kind = "setPrimary", !.at = "storing"])
    /\ Issues({Task("setPrimary", r, p, NoRow)})

SyncWallets(r) ==
    /\ Begin(r, [Idle EXCEPT !.kind = "sync", !.at = "rights"])
    /\ UNCHANGED tasks

-----------------------------------------------------------------------------
(* createWallet                                                            *)

\* The row that createWallet builds at its end.
MutantNewRow(j) == [primary |-> j.primary, status |-> IF j.tx THEN "pending" ELSE j.status,
                    tx |-> j.tx, disabled |-> FALSE]
NewRow(j) == [primary |-> j.primary, status |-> j.status, tx |-> j.tx, disabled |-> FALSE]

\* With a context the row is updated, without one it is added.
StoreWallet(r, j) ==
    /\ Goes(r, [j EXCEPT !.at = "storing"])
    /\ Issues({Task(IF j.context THEN "update" ELSE "add", r, j.party, NewRow(j))})

(***************************************************************************)
(* The key is made (or looked up), the topology prepared and the provider   *)
(* asked to sign it.  It may sign at once; otherwise the wallet is          *)
(* "initialized", also when the driver answers with an error object, which *)
(* has no transaction id.                                                  *)
(***************************************************************************)
SignedAtOnce(r) ==
    /\ job[r].at = "asking"
    /\ onboarding' = [onboarding EXCEPT ![job[r].party] = "signed"]
    /\ Goes(r, [job[r] EXCEPT !.at = "allocating", !.tx = FALSE])
    /\ UNCHANGED <<tasks, ledger>>

Asked(r, answer) ==
    /\ job[r].at = "asking"
    /\ onboarding' = [onboarding EXCEPT ![job[r].party] = answer]
    /\ StoreWallet(r, [job[r] EXCEPT !.status = "initialized", !.tx = answer # "none"])
    /\ UNCHANGED ledger

KeyFails(r) ==
    /\ job[r].at = "asking"
    /\ Throws(r)

\* What the poll stores: no transaction id, whatever the provider answers.
MutantPolled(r) == [job[r] EXCEPT !.status = "allocated", !.tx = FALSE]
Polled(r) == [job[r] EXCEPT !.status = "initialized", !.tx = FALSE]

\* A poll that holds a transaction id, and Fireblocks' in any case, asks for
\* that transaction.
AsksForTx(r) ==
    job[r].at = "polling" /\ (job[r].tx \/ Provider[job[r].party] = "fireblocks")

PollSaysSigned(r) ==
    /\ AsksForTx(r) /\ job[r].tx
    /\ onboarding[job[r].party] = "signed"
    /\ Goes(r, [job[r] EXCEPT !.at = "allocating", !.tx = FALSE])
    /\ UNCHANGED <<tasks, ledger, onboarding>>

PollSaysPending(r) ==
    /\ AsksForTx(r) /\ job[r].tx
    /\ onboarding[job[r].party] = "pending"
    /\ StoreWallet(r, Polled(r))
    /\ UNCHANGED <<ledger, onboarding>>

\* Rejected or failed, unknown, or the driver could not tell: the wallet is
\* removed, and then updated in vain.
PollSaysNo(r) ==
    /\ AsksForTx(r)
    /\ Goes(r, [Polled(r) EXCEPT !.at = "removing"])
    /\ Issues({Task("remove", r, job[r].party, NoRow)})
    /\ UNCHANGED <<ledger, onboarding>>

WalletRemoved(r) ==
    /\ job[r].at = "removing" /\ job[r].kind = "poll"
    /\ TasksOf(r) = {}
    /\ StoreWallet(r, job[r])
    /\ UNCHANGED <<ledger, onboarding>>

\* Blockdaemon's poll without a transaction id starts over with a new key, that
\* is, for another party.
PollStartsOver(r, q) ==
    /\ job[r].at = "polling" /\ ~AsksForTx(r)
    /\ Fresh(q) /\ Provider[q] = "blockdaemon"
    /\ Goes(r, [job[r] EXCEPT !.at = "asking", !.party = q])
    /\ UNCHANGED <<tasks, ledger, onboarding>>

\* The party is allocated first, and the rights are granted when it is seen.  The
\* ledger's answers may be lost.
AllocateParty(r) ==
    /\ job[r].at = "allocating"
    /\ hosted' = hosted \cup {job[r].party}
    /\ Goes(r, [job[r] EXCEPT !.at = "granting"]) \/ Goes(r, Idle)
    /\ UNCHANGED <<tasks, rights, readable, onboarding>>

GrantRights(r) ==
    /\ job[r].at = "granting"
    /\ rights' = rights \cup {job[r].party}
    /\ \/ StoreWallet(r, [job[r] EXCEPT !.status = "allocated"])
       \/ Goes(r, Idle) /\ UNCHANGED tasks
    /\ UNCHANGED <<hosted, readable, onboarding>>

\* The ledger refuses (a party it hosts, too), or the wait times out.
LedgerFails(r) ==
    /\ job[r].at \in {"allocating", "granting", "rights"}
    /\ Throws(r)

-----------------------------------------------------------------------------
(* syncWallets                                                             *)

\* Whatever the right: to act as, to execute as or to read as the party.
RightsMap == rights \cup readable

RightsRead(r) ==
    /\ job[r].at = "rights"
    /\ Goes(r, [job[r] EXCEPT !.at = "reading", !.found = RightsMap])
    /\ UNCHANGED <<tasks, ledger, onboarding>>

\* The parties without an enabled wallet.
NewParties(r) == job[r].found \ (Stored \ Disabled)

\* The wallets are read, and a signing provider is looked up for each of the new
\* parties.  A lookup may fail; unmatched wallets will be disabled.  The disabled
\* ones there are now are removed.
SyncRemoves(r) == NewParties(r) \cap Disabled

WalletsRead(r, unmatched) ==
    /\ job[r].at = "reading"
    /\ Goes(r, [job[r] EXCEPT !.at = "clearing", !.found = NewParties(r),
                              !.unmatched = unmatched])
    /\ Issues({Task("remove", r, p, NoRow) : p \in SyncRemoves(r)})
    /\ UNCHANGED <<ledger, onboarding>>

SyncedRow(r, p) == [primary |-> FALSE, status |-> "allocated", tx |-> FALSE,
                    disabled |-> p \in job[r].unmatched]

\* All new parties are added, in parallel.
Added(r) == job[r].found

DisabledCleared(r) ==
    /\ job[r].at = "clearing"
    /\ TasksOf(r) = {}
    /\ Goes(r, [job[r] EXCEPT !.at = "adding"])
    /\ Issues({Task("add", r, p, SyncedRow(r, p)) : p \in Added(r)})
    /\ UNCHANGED <<ledger, onboarding>>

\* If no wallet is primary now, one is made so, by a promise nobody awaits.
WalletsAdded(r) ==
    /\ job[r].at = "adding"
    /\ TasksOf(r) = {}
    /\ Goes(r, Idle)
    /\ \/ /\ PrimariesIn(rows) = {}
          /\ \E p \in Stored : Issues({Task("setPrimary", NoRequest, p, NoRow)})
       \/ /\ PrimariesIn(rows) # {} \/ Stored = {}
          /\ UNCHANGED tasks
    /\ UNCHANGED <<ledger, onboarding>>

-----------------------------------------------------------------------------

\* createWallet or setPrimaryWallet ends.
Answered(r) ==
    /\ job[r].at = "storing"
    /\ TasksOf(r) = {}
    /\ Throws(r)

\* The user or an operator of the provider signs, or does not.
ProviderDecides(p, answer) ==
    /\ onboarding[p] = "pending"
    /\ onboarding' = [onboarding EXCEPT ![p] = answer]
    /\ UNCHANGED <<rows, tasks, job, ledger, ghosts, crashed, bounds>>

\* The gateway restarts: requests and what they have issued are gone.
Restart ==
    /\ restarts < MaxRestarts
    /\ restarts' = restarts + 1
    /\ tasks' = {}
    /\ job' = [r \in Request |-> Idle]
    /\ crashed' = FALSE
    /\ UNCHANGED <<rows, ledger, onboarding, ghosts, started>>

\* What an earlier run of the gateway may have left in the table: wallets of
\* parties the user has a right on, usable or not, and wallets that wait for their
\* provider.
Earlier(table) ==
    \A p \in Party : table[p] # NoRow =>
        \/ table[p].status = "allocated" /\ p \in RightsMap /\ ~table[p].tx
        \/ table[p].status = "initialized" /\ External(p) /\ table[p].tx /\ ~table[p].disabled

\* The ledger may host parties of the user that the gateway knows nothing of, and
\* parties of others that the user may only read or execute as.
Init ==
    /\ hosted \in SUBSET Party
    /\ rights \in SUBSET hosted
    /\ readable = hosted \ rights
    /\ rows \in [Party -> Row \cup {NoRow}]
    /\ Earlier(rows)
    /\ Stored # {} => Cardinality(PrimariesIn(rows)) = 1
    /\ onboarding = [p \in Party |-> IF p \in Stored /\ rows[p].status = "initialized"
                                     THEN "pending" ELSE "none"]
    /\ tasks = {}
    /\ job = [r \in Request |-> Idle]
    /\ removed = {} /\ known = {}
    /\ crashed = FALSE
    /\ started = 0 /\ restarts = 0

Starts(r) ==
    \/ \E p \in Party, isPrimary \in BOOLEAN : CreateWallet(r, p, isPrimary)
    \/ \E p \in Party : PollWallet(r, p) \/ SetPrimary(r, p)
    \/ SyncWallets(r)

Continues(r) ==
    \/ SignedAtOnce(r)
    \/ \E answer \in {"pending", "rejected", "none"} : Asked(r, answer)
    \/ KeyFails(r)
    \/ PollSaysSigned(r)
    \/ PollSaysPending(r)
    \/ PollSaysNo(r)
    \/ WalletRemoved(r)
    \/ \E q \in Party : PollStartsOver(r, q)
    \/ AllocateParty(r)
    \/ GrantRights(r)
    \/ LedgerFails(r)
    \/ RightsRead(r)
    \/ \E unmatched \in SUBSET NewParties(r) : WalletsRead(r, unmatched)
    \/ DisabledCleared(r)
    \/ WalletsAdded(r)
    \/ Answered(r)

Next ==
    \/ /\ ~crashed
       /\ \/ RunTask
          \/ \E r \in Request : Starts(r) \/ Continues(r)
    \/ \E p \in Party, answer \in {"signed", "rejected"} : ProviderDecides(p, answer)
    \/ Restart

Spec == Init /\ [][Next]_vars

-----------------------------------------------------------------------------
(* Properties *)

TypeOK ==
    /\ rows \in [Party -> Row \cup {NoRow}]
    /\ tasks \subseteq
        [op : {"add", "insert", "setPrimary", "swap", "remove", "update"},
         by : Request \cup {NoRequest}, party : Party, row : Row \cup {NoRow},
         old : SUBSET Party]
    /\ job \in [Request ->
        [kind : {"none", "create", "poll", "setPrimary", "sync"},
         at : {"idle", "asking", "polling", "removing", "allocating", "granting",
               "storing", "rights", "reading", "clearing", "adding"},
         party : Party \cup {NoParty}, primary : BOOLEAN, context : BOOLEAN,
         tx : BOOLEAN, status : {"initialized", "allocated"},
         found : SUBSET Party, unmatched : SUBSET Party]]
    /\ RightsMap \subseteq hosted /\ hosted \subseteq Party
    /\ onboarding \in [Party -> {"none", "pending", "signed", "rejected"}]
    /\ removed \subseteq {"poll", "sync"} /\ known \subseteq Party
    /\ crashed \in BOOLEAN
    /\ started \in 0..MaxRequests /\ restarts \in 0..MaxRestarts

\* A wallet that is shown as allocated is one whose party the ledger hosts and the
\* user has been granted a right on: no poll that is answered late, fails or starts
\* over says it too early.  Of a party that others have allocated, and a sync has
\* found, the user may be able to read only.
AllocatedIsHosted ==
    \A p \in Stored : rows[p].status = "allocated" =>
        p \in hosted /\ (p \in rights \/ p \in readable)

\* As long as no wallet was removed, one of the wallets is primary, also when
\* several first wallets are added in parallel, each of them as the first one.
FirstIsPrimary ==
    Stored # {} /\ removed = {} => PrimariesIn(rows) # {}

Quiet == tasks = {} /\ \A r \in Request : job[r].at = "idle"

\* When all requests, and what they have left behind, have come to rest, a user with
\* wallets has a primary one, "the primary wallet for dApp usage": a sync that
\* removes the primary wallet adds it back or makes another one primary, and the
\* setPrimaryWallet it does not wait for does not get in the way of the next
\* request's.  Only a poll may have removed it.
PrimaryAtRest ==
    Quiet /\ ~crashed /\ restarts = 0 /\ "poll" \notin removed /\ Stored # {}
        => PrimariesIn(rows) # {}

\* Every party that a sync has found on the ledger has a wallet when all
\* requests have come to rest, whether the sync removed it and has added it
\* back or found it new, failed halfway or ran together with another.
FoundIsStored ==
    Quiet /\ ~crashed /\ restarts = 0 => known \subseteq Stored

=============================================================================
