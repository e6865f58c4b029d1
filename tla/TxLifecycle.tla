---------------------------- MODULE TxLifecycle ----------------------------
(***************************************************************************)
(* The life of a transaction in the wallet gateway: prepareExecute of the  *)
(* dApp API, the approve page, sign and execute of the user API, the       *)
(* transactions table and the ledger (wallet-gateway/remote/src,           *)
(* core/wallet-store-sql/src/store-sql.ts).                                *)
(*                                                                         *)
(* A handler is cut at its awaits.  A statement it awaits waits in db: with *)
(* SQLite there is one connection, and statements run in the order they    *)
(* were issued; PostgreSQL's pool runs them in any order.  Nobody awaits   *)
(* setTransaction, a read and then a write of the row, so its statements   *)
(* outlive their handler.                                                  *)
(*                                                                         *)
(* A prepared transaction is named by the prepareExecute call it was       *)
(* prepared for; its commands are the call's payload.                      *)
(***************************************************************************)
EXTENDS Integers, FiniteSets, SequencesExt

CONSTANTS
    Calls,          \* the prepareExecute calls of a dApp
    Command,        \* command ids
    CommandOf,      \* CommandOf[p]: params.commandId || v4() of call p
    Tabs,           \* each stands for one opening of the approve page
    Wallet,         \* the user's wallets (parties) on the current network
    Custody,        \* Custody[w]: "participant" or "external" (WALLET_KERNEL,
                    \* BLOCKDAEMON): who holds the key of w
    OneConnection,  \* TRUE: SQLite; FALSE: PostgreSQL
    MaxClicks,      \* bound: clicks on Approve
    MaxSwitches,    \* bound: changes of the primary wallet
    MaxLost,        \* bound: answers of the ledger that get lost
    MaxRestarts,    \* bound: restarts of the gateway by its operator
    NoRow, NoWallet, NoCall

ASSUME LifecycleAssumption ==
    /\ CommandOf \in [Calls -> Command]
    /\ Custody \in [Wallet -> {"participant", "external"}]
    /\ OneConnection \in BOOLEAN
    /\ MaxClicks \in Nat /\ MaxSwitches \in Nat /\ MaxLost \in Nat /\ MaxRestarts \in Nat
    /\ NoWallet \notin Wallet /\ NoCall \notin Calls

VARIABLES
    rows,         \* rows[c]: the row of c in the transactions table
    primary,      \* the primary wallet
    db,           \* the statements that were issued and have not run
    call,         \* call[p]: where the handler of call p stands
    preparedFor,  \* preparedFor[p]: the wallet p's transaction is prepared for
    tab,          \* tab[t]: the approve page and the request it waits for
    committed,    \* the ledger: what was committed, and for whom
    announced,    \* announced[c]: the statuses of c's txChanged events
    approved,     \* ghost: what the pages showed when Approve was clicked
    crashed,      \* a promise nobody awaits was rejected: the process is gone
    clicks, switches, lost, restarts

store == <<rows, primary, db>>
outside == <<committed, announced, approved>>
bounds == <<clicks, switches, lost, restarts>>
vars == <<store, call, preparedFor, tab, outside, crashed, bounds>>

Row == [status : {"pending", "signed", "executed"}, tx : Calls \cup {NoCall},
        payload : Calls \cup {"result", "none"}]

ASSUME RowAssumption ==
    NoRow \notin Row /\ Calls \cap {"result", "none", "keep"} = {}

\* What a setTransaction sets; an undefined payload leaves the column alone.
Patch == [status : {"pending", "signed", "executed"}, tx : Calls \cup {NoCall},
          payload : Calls \cup {"result", "keep"}]

\* The approve page, with what its pending sign or execute request carries.
Page == [at : {"closed", "open", "signing", "atDriver", "signed", "recording", "answered",
               "executing", "submitted", "done", "error"},
         cmd : Command \cup {NoRow}, tx : Calls \cup {NoCall},
         status : {"", "missing", "pending", "signed", "executed"},
         party : Wallet \cup {NoWallet}, sent : Calls \cup {NoCall},
         as : Wallet \cup {NoWallet}, sig : Calls \cup {NoCall},
         by : Wallet \cup {NoWallet}, held : Row \cup {NoRow}]

NoPatch == [status |-> "pending", tx |-> NoCall, payload |-> "keep"]

Query(op, by) == [op |-> op, by |-> by, cmd |-> NoRow, patch |-> NoPatch]
Write(op, c, patch) == [op |-> op, by |-> NoRow, cmd |-> c, patch |-> patch]

\* A request: before its handler runs, the middleware reads the session.
Request(op, by) == [Query("session", by) EXCEPT !.cmd = op]

\* Statements that may run now.
MutantAnyOrder == DOMAIN db
Runnable == IF OneConnection THEN {1} \cap DOMAIN db ELSE DOMAIN db

\* The statement at i runs, and its continuation issues the statements more.
RunAndIssue(i, more) == db' = RemoveAt(db, i) \o more

Issue(more) == db' = db \o more

Announce(c, status) ==
    announced' = [announced EXCEPT ![c] = @ \cup {status}]

-----------------------------------------------------------------------------
(* store.setTransaction, awaited by nobody                                 *)

\* Applied to an existing row and to none.
Updated(row, patch) ==
    [status |-> patch.status, tx |-> patch.tx,
     payload |-> IF patch.payload = "keep" THEN row.payload ELSE patch.payload]

MutantInserted(patch) == patch
Inserted(patch) ==
    [status |-> patch.status, tx |-> patch.tx,
     payload |-> IF patch.payload = "keep" THEN "none" ELSE patch.payload]

\* The write that follows the read of the row.
MutantAlwaysInsert(c, patch) == Write("insert", c, patch)
WriteAfterLook(c, patch) ==
    Write(IF rows[c] = NoRow THEN "insert" ELSE "update", c, patch)

LookAtRow(i) ==
    /\ db[i].op = "look"
    /\ RunAndIssue(i, <<WriteAfterLook(db[i].cmd, db[i].patch)>>)
    /\ UNCHANGED <<rows, primary, call, preparedFor, tab, outside, crashed, bounds>>

UpdateRow(i) ==
    /\ db[i].op = "update"
    /\ rows' = [rows EXCEPT ![db[i].cmd] = Updated(@, db[i].patch)]
    /\ RunAndIssue(i, <<>>)
    /\ UNCHANGED <<primary, call, preparedFor, tab, outside, crashed, bounds>>

InsertRow(i) ==
    /\ db[i].op = "insert"
    /\ rows[db[i].cmd] = NoRow
    /\ rows' = [rows EXCEPT ![db[i].cmd] = Inserted(db[i].patch)]
    /\ RunAndIssue(i, <<>>)
    /\ UNCHANGED <<primary, call, preparedFor, tab, outside, crashed, bounds>>

\* The primary key is taken: the rejected promise ends the process.
InsertConflicts(i) ==
    /\ db[i].op = "insert"
    /\ rows[db[i].cmd] # NoRow
    /\ crashed' = TRUE
    /\ db' = <<>>
    /\ UNCHANGED <<rows, primary, call, preparedFor, tab, outside, bounds>>

-----------------------------------------------------------------------------
(* sessionHandler                                                          *)

SessionRead(i) ==
    /\ db[i].op = "session"
    /\ RunAndIssue(i, <<Query(db[i].cmd, db[i].by)>>)
    /\ UNCHANGED <<rows, primary, call, preparedFor, tab, outside, crashed, bounds>>

-----------------------------------------------------------------------------
(* prepareExecute                                                          *)

PrepareExecute(p) ==
    /\ call[p] = "idle"
    /\ call' = [call EXCEPT ![p] = "wallet"]
    /\ Issue(<<Request("primaryForCall", p)>>)
    /\ UNCHANGED <<rows, primary, preparedFor, tab, outside, crashed, bounds>>

\* The primary wallet is read; txChanged is sent, and the ledger is asked to
\* prepare the transaction for that wallet.
WalletForCall(i) ==
    /\ db[i].op = "primaryForCall"
    /\ LET p == db[i].by IN
        /\ call' = [call EXCEPT ![p] = "preparing"]
        /\ preparedFor' = [preparedFor EXCEPT ![p] = primary]
        /\ Announce(CommandOf[p], "pending")
    /\ RunAndIssue(i, <<>>)
    /\ UNCHANGED <<rows, primary, tab, committed, approved, crashed, bounds>>

\* The row is left to a promise, and the dApp gets the userUrl at once.
Prepared(p) ==
    /\ call[p] = "preparing"
    /\ call' = [call EXCEPT ![p] = "returned"]
    /\ Issue(<<Write("look", CommandOf[p],
                     [status |-> "pending", tx |-> p, payload |-> p])>>)
    /\ UNCHANGED <<rows, primary, preparedFor, tab, outside, crashed, bounds>>

PrepareFails(p) ==
    /\ call[p] = "preparing"
    /\ call' = [call EXCEPT ![p] = "failed"]
    /\ UNCHANGED <<store, preparedFor, tab, outside, crashed, bounds>>

-----------------------------------------------------------------------------
(* The approve page                                                        *)

Closed == [at |-> "closed", cmd |-> NoRow, tx |-> NoCall, status |-> "",
           party |-> NoWallet, sent |-> NoCall, as |-> NoWallet, sig |-> NoCall, by |-> NoWallet,
           held |-> NoRow]

\* The page opens at a userUrl and asks for the transaction and the wallets.
OpenPage(t, p) ==
    /\ tab[t].at = "closed"
    /\ call[p] = "returned"
    /\ tab' = [tab EXCEPT ![t].at = "open", ![t].cmd = CommandOf[p]]
    /\ Issue(<<Request("txForPage", t), Request("walletsForPage", t)>>)
    /\ UNCHANGED <<rows, primary, call, preparedFor, outside, crashed, bounds>>

\* Without a row the request fails and the page stays blank ("missing").
TxForPage(i) ==
    /\ db[i].op = "txForPage"
    /\ LET t == db[i].by
           row == rows[tab[t].cmd] IN
        \/ /\ row # NoRow
           /\ tab' = [tab EXCEPT ![t].tx = row.tx, ![t].status = row.status]
        \/ /\ row = NoRow
           /\ tab' = [tab EXCEPT ![t].status = "missing"]
    /\ RunAndIssue(i, <<>>)
    /\ UNCHANGED <<rows, primary, call, preparedFor, outside, crashed, bounds>>

WalletsForPage(i) ==
    /\ db[i].op = "walletsForPage"
    /\ tab' = [tab EXCEPT ![db[i].by].party = primary]
    /\ RunAndIssue(i, <<>>)
    /\ UNCHANGED <<rows, primary, call, preparedFor, outside, crashed, bounds>>

\* The button is there until the page knows the transaction is executed, also
\* before the page has loaded.  The sign request holds what the page shows.
Approve(t) ==
    /\ tab[t].at \in {"open", "error"}
    /\ tab[t].status # "executed"
    /\ clicks < MaxClicks
    /\ clicks' = clicks + 1
    /\ tab' = [tab EXCEPT ![t].at = "signing", ![t].sent = tab[t].tx,
                       ![t].as = tab[t].party]
    /\ approved' = approved \cup {[tx |-> tab[t].tx, party |-> tab[t].party]}
    /\ Issue(<<Request("walletToSign", t)>>)
    /\ UNCHANGED <<rows, primary, call, preparedFor, committed, announced,
                   crashed, switches, lost, restarts>>

-----------------------------------------------------------------------------
(* sign                                                                    *)

\* The wallet of the page's party is looked up; without one, sign throws.
WalletToSign(i) ==
    /\ db[i].op = "walletToSign"
    /\ LET t == db[i].by IN
        tab' = [tab EXCEPT ![t].at = IF tab[t].as = NoWallet THEN "error"
                                     ELSE "atDriver"]
    /\ RunAndIssue(i, <<>>)
    /\ UNCHANGED <<rows, primary, call, preparedFor, outside, crashed, bounds>>

\* A participant signs when it executes: nothing is recorded.
SignLater(t) ==
    /\ tab[t].at = "atDriver"
    /\ Custody[tab[t].as] = "participant"
    /\ tab' = [tab EXCEPT ![t].at = "answered", ![t].sig = NoCall]
    /\ UNCHANGED <<store, call, preparedFor, outside, crashed, bounds>>

\* What an external driver signs and the row records: what the page sent (or,
\* in the mutant, what is stored by now).
MutantSigned(t) == IF rows[tab[t].cmd] = NoRow THEN NoCall ELSE rows[tab[t].cmd].tx
Signed(t) == tab[t].sent

\* The driver signs what the page sent, and the row is asked for.
SignNow(t) ==
    /\ tab[t].at = "atDriver"
    /\ Custody[tab[t].as] = "external"
    /\ tab' = [tab EXCEPT ![t].at = "signed", ![t].sig = Signed(t)]
    /\ Issue(<<Query("txToSign", t)>>)
    /\ UNCHANGED <<rows, primary, call, preparedFor, outside, crashed, bounds>>

\* Only the row's origin and the date of its creation are kept.
TxToSign(i) ==
    /\ db[i].op = "txToSign"
    /\ tab' = [tab EXCEPT ![db[i].by].at = "recording"]
    /\ RunAndIssue(i, <<>>)
    /\ UNCHANGED <<rows, primary, call, preparedFor, outside, crashed, bounds>>

\* What was signed becomes the row, whatever its status is, and the page is answered.
RecordSigned(t) ==
    /\ tab[t].at = "recording"
    /\ tab' = [tab EXCEPT ![t].at = "answered"]
    /\ Announce(tab[t].cmd, "signed")
    /\ Issue(<<Write("look", tab[t].cmd,
                     [status |-> "signed", tx |-> tab[t].sig, payload |-> "keep"])>>)
    /\ UNCHANGED <<rows, primary, call, preparedFor, committed, approved, crashed, bounds>>

\* Signing failed, or was still pending after the last poll.
SignFails(t) ==
    /\ tab[t].at = "atDriver"
    /\ Custody[tab[t].as] = "external"
    /\ tab' = [tab EXCEPT ![t].at = "error"]
    /\ UNCHANGED <<store, call, preparedFor, outside, crashed, bounds>>

-----------------------------------------------------------------------------
(* execute                                                                 *)

\* The page has the answer to its sign request, and goes on to execute.
AskToExecute(t) ==
    /\ tab[t].at = "answered"
    /\ tab' = [tab EXCEPT ![t].at = "executing"]
    /\ Issue(<<Request("primaryToExecute", t)>>)
    /\ UNCHANGED <<rows, primary, call, preparedFor, outside, crashed, bounds>>

\* The answer, or the request that follows it, gets lost.
Unheard(t) ==
    /\ tab[t].at = "answered"
    /\ tab' = [tab EXCEPT ![t].at = "error"]
    /\ UNCHANGED <<store, call, preparedFor, outside, crashed, bounds>>

\* The wallet that decides how to execute is the primary one by now.
PrimaryToExecute(i) ==
    /\ db[i].op = "primaryToExecute"
    /\ tab' = [tab EXCEPT ![db[i].by].by = primary]
    /\ RunAndIssue(i, <<Query("txToExecute", db[i].by)>>)
    /\ UNCHANGED <<rows, primary, call, preparedFor, outside, crashed, bounds>>

\* The row is read, whatever its status is; without one, execute throws.
TxToExecute(i) ==
    /\ db[i].op = "txToExecute"
    /\ LET t == db[i].by IN
        tab' = [tab EXCEPT ![t].held = rows[tab[t].cmd],
                           ![t].at = IF rows[tab[t].cmd] = NoRow THEN "error"
                                     ELSE "submitted"]
    /\ RunAndIssue(i, <<>>)
    /\ UNCHANGED <<rows, primary, call, preparedFor, outside, crashed, bounds>>

(***************************************************************************)
(* What the ledger commits (external).  A participant executes the stored  *)
(* payload for a party whose key it holds; an external party's transaction *)
(* needs that party's signature of the transaction itself.  Either way a   *)
(* command is committed at most once for a party.                          *)
(***************************************************************************)
ParticipantTakes(t) ==
    /\ Custody[tab[t].by] = "participant"
    /\ Custody[tab[t].party] = "participant"
    /\ tab[t].held.payload \in Calls

SignatureHolds(t) ==
    /\ Custody[tab[t].by] = "external"
    /\ tab[t].held.tx \in Calls
    /\ tab[t].sig = tab[t].held.tx
    /\ tab[t].party = preparedFor[tab[t].held.tx]
    /\ Custody[tab[t].party] = "external"

Executes(t) ==
    IF Custody[tab[t].by] = "participant" THEN tab[t].held.payload ELSE tab[t].held.tx

Commits(t) ==
    /\ ParticipantTakes(t) \/ SignatureHolds(t)
    /\ \A k \in committed : k.cmd # tab[t].cmd \/ k.party # tab[t].party
    /\ committed' = committed \cup {[cmd |-> tab[t].cmd, tx |-> Executes(t),
                                     party |-> tab[t].party]}

\* The status that a finished execute stores and announces.
MutantDone(t) == [status |-> "signed", tx |-> tab[t].held.tx, payload |-> "result"]
Done(t) == [status |-> "executed", tx |-> tab[t].held.tx, payload |-> "result"]

Executed(t) ==
    /\ tab[t].at = "submitted"
    /\ Commits(t)
    /\ tab' = [tab EXCEPT ![t].at = "done", ![t].status = "executed"]
    /\ Issue(<<Write("look", tab[t].cmd, Done(t))>>)
    /\ Announce(tab[t].cmd, "executed")
    /\ UNCHANGED <<rows, primary, call, preparedFor, approved, crashed, bounds>>

\* An error is passed on to the page: nothing is stored or announced.
MutantRecordsAnyway(t) ==
    /\ tab' = [tab EXCEPT ![t].at = "error"]
    /\ Issue(<<Write("look", tab[t].cmd, Done(t))>>)
    /\ UNCHANGED <<rows, primary>>
ExecuteThrows(t) == tab' = [tab EXCEPT ![t].at = "error"] /\ UNCHANGED store

\* The ledger refuses, for a reason above or one of its own.
Refused(t) ==
    /\ tab[t].at = "submitted"
    /\ ExecuteThrows(t)
    /\ UNCHANGED <<call, preparedFor, outside, crashed, bounds>>

\* The ledger commits and its answer does not arrive.
AnswerLost(t) ==
    /\ tab[t].at = "submitted"
    /\ lost < MaxLost
    /\ lost' = lost + 1
    /\ Commits(t)
    /\ ExecuteThrows(t)
    /\ UNCHANGED <<call, preparedFor, announced, approved, crashed,
                   clicks, switches, restarts>>

-----------------------------------------------------------------------------

\* setPrimaryWallet, whose statements are not this module's subject.
SwitchPrimary(w) ==
    /\ w # primary
    /\ switches < MaxSwitches
    /\ switches' = switches + 1
    /\ primary' = w
    /\ UNCHANGED <<rows, db, call, preparedFor, tab, outside, crashed, clicks, lost, restarts>>

\* The gateway restarts: handlers and statements are gone, pages get errors.
Restart ==
    /\ restarts < MaxRestarts
    /\ restarts' = restarts + 1
    /\ db' = <<>>
    /\ call' = [p \in Calls |-> IF call[p] \in {"wallet", "preparing"} THEN "failed"
                                ELSE call[p]]
    /\ tab' = [t \in Tabs |->
                IF tab[t].at \in {"signing", "atDriver", "signed", "recording", "executing",
                               "submitted"}
                THEN [tab[t] EXCEPT !.at = "error"] ELSE tab[t]]
    /\ UNCHANGED <<rows, primary, preparedFor, outside, crashed, clicks, switches, lost>>

Init ==
    /\ rows = [c \in Command |-> NoRow]
    /\ primary \in Wallet
    /\ db = <<>>
    /\ call = [p \in Calls |-> "idle"]
    /\ preparedFor = [p \in Calls |-> NoWallet]
    /\ tab = [t \in Tabs |-> Closed]
    /\ committed = {} /\ approved = {}
    /\ announced = [c \in Command |-> {}]
    /\ crashed = FALSE
    /\ clicks = 0 /\ switches = 0 /\ lost = 0 /\ restarts = 0

RunStatement ==
    \E i \in Runnable :
        \/ SessionRead(i)
        \/ LookAtRow(i)
        \/ UpdateRow(i)
        \/ InsertRow(i)
        \/ InsertConflicts(i)
        \/ WalletForCall(i)
        \/ TxForPage(i)
        \/ WalletsForPage(i)
        \/ WalletToSign(i)
        \/ TxToSign(i)
        \/ PrimaryToExecute(i)
        \/ TxToExecute(i)

\* The answers of the ledger and of the signing drivers, and what follows them.
Answered(p) == Prepared(p) \/ PrepareFails(p)
Signs(t) == SignLater(t) \/ SignNow(t) \/ RecordSigned(t) \/ SignFails(t)
Executing(t) == Executed(t) \/ Refused(t) \/ AnswerLost(t)

Next ==
    /\ ~crashed
    /\ \/ RunStatement
       \/ \E p \in Calls : PrepareExecute(p) \/ Answered(p)
       \/ \E t \in Tabs : \/ \E p \in Calls : OpenPage(t, p)
                          \/ Approve(t)
                          \/ Signs(t)
                          \/ AskToExecute(t)
                          \/ Unheard(t)
                          \/ Executing(t)
       \/ \E w \in Wallet : SwitchPrimary(w)
       \/ Restart

Spec == Init /\ [][Next]_vars

\* Statements run and every request is answered; users and dApps may stop.
FairSpec ==
    /\ Spec
    /\ WF_vars(~crashed /\ RunStatement)
    /\ \A p \in Calls : WF_vars(~crashed /\ Answered(p))
    /\ \A t \in Tabs : WF_vars(~crashed /\ Signs(t)) /\ WF_vars(~crashed /\ Executing(t))

-----------------------------------------------------------------------------
(* Properties *)

TypeOK ==
    /\ rows \in [Command -> Row \cup {NoRow}]
    /\ primary \in Wallet
    /\ \A i \in DOMAIN db : db[i].op \in {"look", "update", "insert"} =>
            db[i].cmd \in Command /\ db[i].patch \in Patch
    /\ call \in [Calls -> {"idle", "wallet", "preparing", "returned", "failed"}]
    /\ preparedFor \in [Calls -> Wallet \cup {NoWallet}]
    /\ tab \in [Tabs -> Page]
    /\ committed \subseteq [cmd : Command, tx : Calls, party : Wallet]
    /\ announced \in [Command -> SUBSET {"pending", "signed", "executed"}]
    /\ approved \subseteq [tx : Calls \cup {NoCall}, party : Wallet \cup {NoWallet}]
    /\ crashed \in BOOLEAN

\* What the wallet shows or announces as executed is on the ledger: a row with
\* the status executed names the transaction that was committed under its
\* command, whatever pages, sign calls and restarts came between.
ExecutedIsCommitted ==
    \A c \in Command :
        /\ rows[c] # NoRow /\ rows[c].status = "executed" =>
                \E k \in committed : k.cmd = c /\ k.tx = rows[c].tx
        /\ "executed" \in announced[c] => \E k \in committed : k.cmd = c

\* No setTransaction inserts a row that is there: its rejection, which nobody
\* handles, would end the process and every request in it.
StoreNeverConflicts == ~crashed

\* A transaction of an external party is committed only as it was shown on a
\* page whose Approve was clicked, also when a dApp has used its command id
\* for something else meanwhile.
CommittedWasApproved ==
    \A k \in committed :
        Custody[k.party] = "external" => [tx |-> k.tx, party |-> k.party] \in approved

\* The page opened at a userUrl that prepareExecute returned finds the
\* transaction, although nobody has waited for its row: the "review facility
\* where the user can approve or decline" (api-reference.rst:104) has something
\* to review.  A restart may lose the row.
PageFindsTransaction == restarts = 0 => \A t \in Tabs : tab[t].status # "missing"

\* Once a row says executed it goes on saying so.
ExecutedSticks ==
    [][\A c \in Command :
        rows[c] # NoRow /\ rows[c].status = "executed" =>
            rows'[c].status = "executed"]_vars

\* What the ledger has committed is recorded as executed in the end, if its
\* answer has arrived and the gateway has not restarted.
CommittedIsRecorded ==
    \A c \in Command :
        (\E k \in committed : k.cmd = c)
            ~> \/ rows[c] # NoRow /\ rows[c].status = "executed"
               \/ lost + restarts > 0

-----------------------------------------------------------------------------
(* What the gateway implements.                                            *)

Approval == INSTANCE TxApproval WITH
    Tx <- Calls, Party <- Wallet, NoTx <- NoCall, NoParty <- NoWallet,
    KeyHolders <- {w \in Wallet : Custody[w] = "external"},
    Reused <- {c \in Command : \E p, q \in Calls :
                  p # q /\ CommandOf[p] = c /\ CommandOf[q] = c},
    executed <- [c \in Command |->
                    IF rows[c] # NoRow /\ rows[c].status = "executed"
                    THEN rows[c].tx ELSE NoCall],
    told <- {c \in Command : "executed" \in announced[c]}

\* Pages, sign and execute requests, statements in flight, lost answers and restarts
\* come to no more than: what is approved is committed, once, and what is committed is
\* recorded and announced as executed.
ImplementsApproval == Approval!Spec

=============================================================================
