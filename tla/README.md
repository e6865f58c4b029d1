# A verification project for the Splice wallet gateway

This directory holds TLA+ models of the wallet gateway and its libraries, the
TLC configurations that check them on small instances, and proofs checked by
TLAPS. The repository is a TypeScript monorepo: a *wallet gateway* (a Node
server that holds users' wallets and signs and submits transactions to a Canton
ledger), the libraries it is made of, a *dApp SDK* that web applications use to
talk to it, and a *wallet SDK* for programs that talk to the ledger themselves.

All of it runs on single-threaded event loops. What is hard about it is not
parallelism but what happens **between** two awaits: other requests run, rows and
shared objects change, promises that nobody awaits are still pending, a process
stops, a request fails after it had its effect.

Paths below are relative to `src/`.

## 1. Inventory

| Part | Source | State it keeps | Operations | What is hard |
|---|---|---|---|---|
| dApp API | `wallet-gateway/remote/src/dapp-api/` | none of its own: store, notifier | `connect`, `disconnect`, `status`, `ledgerApi`, `prepareExecute`, `listAccounts`, SSE | events sent before the work, store writes that are not awaited |
| User API | `wallet-gateway/remote/src/user-api/controller.ts` | none of its own: store, notifier | `createWallet`, `sign`, `execute`, `addSession`, `syncWallets`, networks, idps | handlers of several tabs interleave; sign and execute write without awaiting; external signing spans several calls |
| Wallet sync | `wallet-gateway/remote/src/ledger/wallet-sync-service.ts` | - | `isWalletSyncNeeded`, `syncWallets` | parallel adds that each decide who is primary; remove before add |
| Party allocation | `wallet-gateway/remote/src/ledger/party-allocation-service.ts` | - | `allocateParty`, `generateTopologyTransactions`, `allocatePartyWithExistingWallet` | a party exists before its wallet does |
| Store (SQL) | `core/wallet-store-sql/src/` | wallets, transactions, networks, idps, sessions | CRUD, migrations 001-007 | read-then-write outside transactions; SQLite (one connection) against PostgreSQL (a pool); a table rebuild that autocommits |
| Store (in memory) | `core/wallet-store-inmemory/src/StoreInternal.ts` | the same in a map | the same | a sync launched by the constructor |
| Ledger client | `core/ledger-client/src/ledger-client.ts` | synchronizer id, API version | `waitForPartyAndGrantUserRights`, paged scan, `postWithRetry` | polling against a limit, retry of what was done |
| Ledger API utilities | `core/ledger-client/src/ledger-api-utils.ts` | - | `awaitCompletion`, `retryable`, `promiseWithTimeout` | completions in windows, a timeout that does not cancel |
| ACS cache | `core/ledger-client/src/acs/` | snapshot, updates, offsets per key | `update`, `compact`, `calculateAt` | one object shared by all callers, changed around awaits |
| WebSocket streams | `core/asyncapi-client/src/websocket-client.ts`, `sdk/wallet-sdk/src/webSocketManager.ts` | socket, queue | `generate`, `subscribeToUpdates`, `subscribeToCompletions` | a socket that closes or fails while its client has a message |
| dApp SDK | `sdk/dapp-sdk/src/` | provider, listeners | `connect`, `prepareExecuteAndWait` | events of other transactions, time-outs |
| Splice provider | `core/splice-provider/src/` | listeners, SSE stream | `on`, `emit`, `removeListener`, `openSSE` | listener identity, reconnects |
| Notification service | `wallet-gateway/remote/src/notification/` | an emitter per user | `getNotifier` | - |
| Gateway start-up | `wallet-gateway/remote/src/init.ts`, `core/wallet-store-sql/src/{migrator,bootstrap,cli}.ts` | the log of migrations | migrate, load the configuration, serve; `db up`, `db bootstrap` | a crash between two statements of a migration that autocommits; statements that cannot be repeated |
| Fireblocks driver | `core/signing-fireblocks/src/` | two caches of keys per handler, the handler | `signTransaction`, `getKeys`, `getTransaction(s)`, `setConfiguration` | caches shared by users and filled around awaits, paging by time |
| Other signing drivers | `core/signing-*` | keys, provider transactions | `createKey`, `signTransaction`, `getTransaction` | external signing that is pending for minutes |
| Wallet SDK | `sdk/wallet-sdk/src/` | - | topology, token standard, ledger controllers | prepare/execute with completions; polls that outlive their call |
| Token standard, parser | `core/ledger-client/src/token-standard-service.ts`, `txparse/` | the client's offset | transfer choices, `listHoldingTransactions` | telling each change of a tree of events once; the next offset |

How they interact. A dApp's page runs the dApp SDK, whose provider calls the dApp API
over HTTP and hears its events over a stream (SSE); the user's popup runs the
frontend, which calls the user API and posts its token to the dApp's page. Both APIs
share the store, the notification service and a ledger client per request. The user
API calls signing drivers, which are polled, and the ledger, which is polled too.
The store is one connection (SQLite) or a pool (PostgreSQL). Programs without a
gateway use the wallet SDK, whose ledger client caches active contracts.

What makes the parts correct:

- *dApp and user API, transactions*: executed means committed, once, as approved; a
  status never goes back; what was announced can be found.
- *Wallets, sync, party allocation, store*: a wallet shown as usable is of a party that the
  ledger hosts and the user has a right on; a user who has wallets has a primary one; a sync
  leaves out no party it found.
- *SDK, provider, notifications*: a login ends the connect that waits for it, whenever
  the stream opens; a wait ends with something executed.
- *ACS cache and scan*: an answer is exactly what was active at the offset asked for;
  paging ends and reads nothing twice.
- *Ledger client*: a wait or retry ends, and neither reports a failure for what has
  taken effect nor does it twice.
- *Store and start-up*: a gateway that serves has its whole schema, every row that was
  stored and the configuration, wherever earlier starts have crashed; it comes to serve.
- *SDK client*: a list tells each change once and resumes where the last one ended; a
  client reads what it wrote; a poll ends, and does not miss what it tracks.
- *WebSocket streams*: a subscription yields everything from its offset on, once and in
  order, and ends or throws only with nothing silently dropped in between.
- *Fireblocks driver*: the key that signs is the one asked for; a list tells every
  transaction; paging ends.

Parts outside this project's interest: generated RPC and ledger clients,
`damljs`, `api-specs`, UI components, the browser extension shell, examples, the
mock OAuth server.

## 2. Modules

| Module | Part of the system | Composes |
|---|---|---|
| `AcsLedger` | the ledger as the ACS code reads it: creates and archives by offset, pages of updates (external) | - |
| `AcsOracle` | abstract: a call names an offset and is answered with what was active there | `AcsLedger` |
| `AcsContainer` | `ACSContainer`: one cache shared by concurrent calls of `update` | `AcsLedger`; implements `AcsOracle` |
| `AcsContainerProofs` | the theorems about it | `AcsContainer`, TLAPS |
| `TxApproval` | abstract: transactions are approved, committed once as approved, and then recorded and announced | - |
| `TxLifecycle` | a transaction from `prepareExecute` over the approve page, `sign` and `execute` to the ledger, and the table it is kept in | implements `TxApproval` |
| `TxLifecycleProofs` | the theorems about it that hold on every database | `TxLifecycle`, TLAPS |
| `TxOrderProofs` | the theorems that rest on SQLite's one connection, and the refinement of `TxApproval` | `TxLifecycleProofs` |
| `Wallets` | `createWallet`, its polls, `setPrimaryWallet`, `syncWallets`, the wallets table, the ledger's parties and rights, the signing providers | - |
| `WalletsProofs` | the theorems about it | `Wallets`, TLAPS |
| `DappSession` | `connect` and `prepareExecuteAndWait` of the dApp SDK, the event stream, the login popup, the session | - |
| `DappSessionProofs` | the theorems about it | `DappSession`, TLAPS |
| `StoreTables` | the rows of the SQL store and what its indexes and cascades do to them | - |
| `StoreMigration` | every `up()` of the wallet and the signing database, the log, start-up, `db up`, `db bootstrap`, crashes | `StoreTables` |
| `Registry` | networks, identity providers, sessions and `createWallet` of the user API on these tables | `StoreTables` |
| `GatewayStore` | a gateway that starts, serves, crashes and starts again | `StoreMigration`, `Registry` |
| `GatewayStoreProofs` | the theorems about it, those of `StoreMigration` and `Registry` among them | `GatewayStore`, TLAPS |
| `Participant` | the ledger as the wallet SDK reads it: transactions as nodes with descendants, completions, submissions in flight, parties (external) | - |
| `CommandWait` | `waitForPartyAndGrantUserRights`, `prepareSignExecuteAndWaitFor`, `awaitCompletion`, `promiseWithTimeout` | `Participant` |
| `TxParser` | `TransactionParser`: which holdings the events of a transaction tell | `Participant` |
| `TransactionList` | `listHoldingTransactions` and its offsets | `TxParser` |
| `AcsScan` | `fetchActiveContractsUntilComplete`, the paged scan without the cache | `Participant` |
| `UpdateStream` | a subscription over WebSocket: `WebSocketManager` and the generator of `WebSocketClient` | `Participant` |
| `SdkClient` | a program that uses the wallet SDK: waits, calls, lists, scans and a subscription | `CommandWait`, `TransactionList`, `AcsScan`, `UpdateStream` |
| `SdkClientProofs` | the theorems about it and the modules it composes | `SdkClient`, TLAPS |
| `FireblocksDriver` | the Fireblocks signing driver, with Fireblocks external | - |
| `FireblocksDriverProofs` | the theorems about it | `FireblocksDriver`, TLAPS |
| `MC*` | constants and symmetry for TLC | their module |

### How the code becomes actions

A handler is cut at its awaits, and nowhere else: what runs between two awaits is
one action. Whatever a handler reads before an await is kept in a variable of its
own (`tab`, `job`, `snap`, `from`), and whatever it reads after one it reads from
the shared state as others have left it. A promise that the code does not await
is a statement or a task that outlives its handler. When such a promise is
rejected nobody handles it and Node ends the process (`crashed`).

**`AcsContainer`.** `acs` is `this.acsSet`. `Enter` is the code of `update()` up to
its first await, on the set as the caller finds it: read a snapshot, compact, or
ask for a page. `SnapshotRead`, `Compacted`, `FullPage` and `LastPage` are what
follows each of these awaits, `PageWithoutSet` is the null dereference when another
call has dropped the set meanwhile, `RequestFailed` a rejected request.
Updates are kept as counts of creates and archives per contract; their offsets
are those of the ledger's history. A page is what the ledger may return: the
transactions up to some offset with checkpoints that it interleaves as it likes.
With `OverSocket` a snapshot may lack contracts (`Snapshots`): a socket that is closed
without an error event resolves with what has come by then. When a page arrives for a call whose
`beginExclusive` lies beyond its `endInclusive` the ledger refuses it
(`RangeServed`), which is then a failed request.

**`TxLifecycle`.** `db` is the queue of statements that were issued: with SQLite
(`OneConnection`) they run in that order, with PostgreSQL's pool in any order. Every
request first reads the session (`sessionHandler`). `setTransaction` is a read of
the row and then an insert or an update, awaited by nobody (`LookAtRow`,
`UpdateRow`, `InsertRow`; `InsertConflicts` is the rejection). `tab` is one opening
of the approve page with the request that it waits for. A sign with an external driver is
`WalletToSign`, `SignNow` (the driver signs), `TxToSign` (the row's creation date is read) and
`RecordSigned` (what was signed is written and announced, and the page answered). `AskToExecute`
is the page's next request, `Unheard` an answer that does not reach it. The ledger
commits a command id once for a party. A primary wallet exists.

**`Wallets`.** `tasks` are the operations the requests have asked the store to do.
Each reads the table (`LookBeforeAdd`, `LookBeforeSet`) and later writes it in a
transaction (`InsertWallet`, `SwapPrimary`, `RemoveWallet`, `UpdateWallet`). Tasks
run in any order, which is more than either database does; they differ in
what the first statement of a transaction sees (`TakesOver`): with SQLite the
rows as they are, with PostgreSQL's overlapping transactions possibly those there
were when the wallets were read. `job` is where each request stands. A
`Promise.all` one member of which is rejected fails its request and leaves the
others running for nobody (`Rejected`). `hosted` are the ledger's parties, `rights` those
the user may act as, `readable` those on which the user has a right to read or to execute only.
`getPartiesRightsMap` takes all three (`RightsMap`), and so a sync stores a wallet, "allocated",
for a party that the user cannot act as. `onboarding` is what the signing provider says of a
party's topology transaction. The session, its user and its network do not
change; each party is created under a key and hint of its own (`Fresh`).

**`DappSession`.** Requests, the event stream (`stream`) and the messages of the
popup (`inbox`) are channels of their own, with no order among them.
`AuthMessage` is the SDK's listener for the popup's message: it reopens the
stream, whose pending events are lost, and asks for the status (`queries`), whose
answers come in any order, or fail and are logged (`StatusFails`; the ghost `unanswered`). A session is numbered by its login, and a
`statusChanged` event with session 0 is one that is not connected. The page of
the dApp is not reloaded and has one provider; a second share of a page that
the user visits later in the same popup is left out (it repeats the first).

**`StoreMigration`, `Registry`, `GatewayStore`.** A migration is a sequence of
statements (`Script`); each of them is a step, on SQLite outside of any transaction,
and `Crash` may come between any two. `log` is the table of executed migrations, to
which `LogMigration` adds when `up()` returns. `objects` are the tables, columns and
indexes; `rows` what the tables hold, of which a wallet is a record and the
others opaque. `due` is a ghost: the rows a user has a right to. A new process
runs what the log lacks and from its first statement, on what an interrupted one has
left. `Init` is the database of any earlier release, none, or one that is there and empty
(`existed`): a PostgreSQL database is created by its operator, and for the connection type
`memory` the start finds no file whose absence it could notice. Requests are
cut at their awaits; what `removeIdp`, `addNetwork` or `addWallet` (`LookAtWallets`,
`AddsWallet`) has looked at is in `req`.

**`SdkClient`.** `history` is what the participant has sequenced. A transaction is a
list of nodes in preorder, built one node at a time (`draft`) so that every tree of
the bound is reached; each node creates, exercises or archives a contract, by a
choice the parser knows or one it does not. `call` is where the program is, `polls`
are the polls of `awaitCompletion`, which a timeout leaves running. `list` is the
parser with the node it is at, `scan` the scan with `currentOffset`. History only
grows, and a list or a scan reads up to an end it has asked for once: what
others do meanwhile cannot change it, so that the participant waits for them
(`Reads`), which makes the state space smaller and no behaviour of the client different.
`stream` is the generator of a subscription: the socket's callbacks (`SocketOpens`,
`MessageArrives`, `SocketCloses`, `SocketFails`) fill `queue` and wake it; `Resumes`
is what follows its await, `Continues` what follows a `yield`, when its client asks for
more. The two differ in that only the first looks at `streamError`. `stream.begin` is the
offset that the request carries, `stream.promised` (a ghost) the one that the doc comments
say it begins at; `scan.read` (a ghost) counts how often a scan has read each transaction.

**`FireblocksDriver`.** `handlers` are `this.fireblocks` and those it has replaced,
each with its clients and its two caches. `req` is where each user's request
stands, with the page it works on. A vault's number stands for its derivation path. Any
configuration that differs from the present one, be it in its `apiPath` alone, brings a new
handler with empty caches (`SetConfiguration`).

## 3. Runs

All bounds are CONSTANTS of their module and stand in guards.

| Run | Question | Bounds and why they are enough |
|---|---|---|
| `acs_serial` | is the cache invisible to one caller at a time? | 2 contracts, offsets 0..4, 4 calls, pages of 2, pruning from 2 events with delta 1: a call can page, compact, be compacted again and ask for an earlier offset |
| `acs_concurrent` | what survives two callers? | 1 contract, offsets 0..3, 4 calls; both may be in any await; snapshots over a socket |
| `acs_torn` (violation) | are overlapping calls answered completely, even if no call asks for an earlier offset than another has (`OrderedSpec`)? | 1 contract, offsets 0..3, two callers, 4 calls, snapshots over HTTP; the shortest counterexample needs three calls |
| `tx_sqlite` | SQLite: do executed rows agree with the ledger, stay, and get recorded? | 2 calls, 1 page, 2 wallets of both custodies, 3 clicks, a switch of the primary wallet, a lost answer, a restart. The calls have ids of their own (`FreshIds`), as `prepareExecute` gives them when the dApp names none: this is a bound, and a hypothesis of the theorems about these properties, which are not claimed for calls that share an id; `tx_pages` checks what is |
| `tx_pages` | two pages on one command id: is what is committed what was approved? | 2 calls of the same id, 2 pages, 3 clicks, a lost answer, a restart |
| `wallets_sqlite` | does the table agree with the ledger, keep a primary wallet, and lack no party a sync has found? | 2 parties at Blockdaemon (the provider with most steps), 2 requests at a time of 3, a restart; every table an earlier run may have left, and every division of the hosted parties into those the user may act as and those with a lesser right. Parties and requests are symmetric |
| `wallets_postgres` (violation) | the same for a first sync on PostgreSQL | 2 parties, 1 request |
| `dapp_login` | does a shared login end the connect that waits, does a wait resolve only with something executed? | 2 connects, 2 logins, 1 logout or broken stream, a transaction of the dApp and one of another tab |
| `dapp_reconnect` (violation) | is the connect of an authenticated user answered? | 2 connects, 1 login, no faults |
| `gateway_store` | does a gateway that serves have its schema, its rows and its configuration, and does it come to serve? | the databases of every release, none, and an empty one, on SQLite and PostgreSQL; 2 crashes (one inside a migration, one inside what repeats it), 1 command, 2 requests of 2 users, 2 parties, 3 networks, 2 providers |
| `sdk_client` | do lists, scans and subscriptions tell everything once, do polls track what they should and end? | seven budgets (`Mixed`): trees of 3 nodes with one list; 2 nodes with others' updates and two lists; 3 nodes and a scan; 2 calls with and without faults; a party, a call, a list and a scan; a subscription that begins anywhere in a history of 2 nodes and 2 other updates, which may come before it or while it runs, with a close or a failure. Pages of 1 completion and 2 updates, 2 tries of the party |
| `fireblocks` | does the right key sign, is nothing left out, do requests end? | three budgets: 2 users, a new vault and a new configuration; 3 transactions of any times, before or during a list; a signature, a decision, a fault and a list. Pages of 2 |

Further configurations ask what these runs leave open. `WalletsSerial.cfg` passes; each of the
others is a violation, of what a document or a comment says, that TLC finds in seconds.

| Configuration | Module, property | What TLC shows | Said in |
|---|---|---|---|
| `AcsBeforeSnapshot.cfg` | `MCAcsContainer`, `NeverBeforeSnapshot` | a snapshot that comes while another call waits for its page puts the set beyond that call's offset, and `calculateAt` rejects | `acs-container.ts:140` "This should never happen" |
| `WalletsSerial.cfg` (passes) | `MCWallets`, `PrimaryAtRest` | four requests one at a time, with what they leave behind: at rest a user with wallets has a primary one, unless a poll has removed it | `wallet-sync-service.ts:382` |
| `WalletsPrimary.cfg` | `MCWallets`, `PrimaryAtRest` | with two at a time it is lost: a sync removes the primary wallet, and fails to add a wallet that `createWallet` has stored meanwhile | `wallet-sync-service.ts:382` |
| `DappOwn.cfg` | `MCDappSession`, `ResolvesWithOwn` | `prepareExecuteAndWait` resolves with the transaction of another tab | `openrpc-dapp-api.json:96` |
| `GatewayConfig.cfg` | `MCGatewayStore`, `DefaultNetworks` | on an empty database that was there before, the first start serves without the networks of its configuration | `configuration/index.rst:313` |
| `GatewayIdp.cfg` | `MCGatewayStore`, `UsedIdpStays` | `removeIdp` deletes a provider that another user's network has come to use, and the network and its wallets with it | `store-sql.ts:344` |
| `ScanFinds.cfg` | `MCSdkClient`, `ScanFindsActive` | a scan loses the second contract that a transaction creates | `ledger-client.ts:621` |
| `ScanReturns.cfg` | `MCSdkClient`, `ScanReturnsOnlyActive` | a scan returns a contract that has been consumed | `tokenStandardController.ts:334`, `finding-and-reading-data/index.rst:43` |
| `StreamUpdates.cfg` | `MCSdkClient`, `UpdatesFromOffset` | `subscribeToUpdates` starts at 0 whatever its `beginOffset` | `ledgerController.ts:251` |
| `StreamHoldings.cfg` | `MCSdkClient`, `HoldingsFromOffset` | `subscribeToHoldingUtxos` without an offset starts at 0, not at the ledger end | `tokenStandardController.ts:308` |
| `StreamFailure.cfg` | `MCSdkClient`, `FailureIsThrown` | a failure that comes while the client has a message ends the stream like a close | `webSocketManager.ts:157` |

Two of anything are enough for what these properties can lose: each names a
conflict of two actors (callers, pages, wallets, stores of one row) or of one
actor with its own later step; the third request, click or call is the one that
observes the damage. Deadlock is off where users, dApps and callers may
stop, which is everywhere.

### What the passing runs show

- **ACS** - `CacheInv`: the set tells the ledger's history between its snapshot and its
  last update; answers are exact; it is never dereferenced when null.
  `ImplementsOracle`: seen from outside there is no cache. Both need one caller and
  snapshots over HTTP. With two callers and snapshots that a socket cuts short
  `NothingFromTheFuture` remains, and `EveryCallSettles`: paging ends.
- **Transactions** - `ExecutedIsCommitted`: what a row or an event calls executed is on the
  ledger under that command, and the row names the transaction that was committed.
  `StoreNeverConflicts`, `ExecutedSticks`, `PageFindsTransaction`: SQLite's one
  connection makes up for the missing awaits; with `OneConnection = FALSE` the last
  two fail. `CommittedIsRecorded`: liveness, unless an answer is
  lost or the gateway restarts. `CommittedWasApproved`: an external party's transaction is
  committed only as a page has shown it. `ImplementsApproval`: seen from outside,
  pages, requests and statements come to no more than approving, committing once, and
  recording what is committed; an executed row is taken back only by another transaction
  with its command id.
- **Wallets** - `AllocatedIsHosted`: a wallet shown as allocated is of a party that the
  ledger hosts and the user has a right on, which need not be the right to act as it.
  `FirstIsPrimary`: nothing but a removal may leave a user who has wallets without a primary
  one (that there is not more than one is the table's unique index, and no property here).
  `FoundIsStored`: a party that a sync has found has a wallet when all has come to rest.
  After removals too there is a primary wallet at rest if requests come one at a time
  (`WalletsSerial.cfg`), and not if they overlap (`WalletsPrimary.cfg`).
- **dApp** - `LoginConnects`: the request for the status makes up for an event stream
  that opens too late. It is about logins the provider has not heard of: if the same
  session is shared again, nobody is told, and a connect that waits times out; and if the
  request for the status fails, it is not repeated, so that the property excepts logins
  whose status was never answered.
- **Store** - `ServesFullSchema`, `ServesEveryRow`: however often a start has crashed,
  what serves is complete. Not because migrations can be repeated: 002 to 005 cannot, and 006 and
  003 of the signing store drop the only copy of their rows when they are repeated after a crash
  between the drop and the rename. In each of these cases the next start fails,
  and every one after it; `StartsUnlessHalfway` says that these are the
  only cases in which a gateway does not come to serve. `ServesConfiguration`: a first
  start that creates the database, and that nothing interrupts, loads all of the
  configuration without a failure. An interrupted one, or `db up` before it, leaves it
  unloaded, and so does any start on a database that was there and empty: that is what
  `memory` is, and PostgreSQL's must be (`GatewayConfig.cfg`).
- **SDK** - `ToldIsLedger`: successive lists add up to the holdings on the ledger, but
  for a holding that a choice unknown to the parser has consumed. `NothingSkipped`,
  `PollsEnd`: a full page of completions does not hide the one that is awaited,
  also of a submission found in flight. `ReadsItsWrite`: a list after a call
  has that call's transaction. `PartyIsAwaited`: a wait that gives up may have seen
  the party once, at its last try. `EachTransactionOnce`, `ScanEnds`
  are about a scan's paging: every transaction up to the end it has asked for is read once,
  and no contract is returned twice. They do not say that the result is what is active, as
  its documents do; it is not (`ScanFinds.cfg`, `ScanReturns.cfg`).
  `StreamTellsAll`: a subscription yields the party's transactions from the offset in its
  request on, in order and without a gap; a close or a failure takes no message with it,
  unless the generator throws, and a generator that waits has something to wait for. It
  says neither that the request carries the offset its documents promise
  (`StreamUpdates.cfg`, `StreamHoldings.cfg`) nor that every failure is thrown
  (`StreamFailure.cfg`).
- **Fireblocks** - `SignsWithKey`, `VaultsAreKnown`, `ListsAll`, `RequestsEnd`. The first
  three are about handlers whose users open one workspace, as the gateway
  configures it: the caches know derivation paths, not workspaces, and with API keys
  of two workspaces they would not hold. `ListsAll` excepts transactions created at the same
  time as another: the next page ends at `createdAt - 1`. A configuration that is
  set later loses the default key (`Handler(.., None)`).

### What the violations show

Each is a line of the documentation or of the code against what the code
does; PROJECT.json quotes them.

1. `acs_torn` - two calls begin on an empty cache; the snapshot of the one with the older
   offset arrives last and replaces the newer set, whose owner then pages from an older set
   (`acs-container.ts:89`), so that an answer is not complete to its offset. No call asks
   for less than another has, so the reset for an earlier offset (`:92-94`) has no part in it.
2. `wallets_postgres` - parallel first adds are all primary; on PostgreSQL the unique
   index refuses the second, the sync fails and its party has no wallet.
3. `dapp_reconnect` - `connect` of an authenticated provider looks for a session in an
   answer that never has one, opens the popup and waits for an event that may
   have come before.

The further configurations of the table above show ten disagreements more;
PROJECT.json has them among its findings, with the cfg that shows each.

## 4. Fairness

| Module | Fair | Why | Not fair |
|---|---|---|---|
| `AcsContainer` | resuming a call | requests are answered or fail after a bounded number of retries | making a call |
| `TxLifecycle` | statements, handlers' continuations | a database and an event loop run what was issued | clicks, switches, restarts, lost answers |
| `DappSession` | requests, messages, events, the page's own steps | the same, and messages between windows arrive | users, dApps, timeouts, failures |
| `GatewayStore` | the process's next statement, and starting it again | a database answers; a supervisor restarts the gateway | crashes, commands, requests |
| `SdkClient` | polls, the sequencing of what was submitted, the scan's pages | a poll asks every second; the participant answers | calls, lists, timeouts, faults, what others do |
| `FireblocksDriver` | the next step of each request | Fireblocks answers or fails | users, Fireblocks' vaults, transactions and decisions, faults |
| `Wallets` | none | its properties are safety; `FoundIsStored` speaks of states where all requests have come to rest | - |

## 5. Proofs

Every safety and action property that a passing run checks is also a theorem, for every value of the
constants that the named assumptions of its module allow. Some have a hypothesis more, for
what the code does not ensure by itself: `OneConnection` (SQLite), a restriction of the
constants (`Serial`, `FreshIds`, `AllExternal`), or of the users (`OnePage`, `OwnPages`: how
often a page is open). The sections say what each is for. The bounds on clicks, faults,
requests and the like are arbitrary.

### The ACS cache

`AcsContainerProofs` holds for every set of callers and contracts (finite), ledger end, page
limit, pruning threshold and delta that the named assumptions (`LedgerAssumption`,
`ConfigAssumption`, `NoAcsAssumption`) allow.

| Theorem | States |
|---|---|
| `TypeCorrect` | `Spec => []TypeOK` |
| `NothingFromTheFutureAlways` | `Spec => []NothingFromTheFuture`, however many callers overlap and wherever a socket cuts a snapshot |
| `SerialCacheCorrect` | `Serial /\ Spec => []CacheInv`: with one caller at a time, and snapshots over HTTP, answers are exact |
| `SerialImplementsOracle` | `Serial /\ Spec => ImplementsOracle` |

`TypeOK` is not inductive: a compaction works on a set that its caller holds, so `TypeInv`
adds that a compacting call holds one. Exactness is not inductive either: `CacheInv` says
what the set means (`Faithful`: the snapshot, the creates and the archives agree with the
history up to `last`), and that a request in flight was made from the set as it still is
(`InFlight`). It is the second part that concurrent callers break, which is why
`SerialCacheCorrect` assumes `Serial` and `acs_torn` fails without it. The lemmas say what
each helper does to `Faithful`: `FreshAcsFaithful`, `CompactFaithful`, `AbsorbEffect`,
`AbsorbFaithful`, `CalculateAtExact`. The refinement maps a waiting call to the oracle's
busy one, and every internal step to a stutter.

### The wallets

`WalletsProofs` holds for every finite set of parties, any assignment of signing providers
to them, any rights, any set of requests, either database, and any bounds on requests and
restarts (`WalletsAssumption`). The run `wallets_sqlite` checks all of them on two parties.

| Theorem | States |
|---|---|
| `TypeCorrect` | `Spec => []TypeOK` |
| `AllocatedIsHostedAlways` | `Spec => []AllocatedIsHosted` |
| `FirstIsPrimaryAlways` | `Spec => []FirstIsPrimary` |
| `FoundIsStoredAlways` | `Spec => []FoundIsStored` with `OneConnection`; on PostgreSQL it is false (`wallets_postgres`) |

None of them is inductive. `IInv` carries the word
"allocated" back to where it is written: a row that says it is of a party in `RightsMap`, those
with a right of any kind (`Allocated`), a task that will store it names such a party
(`GoodTask`), a job that removes a wallet holds "initialized", one that is about to grant
rights names a party the ledger hosts, and what a sync has found is in `RightsMap`
(`GoodJob`); all of `RightsMap` is hosted, and the ledger forgets nothing (`Grows`), so that what was true when the row was made is true when
it is written, however late. `FirstInv` says what a write may rely on although it has read
the table earlier: until a wallet is removed, a wallet inserted as not primary joins another
one, and the wallet a swap makes primary is still there. The steps
of requests are separated from those of the store by `LooksFirst`: a request issues no task
that writes primary wallets without looking.

`FoundInv` follows a party that a sync has found until it has a wallet: it is stored, or a
task that adds it is under way, or a sync that is about to remove or add wallets still seeks
it (`Sought`). A sync removes only what it will add; a task is owned by the stage of the job
that issued it (`Issued`), so that a request cannot come to rest before its tasks. What
SQLite adds is that an insert takes over from whatever wallet is primary when it runs, and
so is never refused by the index.

### Transactions

`TxLifecycleProofs` and `TxOrderProofs` hold for all sets of calls, pages, commands and
wallets (`LifecycleAssumption`); `RowAssumption` says that the markers of the model are not
the names of calls.

| Theorem | States | Hypotheses |
|---|---|---|
| `TypeCorrect` | `Spec => []TypeOK` | - |
| `CommittedWasApprovedAlways` | `Spec => []CommittedWasApproved` | - |
| `ExternalExecutedIsCommitted` | `Spec => []ExecutedIsCommitted` | `AllExternal` |
| `FreshExecutedIsCommitted` | `Spec => []ExecutedIsCommitted` | `OneConnection`, `FreshIds` |
| `EveryPageFindsItsTransaction` | `Spec => []PageFindsTransaction` | `OneConnection` |
| `InsertsNeverConflict` | `Spec => []StoreNeverConflicts`, at least until a restart | `OneConnection`, `FreshIds`; after a restart `OnePage` |
| `ExecutedRowsStick` | `Spec => ExecutedSticks` | `OneConnection`, `FreshIds`, `[]OnePage` |
| `GatewayImplementsApproval` | `Spec => ImplementsApproval` | `OneConnection`, `AllExternal` or `FreshIds`, `[]OwnPages` |

What holds on every database comes from the pages. A page has at most one step of sign and
execute under way, and its state names that step (`Alone`, `GoodTab`); so the party and the
transaction that were shown at the click are those of the page ever after, and what an
external wallet's execute sends is what was signed. A write that says executed is issued
when its transaction is on the ledger (`Backed`, `RInv`).

A participant, however, is sent the payload that the row holds, and the row is called
executed with the transaction that it names. A sign writes the second and leaves the first
alone, so that if two calls share a command id a row may hold the payload of one and the
transaction of the other. This is why the hypothesis is `AllExternal`, or `FreshIds` (no two
calls have one command id) with the order of SQLite, under which a row names the transaction
of its payload (`Faithful`, `Whole`).

The rest is about order. Each request runs two or three statements, and each one issues the
next at the end of the queue, so that what runs first is decided by how many rounds a
statement's turn has left and by its place among those with as many (`Rounds`, `Before`).
When a page looks for a row that is not there, each of its reads comes after a write of that
row (`Finds`). The writes of a command that one page has open take turns with the page, one
at a time (`Alternate`), so that none is under way when the page signs or executes: from the
driver's signature on, over the read of the row and the write of what was signed, to the
answer, the page's own stage says whose turn it is (`TurnsOf`). With two
pages at one `userUrl` a late sign may overwrite what the other page has executed, which
`OnePage` excludes. A restart loses the statements in flight, and with them perhaps the row:
both pages would then insert it.

The refinement maps a click on Approve to `TxApproval`'s approval, a commit of the ledger to
its commit, and the write or the event that says executed to its recording. Reads, sessions,
lost answers and restarts are stutters. `OwnPages` asks of command ids that one call has
that they are open on one page: an executed row may be taken back only where another
transaction has its command id.

### The dApp session

`DappSessionProofs` holds for any transactions, calls, logins, connects and faults.

| Theorem | States |
|---|---|
| `TypeCorrect` | `Spec => []TypeOK` |
| `ResolvedIsExecutedAlways` | `Spec => []ResolvedIsExecuted` |

`prepareExecuteAndWait` looks at nothing but the event, which may be one of another tab, of
an earlier session or late. So the invariant is about the stream: every event in it that
says executed is of a transaction the gateway has executed (`Truthful`). `NameAssumption`
separates the states of a wait from transactions.

### The gateway's store

`GatewayStoreProofs` holds for any users, networks, providers, parties, configuration and
databases of earlier releases, on both databases, and for any number of crashes and commands
(`TablesAssumption`, `ConfigAssumption`, `OldWalletsAssumption`, `BoundsAssumption`).
`KindsAssumption` says that the ids of identity providers and those of networks are told
apart.

| Theorem | States |
|---|---|
| `TypeCorrect` | `Spec => []TypeOK` |
| `ServesFullSchemaAlways` | `Spec => []ServesFullSchema` |
| `ServesEveryRowAlways` | `Spec => []ServesEveryRow` |
| `ServesConfigurationAlways` | `Spec => ServesConfiguration`, for a first start that creates the database |

The scripts are data, and each is shown once to have the shape the rest of the proof needs
(`Shape`): what it makes, that it drops a table only when the copy has been filled, and
renames the copy when the table is dropped. `Schema` then says of each point of a start
which objects there must be (`Kept`: all that logged migrations make, but for a table that
is to be rewritten by one that is not logged yet). `Data` says that a table, where it is,
has the rows that are due, and so has its copy between the drop and the rename (`Faithful`;
of wallets: each of them, and a primary one where there was one). A table that a crash has
taken away is never filled again, because the migration that rewrites it fails without it;
such a gateway does not come to serve, and neither invariant needs migrations to be
repeatable. `ConfigInv` distinguishes four states of a first start that creates its database,
which the ghost `existed` tells apart from one that finds it empty (`New`, `FirstStart`,
`Loading`, `Settled`): no column is there before it is added, no table has a row, and
providers are loaded before the networks that name them, so nothing fails.

### The SDK client

`SdkClientProofs` holds for any contracts, commands, trees of transactions, budgets, tries
and page limits (`ContractAssumption`, `ParticipantAssumption`, `WaitAssumption`,
`LimitAssumption`).

| Theorem | States |
|---|---|
| `TypeCorrect` | `Spec => []TypeOK` |
| `PartyIsAwaitedAlways` | `Spec => []PartyIsAwaited` |
| `NothingSkippedAlways` | `Spec => []NothingSkipped` |
| `ReadsItsWriteAlways` | `Spec => []ReadsItsWrite` |
| `EachTransactionOnceAlways` | `Spec => []EachTransactionOnce` |
| `StreamTellsAllAlways` | `Spec => []StreamTellsAll` |
| `ToldIsLedgerAlways` | `Spec => []ToldIsLedger` |

- Waits: a poll begins below the completion it tracks, and a page of completions is a prefix
  of what follows its begin (`AllPolled`); so an offset taken from a full page cannot pass
  it. Of each call there is at most one submission, and one completion (`Tracking`). A call
  is confirmed with the offset of its transaction (`Confirmed`), and a list that follows
  ends at or beyond it (`Listing`).
- Lists: on the ledger a contract is created and consumed at most once (`OneLife`). What a
  list has told is described by which contracts were born and gone in the nodes it has read
  (`Tale`). The tales of the nodes of a transaction, of successive transactions and of
  successive lists are composed (`Joined`, `TaleOver`), and what is born and gone in one
  event may be left out of it, as the parser does. `Listing` says that the next list begins
  where this one ends.
- Scans: each transaction of the party up to `currentOffset` has been read once, and what is
  returned of it is one of the contracts it creates (`Paged`).
- Subscriptions: what was told, followed by the queue, is all that was sent, in order
  (`Hearing`), whatever closes or fails.

### The Fireblocks driver

`FireblocksDriverProofs` holds for any users, workspaces, vaults, configurations, page sizes
and transactions (`ConfigAssumption`). That the users of a handler open one workspace is a
premise of the properties themselves (`OneWorkspace`).

| Theorem | States |
|---|---|
| `TypeCorrect` | `Spec => []TypeOK` |
| `SignsWithKeyAlways` | `Spec => []SignsWithKey` |
| `VaultsAreKnownAlways` | `Spec => []VaultsAreKnown` |
| `ListsAllAlways` | `Spec => []ListsAll` |

Both caches agree with Fireblocks, for handlers whose users open one workspace (`Caches`). A
request stays with the handler it began with, which forgets nothing (`HsGrow`); vaults are
looked up in order, so the cache knows all that the request has passed. A list covers what
it wants: each transaction has been told, is on the page at hand, is older than that page,
or was created at the same time as another (`Covered`).

### Only model-checked

Liveness: `EveryCallSettles`, `CommittedIsRecorded`, `LoginConnects`, `StartsUnlessHalfway`,
`PollsEnd`, `ScanEnds` and `RequestsEnd`. They need fairness, and the prover does not reason
about ENABLED. What violation runs refute is, of course, not proved either, and where a
theorem has a hypothesis the other case is not claimed. No module declares a RECURSIVE
operator.

## 6. Not modelled

- `down()` of the migrations, `db down`, `db reset`, and the commands of the signing
  database: an operator's repairs, not part of a start.
- The verification of tokens (signatures, issuers' keys) and the fetching of tokens;
  `Registry` has what a verified token lets through.
- The parser's amounts, locks, labels and memo; the selection of input holdings and the builders of
  commands (`token-standard-service.ts`, `amulet-service.ts`): functions of what they
  read, without state. Their requests are one call each.
- Retries of single requests: `retryable` never retries an error of the JSON API, because
  `asJsCantonError` does not match what the client throws; a request is
  answered or fails in all models.
- The in-memory store: the gateway uses it in tests only, and its operations do not
  interleave.
- The back-off of `WSSupportWithBackOffSwitch`: whether a snapshot is asked for over the
  socket is left open. A socket that falls silent after its first contract never
  settles its call; the fairness of `AcsContainer` leaves this out.
- The internal, participant and Blockdaemon drivers: keys and signatures are opaque, one
  request each; their answers are inputs of `Wallets` and `TxLifecycle`.
- User interface, browser extension, RPC plumbing; generated clients, protobuf code and
  Daml bindings, which are most of the repository's lines.
- A failed `prepareExecute` announces nothing (`TxChangedFailedEvent` is never
  emitted); the model has the failure and states nothing about it.

What the models show and nothing states as a violation, because no document we found promises
otherwise: a configuration that an interrupted first start leaves unloaded (what an empty
database does to it is stated, in `GatewayConfig.cfg`); a wallet, "allocated", of a party that
the user may only read as; a poll of a pending onboarding that stores an empty transaction id,
or removes the wallet of a party that may yet be signed; a holding consumed by an unknown choice,
which no list tells; the default Fireblocks key lost by `setConfiguration`; a snapshot that a
socket has cut short and that the cache keeps; a connect that waits for a status whose request
has failed.

## 7. Plan

1. Done: ACS cache with its oracle and proofs, transactions, wallets with proofs, dApp
   session, the gateway's store and its migrations, the wallet SDK's client with its
   subscription, the Fireblocks driver.
2. Done: all invariants and action properties of the passing runs as theorems, the
   refinements of `AcsOracle` and `TxApproval` among them.
3. Left: an abstract wallet registry that `Wallets` implements (rows appear for hosted
   parties, one is primary); what remains true of the transactions on PostgreSQL beyond
   `ExternalExecutedIsCommitted`; the safety parts of the liveness properties (every page of a
   paging call makes progress).
