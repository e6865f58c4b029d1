--------------------------- MODULE StoreMigration ---------------------------
(***************************************************************************)
(* The gateway's start: migrate the wallet database, fill a new one from    *)
(* the configuration, migrate the signing database, serve                  *)
(* (wallet-gateway/remote/src/init.ts, the migrations of wallet-store-sql   *)
(* and signing-store-sql, and the commands db up and db bootstrap).         *)
(*                                                                         *)
(* No migration runs in a transaction: every statement commits on its own,  *)
(* and a migration is logged after its last one.  The process may crash     *)
(* between any two, and a statement that fails ends it.                     *)
(***************************************************************************)
EXTENDS StoreTables, Sequences

CONSTANTS
    ConfigIdps,     \* the identity providers and networks of config.json,
    ConfigNetworks, \* ConfigNetworks[n]: the provider of network n
    OldWallets,     \* sets of wallets an older release may have left
    MaxCrashes,     \* bound: crashes
    MaxCommands     \* bound: commands db up and db bootstrap

ASSUME ConfigAssumption ==      \* what loadConfigFile checks
    /\ ConfigIdps \subseteq Idp
    /\ DOMAIN ConfigNetworks \subseteq Network
    /\ \A n \in DOMAIN ConfigNetworks : ConfigNetworks[n] \in ConfigIdps

ASSUME KindsAssumption == Idp \cap Network = {}    \* ids of either kind in load

ASSUME OldWalletsAssumption == OldWallets \subseteq SUBSET WalletRow

ASSUME BoundsAssumption == MaxCrashes \in Nat /\ MaxCommands \in Nat

VARIABLES
    postgres,   \* the databases are PostgreSQL, not SQLite
    existed,    \* ghost: the wallet database was there before the first start
    created,    \* the wallet database exists
    objects,    \* the tables, columns, indexes and keys in the databases
    copy,       \* copy[t]: the rows of t_new or t_tmp
    log,        \* the migrations table: the migrations that were logged
    phase,      \* what the process does
    command,    \* what it was started as
    fresh,      \* the wallet database did not exist when it started
    pending,    \* the migrations it found not logged
    step,       \* the next statement of the first of them
    load,       \* the rows of the configuration it has yet to insert
    crashes, commands

database == <<postgres, existed, created, objects, copy, log>>
process == <<phase, command, fresh, pending, step, load>>
tables == <<idps, networks, sessions, rows, due>>
counts == <<crashes, commands>>

WalletMigrations == 1..7
SigningMigrations == 8..10

Do(what, on) == [do |-> what, on |-> on]

\* SQLite cannot change a key or a column's type: the table is written anew.
Rebuild(t) == <<Do("create_copy", t), Do("fill_copy", t), Do("drop", t), Do("rename", t)>>

\* "create" can be repeated (IF NOT EXISTS, or DROP IF EXISTS before it), "add"
\* cannot; an index stands for all the indexes of its table.
Script(m, onPostgres) ==
    CASE m = 1 -> <<Do("create", "idps"), Do("create", "networks"),
                    Do("create", "wallets"), Do("create", "transactions"),
                    Do("create", "sessions")>>
      [] m = 2 -> <<Do("add", "created_at"), Do("add", "signed_at")>>
      [] m = 3 -> <<Do("add", "origin")>>
      [] m = 4 -> <<Do("add", "session_id")>>
      [] m = 5 -> <<Do("add", "disabled"), Do("add", "reason")>>
      [] m = 6 -> IF onPostgres
                  THEN <<Do("not_null", "wallets"), Do("create", "composite_key")>>
                  ELSE <<Do("drop_copy", "wallets")>> \o Rebuild("wallets")
      [] m = 7 -> <<Do("demote", "wallets"), Do("create", "one_primary")>>
      [] m = 8 -> <<Do("create", "signing_keys"), Do("create", "signing_transactions"),
                    Do("create", "signing_driver_configs"),
                    Do("add", "signing_keys_index"),
                    Do("add", "signing_transactions_index")>>
      [] m = 9 -> <<Do("add", "signing_signed_at")>>
      [] m = 10 -> <<Do("drop_copy", "signing_transactions"),
                     Do("drop_copy", "signing_keys")>>
                   \o Rebuild("signing_transactions")
                   \o <<Do("create", "signing_transactions_index")>>
                   \o Rebuild("signing_keys")
                   \o <<Do("create", "signing_keys_index")>>

Copy == [wallets |-> "wallets_new", signing_keys |-> "signing_keys_tmp",
         signing_transactions |-> "signing_transactions_tmp"]
\* What a table has once it is rebuilt, and what goes with the old one.
Gains == [wallets |-> "composite_key", signing_keys |-> "key_dates_as_text",
          signing_transactions |-> "transaction_dates_as_text"]
Loses == [wallets |-> "one_primary", signing_keys |-> "signing_keys_index",
          signing_transactions |-> "signing_transactions_index"]

Doing(script, what) ==
    {script[k].on : k \in {x \in DOMAIN script : script[x].do = what}}

\* The same on either database.
Made(m) ==
    LET script == Script(m, FALSE) IN
    Doing(script, "create") \cup Doing(script, "add") \cup {Gains[t] : t \in Doing(script, "rename")}

\* What the stores' queries are written for.
FullSchema == UNION {Made(m) : m \in WalletMigrations \cup SigningMigrations}

Config == ConfigIdps \cup DOMAIN ConfigNetworks

-----------------------------------------------------------------------------

\* One primary wallet per network and user.
OnePerGroup(table) ==
    \A v, w \in Primaries(table) : v.network = w.network /\ v.user = w.user => v = w

\* What the releases with the wallet migrations up to version v could leave.
LeftBy(v) ==
    {table \in OldWallets :
        /\ v = 0 => table = {}
        /\ v < 6 => \A x, y \in table : x.party = y.party => x = y
        /\ v >= 6 => \A w \in table : w.network # Null
        /\ v >= 7 => OnePerGroup(table)}

\* No database, an empty one (a PostgreSQL database that its operator has created,
\* or one in memory), or one that earlier releases have migrated so far.
Init ==
    /\ postgres \in BOOLEAN
    /\ \E v \in 0..7, s \in 0..3, signing \in {{}, SigningRow} :
          /\ v = 0 => s = 0
          /\ s = 0 => signing = {}
          /\ created \in {v > 0, TRUE}
          /\ log = (1..v) \cup (8..(7 + s))
          /\ idps = IF v = 0 THEN {} ELSE ConfigIdps
          /\ \E table \in LeftBy(v) :
                rows = [t \in Rebuilt |-> IF t = "wallets" THEN table ELSE signing]
    /\ networks = [n \in Network |->
                      IF log # {} /\ n \in DOMAIN ConfigNetworks
                      THEN [owner |-> Null, idp |-> ConfigNetworks[n]] ELSE Null]
    /\ \E n \in DOMAIN ConfigNetworks \cup {Null} :
          sessions = [u \in User |-> IF log # {} THEN n ELSE Null]
    /\ existed = created
    /\ objects = UNION {Made(m) : m \in log}
    /\ copy = [t \in Rebuilt |-> {}]
    /\ due = rows
    /\ phase = "down" /\ command = "none" /\ fresh = FALSE
    /\ pending = {} /\ step = 1 /\ load = {}
    /\ crashes = 0 /\ commands = 0

-----------------------------------------------------------------------------

Enter(newPhase, found, toLoad) ==
    /\ phase' = newPhase /\ pending' = found /\ load' = toLoad /\ step' = 1

Down == /\ Enter("down", {}, {})
        /\ command' = "none" /\ fresh' = FALSE

\* A rejected initialize() or command ends the process.
Exit == Down /\ UNCHANGED <<database, tables, counts>>

StartGateway ==
    /\ phase = "down"
    /\ Enter("migrate_wallets", WalletMigrations \ log, {})
    /\ command' = "gateway" /\ fresh' = ~created /\ created' = TRUE
    /\ UNCHANGED <<postgres, existed, objects, copy, log, tables, counts>>

\* Opening an SQLite database creates it; a PostgreSQL one must be there.
StartCommand(c) ==
    /\ phase = "down" /\ commands < MaxCommands
    /\ postgres => created
    /\ IF c = "db_up" THEN Enter("migrate_wallets", WalletMigrations \ log, {})
                      ELSE Enter("load", {}, Config)
    /\ command' = c /\ fresh' = FALSE /\ created' = TRUE
    /\ commands' = commands + 1
    /\ UNCHANGED <<postgres, existed, objects, copy, log, tables, crashes>>

Current == CHOOSE m \in pending : \A k \in pending : m <= k
Statements == Script(Current, postgres)
Statement == Statements[step]
Migrating == phase \in {"migrate_wallets", "migrate_signing"} /\ pending # {}
At(what) == Migrating /\ step <= Len(Statements) /\ Statement.do = what

Executed == /\ step' = step + 1
            /\ UNCHANGED <<postgres, existed, created, log, phase, command, fresh, pending, load,
                           idps, networks, sessions, due, counts>>

MutantCreateObject ==
    /\ At("create")
    /\ IF Statement.on \in objects
       THEN Exit
       ELSE /\ objects' = objects \cup {Statement.on}
            /\ Executed /\ UNCHANGED <<copy, rows>>

CreateObject ==
    /\ At("create")
    /\ objects' = objects \cup {Statement.on}
    /\ Executed /\ UNCHANGED <<copy, rows>>

\* As if a column that is there said that the whole migration is done.
MutantAddObject ==
    /\ At("add")
    /\ objects' = objects \cup {Statement.on}
    /\ step' = IF Statement.on \in objects THEN Len(Statements) + 1 ELSE step + 1
    /\ UNCHANGED <<postgres, existed, created, copy, log, phase, command, fresh, pending, load,
                   tables, counts>>

AddObject ==
    /\ At("add")
    /\ IF Statement.on \in objects
       THEN Exit
       ELSE /\ objects' = objects \cup {Statement.on}
            /\ Executed /\ UNCHANGED <<copy, rows>>

\* The copy a crash has left is dropped first, even when it holds the only rows:
\* the branch of migration 006 that would rename it finds none.
DropCopy ==
    /\ At("drop_copy")
    /\ objects' = objects \ {Copy[Statement.on]}
    /\ copy' = [copy EXCEPT ![Statement.on] = {}]
    /\ Executed /\ UNCHANGED rows

CreateCopy ==
    /\ At("create_copy")
    /\ objects' = objects \cup {Copy[Statement.on]}
    /\ Executed /\ UNCHANGED <<copy, rows>>

\* NOT NULL columns of the copy refuse a wallet without a network.
MutantFillCopy ==
    /\ At("fill_copy")
    /\ IF \E w \in rows["wallets"] : w.network = Null
       THEN Exit
       ELSE /\ copy' = [copy EXCEPT ![Statement.on] = rows[Statement.on]]
            /\ Executed /\ UNCHANGED <<objects, rows>>

FillCopy ==
    /\ At("fill_copy")
    /\ IF Statement.on \notin objects \/ \E w \in rows["wallets"] : w.network = Null
       THEN Exit
       ELSE /\ copy' = [copy EXCEPT ![Statement.on] = rows[Statement.on]]
            /\ Executed /\ UNCHANGED <<objects, rows>>

DropTable ==
    /\ At("drop")
    /\ objects' = objects \ {Statement.on, Loses[Statement.on]}
    /\ rows' = [rows EXCEPT ![Statement.on] = {}]
    /\ Executed /\ UNCHANGED copy

RenameCopy ==
    /\ At("rename")
    /\ LET t == Statement.on IN
          /\ objects' = (objects \ {Copy[t]}) \cup {t, Gains[t]}
          /\ rows' = [rows EXCEPT ![t] = copy[t]]
          /\ copy' = [copy EXCEPT ![t] = {}]
    /\ Executed

CheckNotNull ==
    /\ At("not_null")
    /\ IF \E w \in rows["wallets"] : w.network = Null
       THEN Exit
       ELSE Executed /\ UNCHANGED <<objects, copy, rows>>

\* Of the primary wallets of a network and user the first stays primary: by rowid
\* on SQLite, by party on PostgreSQL.
Demote ==
    /\ At("demote")
    /\ \E stay \in SUBSET Primaries(rows["wallets"]) :
          /\ OnePerGroup(stay)
          /\ \A v \in Primaries(rows["wallets"]) :
                \E w \in stay : v.network = w.network /\ v.user = w.user
          /\ rows' = [rows EXCEPT !["wallets"] =
                         stay \cup {Demoted(w) : w \in @ \ stay}]
    /\ Executed /\ UNCHANGED <<objects, copy>>

MutantLogMigration ==
    /\ Migrating /\ step > Len(Statements)
    /\ log' = log \cup {Current}
    /\ pending' = pending \ {Current} /\ step' = 0
    /\ UNCHANGED <<postgres, existed, created, objects, copy, phase, command, fresh, load,
                   tables, counts>>

LogMigration ==
    /\ Migrating /\ step > Len(Statements)
    /\ log' = log \cup {Current}
    /\ pending' = pending \ {Current} /\ step' = 1
    /\ UNCHANGED <<postgres, existed, created, objects, copy, phase, command, fresh, load,
                   tables, counts>>

\* Bootstrap a database that did not exist, then see to the signing database.
WalletsMigrated ==
    /\ phase = "migrate_wallets" /\ pending = {}
    /\ IF command = "db_up" THEN Down
       ELSE /\ IF fresh THEN Enter("load", {}, Config)
                        ELSE Enter("migrate_signing", SigningMigrations \ log, {})
            /\ UNCHANGED <<command, fresh>>
    /\ UNCHANGED <<database, tables, counts>>

LoadIdp(i) ==
    /\ phase = "load" /\ i \in load
    /\ IF "idps" \notin objects \/ i \in idps
       THEN Exit
       ELSE /\ idps' = idps \cup {i} /\ load' = load \ {i}
            /\ UNCHANGED <<database, phase, command, fresh, pending, step, counts,
                           networks, sessions, rows, due>>

\* The networks follow when all providers are stored.
MutantLoadNetwork(n) ==
    /\ phase = "load" /\ n \in load
    /\ IF "networks" \in objects /\ networks[n] = Null /\ ConfigNetworks[n] \in idps
       THEN /\ InsertNetwork(n, Null, ConfigNetworks[n]) /\ load' = load \ {n}
            /\ UNCHANGED <<database, phase, command, fresh, pending, step, counts,
                           idps, sessions, rows, due>>
       ELSE Exit

LoadNetwork(n) ==
    /\ phase = "load" /\ load \cap Idp = {} /\ n \in load
    /\ IF "networks" \in objects /\ networks[n] = Null /\ ConfigNetworks[n] \in idps
       THEN /\ InsertNetwork(n, Null, ConfigNetworks[n]) /\ load' = load \ {n}
            /\ UNCHANGED <<database, phase, command, fresh, pending, step, counts,
                           idps, sessions, rows, due>>
       ELSE Exit

Loaded ==
    /\ phase = "load" /\ load = {}
    /\ IF command = "db_bootstrap" THEN Down
       ELSE /\ Enter("migrate_signing", SigningMigrations \ log, {})
            /\ UNCHANGED <<command, fresh>>
    /\ UNCHANGED <<database, tables, counts>>

Ready ==
    /\ phase = "migrate_signing" /\ pending = {}
    /\ Enter("serving", {}, {})
    /\ UNCHANGED <<database, command, fresh, tables, counts>>

Crash ==
    /\ phase # "down" /\ crashes < MaxCrashes
    /\ crashes' = crashes + 1
    /\ Down /\ UNCHANGED <<database, tables, commands>>

\* The process's own steps.
Proceed ==
    \/ CreateObject \/ AddObject
    \/ DropCopy \/ CreateCopy \/ FillCopy \/ DropTable \/ RenameCopy
    \/ CheckNotNull \/ Demote
    \/ LogMigration \/ WalletsMigrated
    \/ \E i \in ConfigIdps : LoadIdp(i)
    \/ \E n \in DOMAIN ConfigNetworks : LoadNetwork(n)
    \/ Loaded \/ Ready

StartNext ==
    \/ StartGateway
    \/ \E c \in {"db_up", "db_bootstrap"} : StartCommand(c)
    \/ Proceed
    \/ Crash

-----------------------------------------------------------------------------

Phases == {"down", "migrate_wallets", "load", "migrate_signing", "serving"}

MigrationOK ==
    /\ objects \subseteq FullSchema \cup {Copy[t] : t \in Rebuilt}
    /\ log \subseteq WalletMigrations \cup SigningMigrations
    /\ RowsOK(copy)
    /\ phase \in Phases
    /\ command \in {"none", "gateway", "db_up", "db_bootstrap"}
    /\ {postgres, existed, created, fresh} \subseteq BOOLEAN
    /\ pending \subseteq WalletMigrations \cup SigningMigrations
    /\ step \in Nat \ {0} /\ load \subseteq Config
    /\ crashes \in 0..MaxCrashes /\ commands \in 0..MaxCommands

\* What has been started and cannot be repeated: the database refuses every start.
Halfway ==
    \E m \in (WalletMigrations \cup SigningMigrations) \ log :
        \/ Doing(Script(m, postgres), "add") \cap objects # {}
        \/ m - 1 \in log /\ \E t \in Doing(Script(m, postgres), "drop") : t \notin objects

=============================================================================
