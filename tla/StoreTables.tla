---------------------------- MODULE StoreTables ----------------------------
(***************************************************************************)
(* The tables of the gateway's two databases that outlive a process: what   *)
(* a migration rebuilds (StoreMigration) is what the user API changes       *)
(* (Registry).  core/wallet-store-sql/src and core/signing-store-sql/src.   *)
(***************************************************************************)
EXTENDS Integers, FiniteSets

CONSTANTS
    User, Idp, Network, Party,
    SigningRow,     \* the rows of signing_keys and of signing_transactions
    Null            \* no row; as an owner: a global network

VARIABLES
    idps,       \* the idps table: the ids it holds
    networks,   \* networks[n]: n's row, its owner and its identity provider
    sessions,   \* sessions[u]: the network of u's session
    rows,       \* rows[t]: the rows of table t, one a migration rebuilds
    due         \* ghost: the rows the user has a right to find in t

Rebuilt == {"wallets", "signing_keys", "signing_transactions"}

NetworkRow == [owner : User \cup {Null}, idp : Idp]

\* network_id may be null until migration 006.
WalletRow == [party : Party, network : Network \cup {Null}, user : User,
              primary : BOOLEAN]

ASSUME TablesAssumption == Null \notin User \cup Idp \cup Network \cup Party \cup NetworkRow

RowsOK(r) ==
    /\ DOMAIN r = Rebuilt
    /\ r["wallets"] \subseteq WalletRow
    /\ \A t \in Rebuilt \ {"wallets"} : r[t] \subseteq SigningRow

TablesOK ==
    /\ idps \subseteq Idp
    /\ networks \in [Network -> NetworkRow \cup {Null}]
    /\ sessions \in [User -> Network \cup {Null}]
    /\ RowsOK(rows) /\ RowsOK(due)

Key(w) == <<w.party, w.network, w.user>>
Keys(table) == {Key(w) : w \in table}
Demoted(w) == [w EXCEPT !.primary = FALSE]
Primaries(table) == {w \in table : w.primary}

\* The networks an unauthenticated caller (u = Null) or u sees.
VisibleTo(u) ==
    {n \in Network : networks[n] # Null /\ networks[n].owner \in {Null, u}}

\* identity_provider_id references idps.id: no row without its provider.
InsertNetwork(n, owner, i) ==
    /\ networks[n] = Null
    /\ i \in idps
    /\ networks' = [networks EXCEPT ![n] = [owner |-> owner, idp |-> i]]

\* wallets.network_id references networks.id ON DELETE CASCADE.
DeleteNetworks(S) ==
    /\ networks' = [n \in Network |-> IF n \in S THEN Null ELSE networks[n]]
    /\ rows' = [rows EXCEPT !["wallets"] = {w \in @ : w.network \notin S}]
    /\ due' = [due EXCEPT !["wallets"] = {w \in @ : w.network \notin S}]

=============================================================================
