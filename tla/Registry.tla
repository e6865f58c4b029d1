------------------------------ MODULE Registry ------------------------------
(***************************************************************************)
(* Networks, identity providers and sessions in the user API and the SQL    *)
(* store, and the wallets that hang on a network                            *)
(* (wallet-gateway/remote/src/user-api/controller.ts,                       *)
(* core/wallet-store-sql/src/store-sql.ts).                                 *)
(*                                                                         *)
(* A request looks at the tables first and changes them after an await: the *)
(* tables may be others by then, for it is another user's turn in between.  *)
(* An identity provider stands for its issuer, so a token is accepted while *)
(* the provider of its user is stored.                                      *)
(***************************************************************************)
EXTENDS StoreTables

CONSTANTS
    Issuer,         \* Issuer[u]: the identity provider u's tokens come from
    MaxRequests     \* bound: requests in all

ASSUME RegistryAssumption ==
    Issuer \in [User -> Idp] /\ MaxRequests \in Nat

VARIABLES
    req,        \* req[u]: what u's request will do
    requests

registry == <<req, requests>>

Stages == {"idle", "update_network", "find_idp", "insert_network", "insert_idp",
           "delete_idp", "add_wallet", "insert_wallet"}

Request == [at : Stages, network : Network \cup {Null}, idp : Idp \cup {Null},
            wallet : WalletRow \cup {Null}]

Stage(at, n, i) == [at |-> at, network |-> n, idp |-> i, wallet |-> Null]
Idle == Stage("idle", Null, Null)

RegistryInit ==
    /\ req = [u \in User |-> Idle]
    /\ requests = 0

\* verifyToken looks the issuer up among the stored providers.
Accepted(u) == Issuer[u] \in idps
\* sessionHandler: everything but addSession and the lists needs a session.
LoggedIn(u) == Accepted(u) /\ sessions[u] # Null

Asks(u) == /\ req[u] = Idle /\ requests < MaxRequests
           /\ requests' = requests + 1
Reached(u, stage) == req[u].at = stage
Continue(u, r) == req' = [req EXCEPT ![u] = r] /\ UNCHANGED requests
Done(u) == Continue(u, Idle)
SameTables == UNCHANGED <<idps, networks, sessions, rows, due>>

-----------------------------------------------------------------------------

\* addNetwork updates a network the caller sees and else adds it.
AddNetwork(u, n, i) ==
    /\ LoggedIn(u) /\ Asks(u)
    /\ req' = [req EXCEPT ![u] =
          Stage(IF n \in VisibleTo(u) THEN "update_network" ELSE "find_idp", n, i)]
    /\ SameTables

\* user_id is undefined in the update, which leaves the column alone; no row, no
\* error, and a provider that is not stored fails the foreign key.
UpdateNetwork(u) ==
    /\ Reached(u, "update_network")
    /\ LET r == req[u] IN
       networks' = IF networks[r.network] # Null /\ r.idp \in idps
                   THEN [networks EXCEPT ![r.network].idp = r.idp]
                   ELSE networks
    /\ Done(u) /\ UNCHANGED <<idps, sessions, rows, due>>

FindIdp(u) ==
    /\ Reached(u, "find_idp")
    /\ Continue(u, IF req[u].idp \in idps THEN [req[u] EXCEPT !.at = "insert_network"]
                                          ELSE Idle)
    /\ SameTables

\* The transaction checks the id again; the foreign key checks the provider.
AddsNetwork(u) ==
    /\ Reached(u, "insert_network")
    /\ IF networks[req[u].network] = Null /\ req[u].idp \in idps
       THEN InsertNetwork(req[u].network, u, req[u].idp)
       ELSE UNCHANGED networks
    /\ Done(u) /\ UNCHANGED <<idps, sessions, rows, due>>

\* Only its owner removes a network, so nobody removes a global one.
RemoveNetwork(u, n) ==
    /\ LoggedIn(u) /\ Asks(u) /\ UNCHANGED req
    /\ networks[n] # Null /\ networks[n].owner = u
    /\ DeleteNetworks({n}) /\ UNCHANGED <<idps, sessions>>

\* addIdp of a stored provider is an update, which leaves its id alone.
AddIdp(u, i) ==
    /\ LoggedIn(u) /\ Asks(u) /\ i \notin idps
    /\ req' = [req EXCEPT ![u] = Stage("insert_idp", Null, i)]
    /\ SameTables

AddsIdp(u) ==
    /\ Reached(u, "insert_idp")
    /\ idps' = idps \cup {req[u].idp}
    /\ Done(u) /\ UNCHANGED <<networks, sessions, rows, due>>

\* "Cannot delete IDP as it is in use": of the networks the caller sees.
RemoveIdp(u, i) ==
    /\ LoggedIn(u) /\ Asks(u)
    /\ \A n \in VisibleTo(u) : networks[n].idp # i
    /\ req' = [req EXCEPT ![u] = Stage("delete_idp", Null, i)]
    /\ SameTables

\* The transaction looks at the provider only; the networks go with it.
DeleteIdp(u) ==
    /\ Reached(u, "delete_idp")
    /\ idps' = idps \ {req[u].idp}
    /\ DeleteNetworks({n \in Network : networks[n] # Null /\ networks[n].idp = req[u].idp})
    /\ Done(u) /\ UNCHANGED sessions

\* addSession stores the session before it looks the network up, and keeps it
\* when there is none.
AddSession(u, n) ==
    /\ Accepted(u) /\ Asks(u) /\ UNCHANGED req
    /\ sessions' = [sessions EXCEPT ![u] = n]
    /\ UNCHANGED <<idps, networks, rows, due>>

RemoveSession(u) ==
    /\ LoggedIn(u) /\ Asks(u) /\ UNCHANGED req
    /\ sessions' = [sessions EXCEPT ![u] = Null]
    /\ UNCHANGED <<idps, networks, rows, due>>

\* createWallet reads the session's network, then waits for the ledger.
CreateWallet(u) ==
    /\ LoggedIn(u) /\ Asks(u)
    /\ sessions[u] \in VisibleTo(u)
    /\ req' = [req EXCEPT ![u] = Stage("add_wallet", sessions[u], Null)]
    /\ SameTables

\* addWallet reads the wallets of what is now the session's network, and a first
\* one is primary, like one that is asked to be; the wallet belongs to the network
\* read at first.
LookAtWallets(u, p, asked) ==
    /\ Reached(u, "add_wallet")
    /\ LET n == req[u].network
           here == {w \in rows["wallets"] : w.user = u /\ w.network = sessions[u]}
           wallet == [party |-> p, network |-> n, user |-> u,
                      primary |-> asked \/ here = {}]
       IN Continue(u, IF /\ sessions[u] # Null /\ sessions[u] \in VisibleTo(u)
                         /\ Key(wallet) \notin Keys(here)
                      THEN [req[u] EXCEPT !.at = "insert_wallet", !.wallet = wallet]
                      ELSE Idle)
    /\ SameTables

\* The transaction demotes the user's other wallets of the network for a primary
\* one.  The foreign key checks the network, the composite key the party.
AddsWallet(u) ==
    /\ Reached(u, "insert_wallet")
    /\ LET wallet == req[u].wallet
           With(table) ==
              {IF wallet.primary /\ w.network = wallet.network /\ w.user = wallet.user
               THEN Demoted(w) ELSE w : w \in table}
              \cup {wallet}
       IN IF networks[wallet.network] # Null /\ Key(wallet) \notin Keys(rows["wallets"])
          THEN /\ rows' = [rows EXCEPT !["wallets"] = With(@)]
               /\ due' = [due EXCEPT !["wallets"] = With(@)]
          ELSE UNCHANGED <<rows, due>>
    /\ Done(u) /\ UNCHANGED <<idps, networks, sessions>>

Requested(u) ==
    \/ \E n \in Network, i \in Idp : AddNetwork(u, n, i)
    \/ \E n \in Network : RemoveNetwork(u, n) \/ AddSession(u, n)
    \/ \E i \in Idp : AddIdp(u, i) \/ RemoveIdp(u, i)
    \/ RemoveSession(u)
    \/ CreateWallet(u)

Continued(u) ==
    \/ UpdateNetwork(u) \/ FindIdp(u) \/ AddsNetwork(u)
    \/ AddsIdp(u) \/ DeleteIdp(u)
    \/ \E p \in Party, asked \in BOOLEAN : LookAtWallets(u, p, asked)
    \/ AddsWallet(u)

RegistryNext == \E u \in User : Requested(u) \/ Continued(u)

RegistryOK ==
    /\ TablesOK
    /\ req \in [User -> Request]
    /\ requests \in 0..MaxRequests

=============================================================================
