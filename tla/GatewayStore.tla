---------------------------- MODULE GatewayStore ----------------------------
(***************************************************************************)
(* A gateway and its databases: a process that is down, starting            *)
(* (StoreMigration) or serving the user API (Registry), with the tables that *)
(* outlive it.  Requests are served once the start is complete: init.ts     *)
(* registers the API's handlers last.                                      *)
(***************************************************************************)
EXTENDS StoreMigration, Registry

vars == <<database, process, tables, counts, registry>>

GatewayInit == Init /\ RegistryInit

\* What requests were about to do goes with the process.
StartStep ==
    /\ StartNext
    /\ req' = IF phase' = "serving" THEN req ELSE [u \in User |-> Idle]
    /\ UNCHANGED requests

ServeStep ==
    /\ phase = "serving" /\ RegistryNext
    /\ UNCHANGED <<database, process, counts>>

GatewayNext == StartStep \/ ServeStep

Safety == GatewayInit /\ [][GatewayNext]_vars

\* The process goes on, and what runs it starts it again.
Fairness ==
    /\ WF_vars(Proceed /\ StartStep)
    /\ WF_vars(StartGateway /\ StartStep)

Spec == Safety /\ Fairness

-----------------------------------------------------------------------------

TypeOK == RegistryOK /\ MigrationOK

(***************************************************************************)
(* A gateway that serves has every table, column and key its queries need,  *)
(* wherever earlier starts have crashed.                                   *)
(***************************************************************************)
ServesFullSchema == phase = "serving" => objects = FullSchema

(***************************************************************************)
(* A gateway that serves has every wallet, key and transaction there was    *)
(* before it was migrated or that was added since, except what went with    *)
(* its network; and a user with primary wallets on a network still has      *)
(* exactly one, one of those.                                              *)
(***************************************************************************)
ServesEveryRow ==
    phase = "serving" =>
        /\ \A t \in Rebuilt \ {"wallets"} : rows[t] = due[t]
        /\ Keys(rows["wallets"]) = Keys(due["wallets"])
        /\ OnePerGroup(rows["wallets"])
        /\ \A v \in Primaries(due["wallets"]) :
              \E w \in Primaries(rows["wallets"]) \cap Primaries(due["wallets"]) :
                  w.network = v.network /\ w.user = v.user

Configured ==
    /\ ConfigIdps \subseteq idps
    /\ \A n \in DOMAIN ConfigNetworks : networks[n] # Null

Undisturbed == crashes = 0 /\ commands = 0

(***************************************************************************)
(* A database that the first start had to create, and that no crash and no  *)
(* command has touched, is served with all of the configuration in it: the  *)
(* providers are stored before the networks that refer to them.            *)
(***************************************************************************)
ServesConfiguration ==
    [][phase # "serving" /\ phase' = "serving" /\ Undisturbed /\ ~existed
       => Configured]_vars

(***************************************************************************)
(* "Networks defined in the configuration are the default networks          *)
(* available to all users" (the gateway's configuration documentation):     *)
(* they are there when the gateway gets to serve, with no crash and no       *)
(* command before.                                                         *)
(***************************************************************************)
DefaultNetworks ==
    [][phase # "serving" /\ phase' = "serving" /\ Undisturbed
       => \A n \in DOMAIN ConfigNetworks : networks[n] # Null]_vars

(***************************************************************************)
(* "Cannot delete IDP as it is in use by existing networks" (removeIdp's    *)
(* error): while a network uses a provider, nobody removes it.             *)
(***************************************************************************)
UsedIdpStays ==
    [][\A i \in idps \ idps', n \in Network : networks[n] = Null \/ networks[n].idp # i]_vars

NoNetwork == 6 \notin log /\ \E w \in rows["wallets"] : w.network = Null

(***************************************************************************)
(* After the last crash the gateway serves for good, unless a crash left a  *)
(* migration halfway, or a wallet without a network stops migration 006.    *)
(***************************************************************************)
StartsUnlessHalfway == <>[](phase = "serving") \/ <>[](Halfway \/ NoNetwork)

=============================================================================
