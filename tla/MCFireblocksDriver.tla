------------------------- MODULE MCFireblocksDriver -------------------------
(* Configurations for TLC: the gateway's, with one workspace for all; one   *)
(* where every user has a key of another workspace; one where they differ.  *)
EXTENDS FireblocksDriver, TLC

CONSTANTS u1, u2, w1, w2, gateway, others, mixed

Own ==
    gateway :> (u1 :> w1 @@ u2 :> None)
    @@ others :> (u1 :> w2 @@ u2 :> w2)
    @@ mixed :> (u1 :> w1 @@ u2 :> w2)

Started == w1 :> 2 @@ w2 :> 1

Defaults == gateway :> w1 @@ others :> w2 @@ mixed :> None

Work(users, vaults_, others_, decisions, signs, lists, configs, faults) ==
    [users |-> users, vaults |-> vaults_, others |-> others_, decisions |-> decisions,
     signs |-> signs, lists |-> lists, configs |-> configs, faults |-> faults]

\* Keys and signatures with a new vault and a new configuration; a list over
\* transactions that are created meanwhile; signatures, then a list.
Mixed ==
    {Work({u1, u2}, 1, 0, 0, 2, 0, 1, 0),
     Work({u2}, 0, 3, 0, 0, 1, 0, 0),
     Work({u1}, 0, 1, 1, 1, 1, 0, 1)}

=============================================================================
