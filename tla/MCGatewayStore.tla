--------------------------- MODULE MCGatewayStore ---------------------------
(* Small instances of GatewayStore for TLC: the configuration, who logs in  *)
(* where, and what an older release may have left in the wallets table.     *)
EXTENDS GatewayStore, TLC

CONSTANTS u1, u2, i1, i2, n1, n2, n3, p1, p2

TwoNetworks == n1 :> i1 @@ n2 :> i1
OneIssuer == u1 :> i1 @@ u2 :> i1

Wallet(p, n, u, primary) == [party |-> p, network |-> n, user |-> u, primary |-> primary]

\* None; two primary wallets of one user on one network, or on two; the same party
\* with two users; a wallet without a network.
LeftWallets ==
    {{},
     {Wallet(p1, n1, u1, TRUE), Wallet(p2, n1, u1, TRUE)},
     {Wallet(p1, n1, u1, TRUE), Wallet(p2, n2, u1, TRUE)},
     {Wallet(p1, n1, u1, TRUE), Wallet(p1, n1, u2, FALSE)},
     {Wallet(p1, Null, u1, TRUE)}}

=============================================================================
