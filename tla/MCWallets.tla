----------------------------- MODULE MCWallets -----------------------------
(* Small instances of Wallets for TLC: who signs for which party, and the   *)
(* symmetry of the requests and of the parties, which have one provider.   *)
EXTENDS Wallets, TLC

CONSTANTS p1, p2, r1, r2

TwoBlockdaemon == p1 :> "blockdaemon" @@ p2 :> "blockdaemon"
TwoParticipant == p1 :> "participant" @@ p2 :> "participant"
KernelAndFireblocks == p1 :> "kernel" @@ p2 :> "fireblocks"

WalletsSymmetry == Permutations(Request) \cup Permutations(Party)

=============================================================================
