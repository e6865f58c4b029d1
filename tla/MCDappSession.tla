--------------------------- MODULE MCDappSession ---------------------------
(* Small instances of DappSession for TLC: the transactions.                *)
EXTENDS DappSession

OneCall == {"call"}
OneElsewhere == {"other"}

=============================================================================
