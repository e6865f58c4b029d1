----------------------------- MODULE AcsOracle -----------------------------
(***************************************************************************)
(* What the ledger client promises to those who ask it for active          *)
(* contracts (core/ledger-client/src/acs): a call names an offset and is   *)
(* answered with the contracts active at that offset, each exactly once,   *)
(* or it is rejected.  There is no cache here; AcsContainer implements it. *)
(***************************************************************************)
EXTENDS AcsLedger

CONSTANTS
    Callers     \* pending uses of the client (one promise each)

VARIABLES
    status,  \* status[p]: "idle", "busy", "ok" or "rejected"
    asked,   \* asked[p]: the offset of the caller's last call
    answer   \* answer[p]: how often each contract occurs in the answer

oracleVars == <<born, died, status, asked, answer>>

Init ==
    /\ History
    /\ status = [p \in Callers |-> "idle"]
    /\ asked = [p \in Callers |-> 0]
    /\ answer = [p \in Callers |-> NoCount]

Ask(p, o) ==
    /\ status[p] # "busy"
    /\ status' = [status EXCEPT ![p] = "busy"]
    /\ asked' = [asked EXCEPT ![p] = o]
    /\ answer' = [answer EXCEPT ![p] = NoCount]
    /\ UNCHANGED ledgerVars

Answer(p) ==
    /\ status[p] = "busy"
    /\ status' = [status EXCEPT ![p] = "ok"]
    /\ answer' = [answer EXCEPT ![p] = ActiveAt(asked[p])]
    /\ UNCHANGED <<born, died, asked>>

Reject(p) ==
    /\ status[p] = "busy"
    /\ status' = [status EXCEPT ![p] = "rejected"]
    /\ UNCHANGED <<born, died, asked, answer>>

Next ==
    \E p \in Callers :
        \/ \E o \in Offset : Ask(p, o)
        \/ Answer(p)
        \/ Reject(p)

Spec == Init /\ [][Next]_oracleVars
=============================================================================
