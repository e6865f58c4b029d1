----------------------------- MODULE SdkClient -----------------------------
(***************************************************************************)
(* A program that uses the wallet SDK: it onboards a party, executes        *)
(* commands and waits for them (CommandWait), and lists the party's holding *)
(* transactions (TransactionList) and its active contracts (AcsScan), one   *)
(* after the other, on a participant where others transact, too.  The polls *)
(* of calls that timed out go on, and so does a subscription (UpdateStream).*)
(***************************************************************************)
EXTENDS CommandWait, TransactionList, AcsScan, UpdateStream

vars == <<participant, waits, listing, scan, stream>>

Init == ParticipantInit /\ WaitsInit /\ ListInit /\ ScanInit /\ StreamInit

\* A transaction under construction is nobody's to see.
Visible == draft = <<>>

\* The client awaits its list or its scan before it does anything else.
Reads == list.at # "idle" \/ scan.at = "scanning"

CallStep ==
    /\ Visible
    /\ WaitsNext
    /\ call.at = "idle" /\ call'.at # "idle" => ~Reads
    /\ UNCHANGED <<listing, scan, stream>>

ListStep ==
    /\ Visible /\ call.at = "idle" /\ scan.at # "scanning"
    /\ ListNext
    /\ UNCHANGED <<waits, scan, stream>>

ScanStep ==
    /\ Visible /\ call.at = "idle" /\ list.at = "idle"
    /\ ScanNext
    /\ UNCHANGED <<waits, listing, stream>>

\* A loop of its own, beside the rest.
StreamStep ==
    /\ Visible /\ StreamNext
    /\ UNCHANGED <<waits, listing, scan>>

\* History only grows: what others do beyond the end that a list or a scan has read
\* makes no difference to it, and waits for it here.
ParticipantStep ==
    /\ ~Reads
    /\ ParticipantNext
    /\ UNCHANGED <<waits, listing, scan, stream>>

Next == CallStep \/ ListStep \/ ScanStep \/ StreamStep \/ ParticipantStep

\* A poll that waits asks again, what is being sequenced is committed, and a scan
\* takes what the participant answers.
PollStep == \E k \in DOMAIN polls : PollCompletions(k)

Spec == /\ Init /\ [][Next]_vars
        /\ WF_polls(Visible /\ PollStep /\ UNCHANGED <<listing, scan, stream>>)
        /\ WF_history(~Reads /\ Commit(None) /\ UNCHANGED <<waits, listing, scan, stream>>)
        /\ WF_scan((TakePage \/ PageThrows) /\ UNCHANGED <<waits, listing, stream>>)

-----------------------------------------------------------------------------

TypeOK == ParticipantOK /\ WaitsOK /\ ListOK /\ ScanOK /\ StreamOK

Holdings(S) == {c \in S : IsHolding(c) /\ About[c].own}

NodesUpTo(o) == UNION {NodesAt(u) : u \in 1..o}
CreatedUpTo(o) == {n.on : n \in {m \in NodesUpTo(o) : m.kind = "create"}}
ConsumedUpTo(o) == {n.on : n \in {m \in NodesUpTo(o) : Consumes(m)}}
\* Consumed by a choice the parser does not know.
UntoldUpTo(o) == {n.on : n \in {m \in NodesUpTo(o) : m.choice = "plain"}}

HoldingsAt(o) == Holdings((before \cup CreatedUpTo(o)) \ ConsumedUpTo(o))

Tells(c, what) ==
    {k \in DOMAIN told :
        CASE what = "create" -> told[k].label # "archive" /\ c \in told[k].creates
          [] what = "archive" ->
                \/ told[k].label = "archive" /\ c \in told[k].creates
                \/ c \in told[k].archives}

Balance ==
    {c \in Holdings(Contract) : /\ c \in before \/ Tells(c, "create") # {}
                                /\ Tells(c, "archive") = {}}

(***************************************************************************)
(* Lists that start where the last one said tell every change of the        *)
(* party's holdings once: what they tell adds up to the holdings on the     *)
(* ledger at the next offset, and to those alone but for holdings consumed  *)
(* by a choice that the parser does not know.                              *)
(***************************************************************************)
ToldIsLedger ==
    /\ HoldingsAt(after) \subseteq Balance
    /\ Balance \subseteq HoldingsAt(after) \cup UntoldUpTo(after)
    /\ \A c \in Contract, what \in {"create", "archive"} :
          Cardinality(Tells(c, what)) <= 1

(***************************************************************************)
(* A poll never goes past the completion of the submission it tracks, its   *)
(* own or the one it found in flight, however full the pages are.           *)
(***************************************************************************)
NothingSkipped ==
    \A k \in DOMAIN polls : polls[k].at = "polling" =>
        \A o \in 1..End :
            IsCompletion(o) /\ history[o].completes.call = polls[k].tracks
            => polls[k].begin < o

(***************************************************************************)
(* A list that follows a completed call goes up to that call's transaction  *)
(* at least: the client reads what it wrote.                               *)
(***************************************************************************)
ReadsItsWrite ==
    list.at = "parse" => confirmed <= after \/ confirmed <= list.next

(***************************************************************************)
(* Rights are granted when the party is there; and a wait that gives up has *)
(* had at most one answer that it is, to its last try.                     *)
(***************************************************************************)
PartyIsAwaited ==
    /\ party.at \in {"found", "granted", "refused"} => hosted
    /\ party.at = "timed_out" =>
          party.sightings <= 1 /\ party.tries = MaxTries

(***************************************************************************)
(* A poll ends once the submission it tracks is completed, also when the    *)
(* call that started it has timed out: again and again, no poll goes on     *)
(* that could have ended.                                                  *)
(***************************************************************************)
Completed(call_) == \E o \in 1..End : IsCompletion(o) /\ history[o].completes.call = call_

PollsEnd ==
    []<>(\A k \in DOMAIN polls : polls[k].at = "polling" => ~Completed(polls[k].tracks))

(***************************************************************************)
(* Paging neither skips a transaction nor reads one twice: of those of the  *)
(* party up to currentOffset, up to the ledger end when the scan is done,   *)
(* the result has one entry each, of later ones none, and no contract is in *)
(* it twice.  What the entries are is not its question.                     *)
(***************************************************************************)
EachTransactionOnce ==
    scan.at \in {"scanning", "done"} =>
        /\ \A o \in Seen(0, scan.end) :
              scan.read[o] =
                  IF o <= (IF scan.at = "done" THEN scan.end ELSE scan.current) THEN 1 ELSE 0
        /\ \A c \in Contract : scan.result[c] <= 1

(***************************************************************************)
(* "Fetches active contracts" (ledger-client.ts:621): of the contracts that *)
(* were created and are not consumed at the ledger end, all are returned.   *)
(***************************************************************************)
GoneUpTo(o) == UNION {GoneAt(u) : u \in 1..o}

ScanFindsActive ==
    scan.at = "done" =>
        \A o \in 1..scan.end : \A c \in CreatedAt(o) \ GoneUpTo(scan.end) : scan.result[c] > 0

(***************************************************************************)
(* The UTXOs returned are unspent: no contract consumed by the ledger end   *)
(* is among them ("an array of holding UTXOs", tokenStandardController.ts:  *)
(* 335).                                                                    *)
(***************************************************************************)
ScanReturnsOnlyActive ==
    scan.at = "done" => \A c \in GoneUpTo(scan.end) : scan.result[c] = 0

(***************************************************************************)
(* A scan ends: a page without transactions still moves it forward.         *)
(***************************************************************************)
ScanEnds == []<>(scan.at # "scanning")

(***************************************************************************)
(* What a subscription has told, and has still to tell unless it threw, is  *)
(* in the ledger's order and lacks none of the party's transactions since   *)
(* the offset in its request; it waits only while there is nothing to tell and its socket is not  *)
(* closed, and unless its client leaves it ends with nothing left to tell.  *)
(***************************************************************************)
StreamTellsAll ==
    LET heard == stream.told \o (IF stream.at = "threw" THEN <<>> ELSE stream.queue)
        offsets == {heard[k] : k \in DOMAIN heard}
    IN /\ \A k, m \in DOMAIN heard : k < m => heard[k] < heard[m]
       /\ \A o \in offsets : o > stream.begin /\ Seen(stream.begin, o) \subseteq offsets
       /\ stream.at = "waiting" => stream.queue = <<>> /\ ~stream.isClosed
       /\ stream.at = "ended" => stream.queue = <<>> /\ stream.isClosed

(***************************************************************************)
(* A subscription to updates with a beginOffset tells nothing of before     *)
(* (ledgerController.ts:251).                                               *)
(***************************************************************************)
UpdatesFromOffset ==
    ~stream.holdings => \A k \in DOMAIN stream.told : stream.told[k] > stream.promised

(***************************************************************************)
(* A subscription to holdings starts at its beginOffset, "default is        *)
(* current ledger end" (tokenStandardController.ts:308).                    *)
(***************************************************************************)
HoldingsFromOffset ==
    stream.holdings => \A k \in DOMAIN stream.told : stream.told[k] > stream.promised

(***************************************************************************)
(* "@throws WebSocketConnectionError if connection fails" (webSocketManager.*)
(* ts:157): a stream whose socket failed does not end as if it were closed. *)
(***************************************************************************)
FailureIsThrown == stream.at = "ended" => ~stream.streamError

=============================================================================
