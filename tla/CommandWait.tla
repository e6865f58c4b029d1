---------------------------- MODULE CommandWait ----------------------------
(***************************************************************************)
(* How the wallet SDK waits: for a new party to appear before it grants the *)
(* rights (core/ledger-client/src/ledger-client.ts), and for the completion *)
(* of a command (sdk/wallet-sdk/src/ledgerController.ts, awaitCompletion in *)
(* core/ledger-client/src/ledger-api-utils.ts).                            *)
(*                                                                         *)
(* A timeout gives the wait up, not its poll, which goes on by itself.      *)
(* Failed requests are not repeated: retryable repeats gRPC statuses only,  *)
(* and the JSON API's errors have another shape.                           *)
(***************************************************************************)
EXTENDS Participant

CONSTANTS
    MaxTries,   \* maxTries of waitForPartyAndGrantUserRights
    PageLimit   \* COMPLETIONS_LIMIT

ASSUME WaitAssumption == MaxTries \in Nat \ {0} /\ PageLimit \in Nat \ {0}

VARIABLES
    party,      \* the wait for the party: what it does, its tries, and ghost: how
                \* many of them were answered when the party was there
    call,       \* what the client's call does, for which command, from which offset
    calls,      \* how many there have been
    polls,      \* the polls they have started
    confirmed   \* the offset of the latest completion a call has returned

waits == <<party, call, calls, polls, confirmed>>

NoCall == [at |-> "idle", how |-> "none", command |-> None, start |-> 0]

Poll == [id : Command \cup Nat, begin : Nat, tracks : Nat,
         at : {"polling", "found", "failed", "broken"}, offset : Nat]

WaitsInit ==
    /\ IF budget.onboards THEN party = [at |-> "waiting", tries |-> 0, sightings |-> 0]
       ELSE hosted /\ party = [at |-> "granted", tries |-> 1, sightings |-> 1]
    /\ call = NoCall /\ calls = 0 /\ polls = <<>>
    /\ confirmed = 0

\* A request fails.
Fault == Spend("faults")

-----------------------------------------------------------------------------

MutantCheckForever ==
    /\ party.at = "waiting"
    /\ \/ /\ party' = [at |-> IF hosted THEN "found" ELSE "waiting",
                       tries |-> party.tries + 1,
                       sightings |-> party.sightings + (IF hosted THEN 1 ELSE 0)]
          /\ UNCHANGED budget
       \/ Fault /\ party' = [party EXCEPT !.tries = @ + 1]
    /\ UNCHANGED <<inFlight, ledger, call, calls, polls, confirmed>>

\* checkIfPartyExists takes a failed request for no.
MutantCheckParty ==
    /\ party.at \in {"waiting", "found"} /\ party.tries < MaxTries
    /\ \/ /\ party' = [at |-> IF hosted THEN "found" ELSE "waiting",
                       tries |-> party.tries + 1,
                       sightings |-> party.sightings + (IF hosted THEN 1 ELSE 0)]
          /\ UNCHANGED budget
       \/ Fault /\ party' = [party EXCEPT !.tries = @ + 1]
    /\ UNCHANGED <<inFlight, ledger, call, calls, polls, confirmed>>

CheckParty ==
    /\ party.at = "waiting" /\ party.tries < MaxTries
    /\ \/ /\ party' = [at |-> IF hosted THEN "found" ELSE "waiting",
                       tries |-> party.tries + 1,
                       sightings |-> party.sightings + (IF hosted THEN 1 ELSE 0)]
          /\ UNCHANGED budget
       \/ Fault /\ party' = [party EXCEPT !.tries = @ + 1]
    /\ UNCHANGED <<inFlight, ledger, call, calls, polls, confirmed>>

\* Out of tries, whether or not the last one has found the party.
GiveUpParty ==
    /\ party.tries >= MaxTries /\ party.at \in {"waiting", "found"}
    /\ party' = [party EXCEPT !.at = "timed_out"]
    /\ UNCHANGED <<participant, call, calls, polls, confirmed>>

GrantRights ==
    /\ party.at = "found" /\ party.tries < MaxTries
    /\ \/ party' = [party EXCEPT !.at = "granted"] /\ UNCHANGED budget
       \/ Fault /\ party' = [party EXCEPT !.at = "refused"]
    /\ UNCHANGED <<inFlight, ledger, call, calls, polls, confirmed>>

-----------------------------------------------------------------------------

\* prepareSignExecuteAndWaitFor ("prepare") uses the command id as submission id,
\* executeSubmissionAndWaitFor ("execute") an id of its own; both read the ledger
\* end first.
StartCall(command, how) ==
    /\ party.at = "granted" /\ call.at = "idle" /\ Spend("calls")
    /\ call' = [at |-> "execute", how |-> how, command |-> command, start |-> End]
    /\ calls' = calls + 1
    /\ UNCHANGED <<inFlight, ledger, party, polls, confirmed>>

Id == IF call.how = "prepare" THEN call.command ELSE calls
Mine == [command |-> call.command, id |-> Id, call |-> calls]
Others == {s \in inFlight : s.command = call.command}

Await(id, tracks) ==
    /\ call' = [call EXCEPT !.at = "wait"]
    /\ polls' = Append(polls, [id |-> id, begin |-> call.start, tracks |-> tracks,
                               at |-> "polling", offset |-> 0])

Execute ==
    /\ call.at = "execute"
    /\ \/ Others = {} /\ Accept(Mine) /\ Await(Id, calls)
       \/ \E s \in Others :
             /\ Await(IF call.how = "prepare" THEN call.command ELSE s.id, s.call)
             /\ UNCHANGED inFlight
    /\ UNCHANGED <<ledger, budget, party, calls, confirmed>>

\* Preparing or executing fails; the submission may have been taken all the same.
ExecuteFails ==
    /\ call.at = "execute" /\ Fault
    /\ call' = NoCall
    /\ UNCHANGED inFlight \/ (Others = {} /\ Accept(Mine))
    /\ UNCHANGED <<ledger, party, calls, polls, confirmed>>

-----------------------------------------------------------------------------

Page(begin) ==
    LET after == {o \in (begin + 1)..End : IsCompletion(o)}
    IN {o \in after : Cardinality({q \in after : q <= o}) <= PageLimit}

MutantMatches(o, id) ==
    history[o].ok /\ id \in {history[o].completes.command, history[o].completes.id}
Matches(o, id) == id \in {history[o].completes.command, history[o].completes.id}

Least(S) == CHOOSE o \in S : \A q \in S : o <= q
Latest(S) == CHOOSE o \in S : \A q \in S : q <= o

\* A page without the completion sets the next beginning, an empty one does not.
MutantNextBegin(begin) == IF Page(begin) = {} THEN begin ELSE End
NextBegin(begin) == IF Page(begin) = {} THEN begin ELSE Latest(Page(begin))

PollCompletions(k) ==
    /\ polls[k].at = "polling"
    /\ LET poll == polls[k]
           wanted == {o \in Page(poll.begin) : Matches(o, poll.id)}
       IN polls' = [polls EXCEPT ![k] =
           IF wanted = {} THEN [poll EXCEPT !.begin = NextBegin(poll.begin)]
           ELSE LET o == Least(wanted) IN
                [poll EXCEPT !.at = IF history[o].ok THEN "found" ELSE "failed",
                             !.offset = o]]
    /\ UNCHANGED <<participant, party, call, calls, confirmed>>

PollBreaks(k) ==
    /\ polls[k].at = "polling" /\ Fault
    /\ polls' = [polls EXCEPT ![k].at = "broken"]
    /\ UNCHANGED <<inFlight, ledger, party, call, calls, confirmed>>

Return ==
    /\ call.at = "wait" /\ polls[Len(polls)].at # "polling"
    /\ call' = NoCall
    /\ confirmed' = IF polls[Len(polls)].at = "found" THEN polls[Len(polls)].offset
                    ELSE confirmed
    /\ UNCHANGED <<participant, party, calls, polls>>

TimeOut ==
    /\ call.at = "wait"
    /\ call' = NoCall
    /\ UNCHANGED <<participant, party, calls, polls, confirmed>>

WaitsNext ==
    \/ CheckParty \/ GiveUpParty \/ GrantRights
    \/ \E command \in Command, how \in {"prepare", "execute"} : StartCall(command, how)
    \/ Execute \/ ExecuteFails
    \/ \E k \in DOMAIN polls : PollCompletions(k) \/ PollBreaks(k)
    \/ Return \/ TimeOut

WaitsOK ==
    /\ party \in [at : {"waiting", "found", "timed_out", "granted", "refused"},
                 tries : 0..MaxTries, sightings : 0..MaxTries]
    /\ call \in [at : {"idle", "execute", "wait"}, how : {"none", "prepare", "execute"},
                command : Command \cup {None}, start : 0..End]
    /\ calls \in Nat /\ polls \in Seq(Poll)
    /\ confirmed \in 0..End

=============================================================================
