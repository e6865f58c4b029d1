-------------------------- MODULE SdkClientProofs --------------------------
(***************************************************************************)
(* Proofs about SdkClient: the waits, the lists, the scans and the          *)
(* subscription of a client, for any transactions, contracts, commands,     *)
(* pages and tries.                                                        *)
(***************************************************************************)
EXTENDS SdkClient, FiniteSetTheorems, WellFoundedInduction, TLAPS

(***************************************************************************)
(* Offsets                                                                 *)
(***************************************************************************)

LEMMA SmallestExists ==
    ASSUME NEW S \in SUBSET Nat, S # {}
    PROVE  \E o \in S : \A x \in S : o <= x
  <1>1. PICK m \in S : \A y \in S : <<y, m>> \notin OpToRel(<, Nat)
    BY NatLessThanWellFounded, WFMin
  <1>2. \A y \in S : ~(y < m)
    BY <1>1, Zenon DEF OpToRel
  <1>. QED BY <1>2

LEMMA LargestExists ==
    ASSUME NEW n \in Nat, NEW S \in SUBSET (0..n), S # {}
    PROVE  \E o \in S : \A x \in S : x <= o
  <1>. DEFINE T == {n - x : x \in S}
  <1>1. T \in SUBSET Nat /\ T # {}
    <2>1. \A x \in S : n - x \in Nat
      OBVIOUS
    <2>. QED BY <2>1
  <1>2. PICK m \in T : \A y \in T : m <= y
    BY <1>1, SmallestExists
  <1>3. PICK o \in S : m = n - o
    BY <1>2
  <1>4. ASSUME NEW x \in S PROVE x <= o
    <2>1. m <= n - x
      BY <1>2
    <2>. QED BY <1>3, <2>1
  <1>. QED BY <1>4

\* The choices of the modules are what their names say.
LEMMA Largest ==
    ASSUME NEW n \in Nat, NEW S \in SUBSET (0..n), S # {}
    PROVE  /\ Latest(S) \in S /\ \A x \in S : x <= Latest(S)
           /\ LastOf(S) \in S /\ \A x \in S : x <= LastOf(S)
           /\ LastOffset(S) \in S /\ \A x \in S : x <= LastOffset(S)
  BY LargestExists DEF Latest, LastOf, LastOffset

LEMMA Smallest ==
    ASSUME NEW S \in SUBSET Nat, S # {}
    PROVE  /\ Least(S) \in S /\ \A x \in S : Least(S) <= x
           /\ FirstOf(S) \in S /\ \A x \in S : FirstOf(S) <= x
  BY SmallestExists DEF Least, FirstOf

(***************************************************************************)
(* Types                                                                   *)
(***************************************************************************)

Spent == {"nodes", "elsewhere", "calls", "lists", "scans", "streams", "faults"}

LEMMA SpendType ==
    ASSUME budget \in Allowance, NEW on \in Spent, Spend(on)
    PROVE  budget' \in Allowance /\ budget'.contracts = budget.contracts
  BY DEF Allowance, Spend, Spent

\* Updates are appended, and stay as they are.
Grown ==
    /\ history' \in Seq(Update) /\ End' \in Nat /\ End <= End'
    /\ \A o \in 1..End : history'[o] = history[o]

LEMMA EndType == ASSUME ParticipantOK PROVE End \in Nat
  BY DEF ParticipantOK, End

LEMMA RecordType ==
    ASSUME ParticipantOK, NEW u \in Update, Record(u)
    PROVE  Grown /\ End' = End + 1 /\ history'[End'] = u
  BY DEF ParticipantOK, Record, Grown, End

\* What the participant does.
LEMMA TypeParticipant ==
    ASSUME ParticipantOK, ParticipantNext
    PROVE  ParticipantOK' /\ Grown
  <1>. USE DEF ParticipantOK
  <1>0. UNCHANGED history => Grown
    BY DEF Grown, End
  <1>1. ASSUME NEW n \in Node, Perform(n) PROVE ParticipantOK' /\ Grown
    <2>1. n.on \in Contract
      BY DEF Node
    <2>2. life' \in [Contract -> {"unborn", "active", "archived"}]
      BY <1>1, <2>1 DEF Perform
    <2>3. budget' \in Allowance
      BY <1>1, SpendType DEF Perform, Spent
    <2>4. draft' \in Seq(Node) /\ UNCHANGED <<before, history, inFlight, hosted>>
      BY <1>1 DEF Perform
    <2>. QED BY <1>0, <2>2, <2>3, <2>4
  <1>2. ASSUME NEW d \in 0..Len(draft), NEW c \in Contract, NEW kind \in {"create", "archive"},
               Perform([depth |-> d, kind |-> kind, on |-> c, choice |-> "none"])
        PROVE  ParticipantOK' /\ Grown
    <2>1. [depth |-> d, kind |-> kind, on |-> c, choice |-> "none"] \in Node
      BY DEF Node
    <2>. QED BY <1>1, <1>2, <2>1
  <1>3. ASSUME NEW d \in 0..Len(draft), NEW c \in Contract, NEW choice \in ChoicesOn(c),
               Perform([depth |-> d, kind |-> "exercise", on |-> c, choice |-> choice])
        PROVE  ParticipantOK' /\ Grown
    <2>1. choice \in {"known", "instruction", "strange", "plain"}
      BY DEF ChoicesOn
    <2>2. [depth |-> d, kind |-> "exercise", on |-> c, choice |-> choice] \in Node
      BY <2>1 DEF Node
    <2>. QED BY <1>1, <1>3, <2>2
  <1>4. ASSUME NEW s \in inFlight \cup {None}, Commit(s) PROVE ParticipantOK' /\ Grown
    <2>1. [nodes |-> draft, completes |-> s, ok |-> TRUE] \in Update
      BY DEF Update
    <2>2. Grown
      BY <1>4, <2>1, RecordType DEF Commit
    <2>. QED BY <1>4, <2>2 DEF Commit, Grown
  <1>5. ASSUME NEW s \in inFlight, Reject(s) PROVE ParticipantOK' /\ Grown
    <2>1. [nodes |-> <<>>, completes |-> s, ok |-> FALSE] \in Update
      BY DEF Update
    <2>2. Grown
      BY <1>5, <2>1, RecordType DEF Reject
    <2>. QED BY <1>5, <2>2 DEF Reject, Grown
  <1>6. CASE Elsewhere
    <2>1. [nodes |-> <<>>, completes |-> None, ok |-> TRUE] \in Update
      BY DEF Update
    <2>2. Grown
      BY <1>6, <2>1, RecordType DEF Elsewhere
    <2>. QED BY <1>6, <2>2, SpendType DEF Elsewhere, Grown, Spent
  <1>7. CASE HostParty
    BY <1>0, <1>7 DEF HostParty
  <1>. QED BY <1>2, <1>3, <1>4, <1>5, <1>6, <1>7 DEF ParticipantNext

\* What the client holds is typed as before when the history grows.
LEMMA TypeGrown ==
    ASSUME TypeOK, Grown, UNCHANGED <<waits, listing, scan, stream>>
    PROVE  WaitsOK' /\ ListOK' /\ ScanOK' /\ StreamOK'
  <1>1. End \in Nat /\ End' \in Nat /\ End <= End'
    BY EndType DEF TypeOK, Grown
  <1>. USE <1>1 DEF TypeOK
  <1>2. WaitsOK'
    BY DEF WaitsOK, waits
  <1>3. ListOK'
    BY DEF ListOK, ParserOK, listing
  <1>4. ScanOK'
    BY DEF ScanOK
  <1>5. StreamOK'
    BY DEF StreamOK
  <1>. QED BY <1>2, <1>3, <1>4, <1>5

LEMMA PageType ==
    ASSUME ParticipantOK, NEW begin \in Nat
    PROVE  /\ Page(begin) \in SUBSET ((begin + 1)..End) /\ Page(begin) \in SUBSET (0..End)
           /\ NextBegin(begin) \in Nat /\ begin <= NextBegin(begin)
           /\ begin <= End => NextBegin(begin) <= End
           /\ \A o \in Page(begin) : IsCompletion(o) /\ o <= NextBegin(begin)
  <1>1. /\ Page(begin) \in SUBSET ((begin + 1)..End) /\ Page(begin) \in SUBSET (0..End)
        /\ \A o \in Page(begin) : IsCompletion(o)
    BY EndType DEF Page
  <1>2. CASE Page(begin) = {}
    BY <1>1, <1>2 DEF NextBegin
  <1>3. CASE Page(begin) # {}
    <2>1. NextBegin(begin) \in Page(begin) /\ \A o \in Page(begin) : o <= NextBegin(begin)
      BY <1>1, <1>3, EndType, Largest DEF NextBegin
    <2>2. NextBegin(begin) \in (begin + 1)..End
      BY <1>1, <2>1
    <2>. QED BY <1>1, <2>1, <2>2, EndType
  <1>. QED BY <1>1, <1>2, <1>3

\* A party that is there was there from the first try that was told so.
PartyAwaited ==
    /\ party.at \in {"found", "granted", "refused"} => hosted
    /\ party.at = "waiting" => party.sightings = 0
    /\ party.at = "found" => party.sightings = 1
    /\ party.at = "timed_out" => party.sightings <= 1 /\ party.tries = MaxTries

(***************************************************************************)
(* What a poll tracks                                                      *)
(***************************************************************************)

\* Of each call there is at most one submission, which is completed once; a poll
\* knows the submission it tracks by its id, and has not passed its completion.
Tracking ==
    /\ call.at # "idle" => call.command \in Command
    /\ call.at = "wait" => polls # <<>>
    /\ \A s \in inFlight : s.call <= calls
    /\ \A o \in 1..End : IsCompletion(o) => history[o].completes.call <= calls
    /\ \A k \in DOMAIN polls : polls[k].tracks <= calls
    /\ call.at = "execute" =>
          /\ \A s \in inFlight : s.call # calls
          /\ \A o \in 1..End : IsCompletion(o) => history[o].completes.call # calls
          /\ \A k \in DOMAIN polls : polls[k].tracks # calls
    /\ \A s, t \in inFlight : s.call = t.call => s = t
    /\ \A s \in inFlight, o \in 1..End : IsCompletion(o) => history[o].completes.call # s.call

Polled(k) ==
    /\ polls[k].begin <= End
    /\ \A s \in inFlight : s.call = polls[k].tracks => polls[k].id \in {s.command, s.id}
    /\ \A o \in 1..End : IsCompletion(o) /\ history[o].completes.call = polls[k].tracks =>
          Matches(o, polls[k].id) /\ (polls[k].at = "polling" => polls[k].begin < o)
    /\ polls[k].at = "found" =>
          polls[k].offset \in 1..End /\ IsCompletion(polls[k].offset) /\ history[polls[k].offset].ok

AllPolled == \A k \in DOMAIN polls : Polled(k)

LEMMA TypeWaits ==
    ASSUME TypeOK, PartyAwaited, Tracking, AllPolled, WaitsNext
    PROVE  ParticipantOK' /\ WaitsOK' /\ UNCHANGED ledger
  <1>. USE DEF TypeOK
  <1>0. UNCHANGED <<ledger, inFlight>> /\ budget' \in Allowance => ParticipantOK'
    BY DEF ParticipantOK, ledger
  <1>1. CASE CheckParty \/ GiveUpParty \/ GrantRights
    <2>1. ParticipantOK' /\ UNCHANGED <<ledger, call, calls, polls, confirmed>>
      BY <1>0, <1>1, SpendType
         DEF CheckParty, GiveUpParty, GrantRights, ParticipantOK, Fault, Spent, participant
    <2>2. party' \in [at : {"waiting", "found", "timed_out", "granted", "refused"},
                      tries : 0..MaxTries, sightings : 0..MaxTries]
      <3>. USE WaitAssumption DEF WaitsOK, PartyAwaited
      <3>1. CASE CheckParty
        BY <3>1 DEF CheckParty
      <3>2. CASE GiveUpParty \/ GrantRights
        BY <3>2 DEF GiveUpParty, GrantRights
      <3>. QED BY <1>1, <3>1, <3>2
    <2>. QED BY <2>1, <2>2 DEF WaitsOK, ledger, End
  <1>2. ASSUME NEW command \in Command, NEW how \in {"prepare", "execute"}, StartCall(command, how)
        PROVE  ParticipantOK' /\ WaitsOK' /\ UNCHANGED ledger
    BY <1>0, <1>2, SpendType, EndType
       DEF StartCall, WaitsOK, ParticipantOK, Spent, ledger, End
  <1>3. CASE Execute
    <2>1. Mine \in Submission /\ Id \in Command \cup Nat
      BY <1>3 DEF Mine, Id, Submission, Execute, Tracking, WaitsOK
    <2>2. inFlight' \in SUBSET Submission
      BY <1>3, <2>1 DEF Execute, Accept, ParticipantOK
    <2>3. ParticipantOK' /\ UNCHANGED ledger
      BY <1>3, <2>2 DEF Execute, ParticipantOK, ledger
    <2>4. ASSUME NEW id \in Command \cup Nat, NEW tracks \in Nat, Await(id, tracks)
          PROVE  WaitsOK'
      <3>1. [id |-> id, begin |-> call.start, tracks |-> tracks, at |-> "polling", offset |-> 0] \in Poll
        BY EndType DEF Poll, WaitsOK
      <3>2. polls' \in Seq(Poll)
        BY <2>4, <3>1 DEF Await, WaitsOK
      <3>3. call' \in [at : {"idle", "execute", "wait"}, how : {"none", "prepare", "execute"},
                command : Command \cup {None}, start : 0..End']
        BY <2>3, <2>4 DEF Await, WaitsOK, ledger, End
      <3>. QED BY <1>3, <2>3, <3>2, <3>3 DEF Execute, WaitsOK, ledger, End
    <2>5. calls \in Nat /\ \A s \in Others : s.call \in Nat /\ s.id \in Command \cup Nat /\ s.command \in Command
      BY DEF WaitsOK, Others, ParticipantOK, Submission
    <2>6. call.how = "prepare" => call.command \in Command
      BY <1>3 DEF Execute, Tracking
    <2>7. WaitsOK'
      BY <1>3, <2>1, <2>4, <2>5, <2>6 DEF Execute
    <2>. QED BY <2>3, <2>7
  <1>4. CASE ExecuteFails
    <2>1. Mine \in Submission
      BY <1>4 DEF Mine, Id, Submission, ExecuteFails, Tracking, WaitsOK
    <2>2. inFlight' \in SUBSET Submission
      BY <1>4, <2>1 DEF ExecuteFails, Accept, ParticipantOK
    <2>3. ParticipantOK' /\ UNCHANGED ledger
      BY <1>4, <2>2, SpendType DEF ExecuteFails, ParticipantOK, ledger, Fault, Spent
    <2>4. WaitsOK'
      BY <1>4, <2>3, EndType DEF ExecuteFails, WaitsOK, NoCall, ledger, End
    <2>. QED BY <2>3, <2>4
  <1>5. ASSUME NEW k \in DOMAIN polls, PollCompletions(k) \/ PollBreaks(k)
        PROVE  ParticipantOK' /\ WaitsOK' /\ UNCHANGED ledger
    <2>1. ParticipantOK' /\ UNCHANGED ledger
      BY <1>0, <1>5, SpendType DEF PollCompletions, PollBreaks, Fault, Spent, ParticipantOK, participant, ledger
    <2>2. polls[k] \in Poll /\ polls[k].begin \in Nat
      <3>1. polls \in Seq(Poll)
        BY DEF WaitsOK
      <3>2. polls[k] \in Poll
        BY <3>1
      <3>. QED BY <3>2 DEF Poll
    <2>3. \E q \in Poll : polls' = [polls EXCEPT ![k] = q]
      <3>1. CASE PollCompletions(k)
        <4>. DEFINE wanted == {o \in Page(polls[k].begin) : Matches(o, polls[k].id)}
        <4>1. CASE wanted = {}
          <5>1. [polls[k] EXCEPT !.begin = NextBegin(polls[k].begin)] \in Poll
            BY <2>2, PageType DEF Poll
          <5>. QED BY <3>1, <4>1, <5>1 DEF PollCompletions
        <4>2. CASE wanted # {}
          <5>1. wanted \in SUBSET Nat
            BY <2>2, PageType, EndType
          <5>2. Least(wanted) \in Nat
            BY <4>2, <5>1, Smallest
          <5>3. [polls[k] EXCEPT !.at = IF history[Least(wanted)].ok THEN "found" ELSE "failed",
                             !.offset = Least(wanted)] \in Poll
            BY <2>2, <5>2 DEF Poll
          <5>. QED BY <3>1, <4>2, <5>3 DEF PollCompletions
        <4>. QED BY <4>1, <4>2
      <3>2. CASE PollBreaks(k)
        <4>1. [polls[k] EXCEPT !.at = "broken"] \in Poll
          BY <2>2 DEF Poll
        <4>. QED BY <3>2, <4>1 DEF PollBreaks
      <3>. QED BY <1>5, <3>1, <3>2
    <2>4. polls' \in Seq(Poll)
      BY <2>3 DEF WaitsOK
    <2>. QED BY <1>5, <2>1, <2>4 DEF PollCompletions, PollBreaks, WaitsOK, ledger, End
  <1>6. CASE Return
    <2>1. Len(polls) \in DOMAIN polls
      BY <1>6 DEF Return, Tracking, WaitsOK
    <2>2. polls[Len(polls)].at = "found" => polls[Len(polls)].offset \in 1..End
      BY <2>1 DEF AllPolled, Polled
    <2>3. ParticipantOK' /\ UNCHANGED <<ledger, party, calls, polls>> /\ call' = NoCall
      BY <1>0, <1>6 DEF Return, ParticipantOK, participant
    <2>4. confirmed' \in 0..End
      BY <1>6, <2>2, EndType DEF Return, WaitsOK
    <2>. QED BY <2>3, <2>4, EndType DEF WaitsOK, NoCall, ledger, End
  <1>7. CASE TimeOut
    BY <1>0, <1>7, EndType DEF TimeOut, WaitsOK, ParticipantOK, NoCall, participant, ledger, End
  <1>. QED BY <1>1, <1>2, <1>3, <1>4, <1>5, <1>6, <1>7 DEF WaitsNext

\* A full page goes up to its last completion, and lacks none before.
LEMMA PageIsPrefix ==
    ASSUME ParticipantOK, NEW begin \in Nat, Page(begin) # {},
           NEW o \in 1..End, begin < o, IsCompletion(o), o \notin Page(begin)
    PROVE  NextBegin(begin) < o
  <1>. DEFINE completions == {q \in (begin + 1)..End : IsCompletion(q)}
              upto(x) == {q \in completions : q <= x}
              last == Latest(Page(begin))
  <1>1. last \in Page(begin) /\ NextBegin(begin) = last
    BY EndType, PageType, Largest DEF NextBegin
  <1>2. last \in completions /\ Cardinality(upto(last)) <= PageLimit
    BY <1>1 DEF Page
  <1>3. SUFFICES ASSUME o <= last PROVE FALSE
    BY <1>1, <1>2, EndType
  <1>. HIDE DEF last
  <1>4. IsFiniteSet(upto(last))
    <2>1. IsFiniteSet((begin + 1)..End)
      BY EndType, FS_Interval
    <2>2. upto(last) \subseteq (begin + 1)..End
      OBVIOUS
    <2>. QED BY <2>1, <2>2, FS_Subset
  <1>5. upto(o) \subseteq upto(last)
    BY <1>2, <1>3, EndType
  <1>6. Cardinality(upto(o)) <= PageLimit
    BY <1>2, <1>4, <1>5, FS_Subset, FS_CardinalityType, WaitAssumption
  <1>7. o \in completions
    BY EndType
  <1>. QED BY <1>6, <1>7 DEF Page

LEMMA TrackStays ==
    ASSUME UNCHANGED <<history, inFlight, call, calls, polls>>
    PROVE  (Tracking => Tracking') /\ (AllPolled => AllPolled')
  BY DEF Tracking, AllPolled, Polled, End, IsCompletion, Matches

\* A submission is posted, or one in flight is taken for it.
LEMMA TrackExecutes ==
    ASSUME TypeOK, Tracking, AllPolled, Execute
    PROVE  Tracking' /\ AllPolled'
  <1>. DEFINE mine == Mine
  <1>1. /\ mine.call = calls /\ mine.command = call.command /\ mine.id = Id
        /\ Id = IF call.how = "prepare" THEN call.command ELSE calls
    BY DEF Mine, Id
  <1>2. /\ call.at = "execute" /\ polls \in Seq(Poll) /\ call.start <= End /\ calls \in Nat
        /\ inFlight \subseteq Submission /\ call.command \in Command
    BY DEF Execute, TypeOK, WaitsOK, ParticipantOK, Tracking
  <1>3. /\ UNCHANGED <<history, calls>> /\ call' = [call EXCEPT !.at = "wait"]
        /\ call'.at = "wait" /\ call'.command = call.command
    BY <1>2 DEF Execute, Await, ledger, TypeOK, WaitsOK
  <1>. HIDE DEF mine
  <1>4. PICK id, tracks :
          /\ polls' = Append(polls, [id |-> id, begin |-> call.start, tracks |-> tracks,
                                     at |-> "polling", offset |-> 0])
          /\ \/ inFlight' = inFlight \cup {mine} /\ id = Id /\ tracks = calls
             \/ /\ inFlight' = inFlight
                /\ \E s \in inFlight : s.command = call.command /\ tracks = s.call
                                       /\ id \in {s.command, s.id}
    BY DEF Execute, Await, Accept, mine, Others
  <1>0. PICK n : n = Len(polls) + 1
    OBVIOUS
  <1>5. /\ DOMAIN polls' = DOMAIN polls \cup {n} /\ n \notin DOMAIN polls /\ polls' # <<>>
        /\ polls'[n].begin = call.start /\ polls'[n].id = id /\ polls'[n].tracks = tracks
        /\ polls'[n].at = "polling"
        /\ \A k \in DOMAIN polls : polls'[k] = polls[k]
    BY <1>0, <1>2, <1>4
  <1>6. \A s \in inFlight' : s \in inFlight \/ s = mine
    BY <1>4
  <1>. USE DEF End, IsCompletion, Matches
  <1>7. Tracking'
    <2>1. tracks <= calls
      BY <1>2, <1>4 DEF Tracking
    <2>2. \A s \in inFlight' : s.call <= calls
      BY <1>1, <1>2, <1>6 DEF Tracking
    <2>3. \A s, t \in inFlight' : s.call = t.call => s = t
      BY <1>1, <1>2, <1>6 DEF Tracking
    <2>4. \A s \in inFlight', o \in 1..End : IsCompletion(o) => history[o].completes.call # s.call
      BY <1>1, <1>2, <1>6 DEF Tracking
    <2>. QED BY <1>2, <1>3, <1>5, <2>1, <2>2, <2>3, <2>4 DEF Tracking
  <1>8. ASSUME NEW k \in DOMAIN polls PROVE Polled(k)'
    <2>1. Polled(k) /\ polls[k].tracks # calls
      BY <1>2 DEF AllPolled, Tracking
    <2>2. \A s \in inFlight' : s.call = polls[k].tracks => polls[k].id \in {s.command, s.id}
      BY <1>1, <1>6, <2>1 DEF Polled
    <2>. QED BY <1>3, <1>5, <2>1, <2>2 DEF Polled
  <1>9. Polled(n)'
    <2>1. \A s \in inFlight' : s.call = tracks => id \in {s.command, s.id}
      BY <1>1, <1>2, <1>4 DEF Tracking
    <2>2. \A o \in 1..End : IsCompletion(o) => history[o].completes.call # tracks
      BY <1>2, <1>4 DEF Tracking
    <2>. QED BY <1>2, <1>3, <1>5, <2>1, <2>2 DEF Polled
  <1>. QED BY <1>5, <1>7, <1>8, <1>9 DEF AllPolled

LEMMA TrackPolls ==
    ASSUME TypeOK, Tracking, AllPolled,
           NEW k \in DOMAIN polls, PollCompletions(k) \/ PollBreaks(k)
    PROVE  Tracking' /\ AllPolled'
  <1>1. UNCHANGED <<history, inFlight, call, calls>> /\ polls \in Seq(Poll) /\ polls[k].at = "polling"
    BY DEF PollCompletions, PollBreaks, participant, ledger, TypeOK, WaitsOK
  <1>2. polls[k] \in Poll
    BY <1>1
  <1>. DEFINE p == polls[k]
  <1>3. Polled(k)
    BY DEF AllPolled
  <1>4. PICK q : /\ polls' = [polls EXCEPT ![k] = q]
                 /\ q.tracks = p.tracks /\ q.id = p.id /\ q.begin <= End
                 /\ q.at = "polling" => \A o \in 1..End :
                       IsCompletion(o) /\ history[o].completes.call = p.tracks => q.begin < o
                 /\ q.at = "found" => q.offset \in 1..End /\ IsCompletion(q.offset) /\ history[q.offset].ok
    <2>1. CASE PollBreaks(k)
      <3>. DEFINE q == [p EXCEPT !.at = "broken"]
      <3>1. q.tracks = p.tracks /\ q.id = p.id /\ q.begin = p.begin /\ q.at = "broken"
        BY <1>2 DEF Poll
      <3>. QED BY <1>3, <2>1, <3>1 DEF PollBreaks, Polled
    <2>2. CASE PollCompletions(k)
      <3>. DEFINE wanted == {o \in Page(p.begin) : Matches(o, p.id)}
      <3>1. p.begin \in Nat
        BY <1>2 DEF Poll
      <3>2. ParticipantOK
        BY DEF TypeOK
      <3>3. CASE wanted = {}
        <4>. DEFINE q == [p EXCEPT !.begin = NextBegin(p.begin)]
        <4>1. q.tracks = p.tracks /\ q.id = p.id /\ q.begin = NextBegin(p.begin) /\ q.at = "polling"
          BY <1>1, <1>2 DEF Poll
        <4>2. polls' = [polls EXCEPT ![k] = q]
          BY <2>2, <3>3 DEF PollCompletions
        <4>3. q.begin <= End
          BY <1>3, <3>1, <3>2, <4>1, PageType DEF Polled
        <4>4. ASSUME NEW o \in 1..End, IsCompletion(o), history[o].completes.call = p.tracks
              PROVE  NextBegin(p.begin) < o
          <5>1. p.begin < o /\ Matches(o, p.id)
            BY <1>1, <1>3, <4>4 DEF Polled
          <5>2. o \notin Page(p.begin)
            BY <3>3, <5>1
          <5>3. CASE Page(p.begin) = {}
            BY <5>1, <5>3 DEF NextBegin
          <5>4. CASE Page(p.begin) # {}
            BY <3>1, <3>2, <4>4, <5>1, <5>2, <5>4, PageIsPrefix
          <5>. QED BY <5>3, <5>4
        <4>. QED BY <4>1, <4>2, <4>3, <4>4
      <3>4. CASE wanted # {}
        <4>. DEFINE o == Least(wanted)
                    q == [p EXCEPT !.at = IF history[o].ok THEN "found" ELSE "failed", !.offset = o]
        <4>1. wanted \in SUBSET Nat /\ wanted \subseteq Page(p.begin)
          BY <3>1, <3>2, PageType, EndType
        <4>2. o \in wanted
          BY <3>4, <4>1, Smallest
        <4>. HIDE DEF o
        <4>3. o \in 1..End /\ IsCompletion(o)
          BY <3>1, <3>2, <4>1, <4>2, PageType, EndType
        <4>4. /\ q.tracks = p.tracks /\ q.id = p.id /\ q.begin = p.begin /\ q.offset = o
              /\ q.at = IF history[o].ok THEN "found" ELSE "failed"
          BY <1>2 DEF Poll
        <4>5. polls' = [polls EXCEPT ![k] = q]
          BY <2>2, <3>4 DEF PollCompletions, o
        <4>. HIDE DEF q
        <4>. QED BY <1>3, <4>3, <4>4, <4>5 DEF Polled
      <3>. QED BY <3>3, <3>4
    <2>. QED BY <2>1, <2>2
  <1>5. /\ DOMAIN polls' = DOMAIN polls /\ polls'[k] = q
        /\ \A m \in DOMAIN polls : m # k => polls'[m] = polls[m]
        /\ polls' # <<>>
    BY <1>1, <1>4
  <1>. USE DEF End, IsCompletion, Matches
  <1>6. Tracking'
    BY <1>1, <1>4, <1>5 DEF Tracking
  <1>7. ASSUME NEW m \in DOMAIN polls PROVE Polled(m)'
    BY <1>1, <1>3, <1>4, <1>5, <1>7 DEF AllPolled, Polled
  <1>. QED BY <1>5, <1>6, <1>7 DEF AllPolled

LEMMA TrackWaits ==
    ASSUME TypeOK, Tracking, AllPolled, WaitsNext
    PROVE  Tracking' /\ AllPolled'
  <1>1. CASE CheckParty \/ GiveUpParty \/ GrantRights
    BY <1>1, TrackStays DEF CheckParty, GiveUpParty, GrantRights, participant, ledger
  <1>2. ASSUME NEW command \in Command, NEW how \in {"prepare", "execute"}, StartCall(command, how)
        PROVE  Tracking' /\ AllPolled'
    <2>1. /\ UNCHANGED <<history, inFlight, polls>> /\ calls' = calls + 1 /\ calls \in Nat
          /\ call'.at = "execute" /\ call'.command = command
      BY <1>2 DEF StartCall, ledger, TypeOK, WaitsOK
    <2>2. /\ \A s \in inFlight : s.call \in Nat
          /\ \A o \in 1..End : history[o].completes # None => history[o].completes.call \in Nat
          /\ \A k \in DOMAIN polls : polls[k].tracks \in Nat
      <3>1. \A o \in 1..End : history[o] \in Update
        BY DEF TypeOK, ParticipantOK, End
      <3>2. \A k \in DOMAIN polls : polls[k] \in Poll
        BY DEF TypeOK, WaitsOK
      <3>. QED BY <3>1, <3>2 DEF TypeOK, ParticipantOK, Submission, Update, Poll
    <2>. USE DEF End, IsCompletion, Matches
    <2>3. Tracking'
      BY <2>1, <2>2 DEF Tracking
    <2>4. AllPolled'
      BY <2>1 DEF AllPolled, Polled
    <2>. QED BY <2>3, <2>4
  <1>3. CASE ExecuteFails
    <2>. DEFINE mine == Mine
    <2>1. /\ UNCHANGED <<history, calls, polls>> /\ call.at = "execute" /\ call'.at = "idle"
          /\ mine.call = calls
      BY <1>3 DEF ExecuteFails, NoCall, ledger, Mine
    <2>2. \A s \in inFlight' : s \in inFlight \/ s = mine
      BY <1>3 DEF ExecuteFails, Accept
    <2>. HIDE DEF mine
    <2>. USE DEF End, IsCompletion, Matches
    <2>3. Tracking'
      BY <2>1, <2>2 DEF Tracking, TypeOK, WaitsOK
    <2>4. AllPolled'
      BY <2>1, <2>2 DEF AllPolled, Polled, Tracking
    <2>. QED BY <2>3, <2>4
  <1>4. CASE Return \/ TimeOut
    <2>1. UNCHANGED <<history, inFlight, calls, polls>> /\ call'.at = "idle"
      BY <1>4 DEF Return, TimeOut, participant, ledger, NoCall
    <2>. QED BY <2>1 DEF Tracking, AllPolled, Polled, End, IsCompletion, Matches
  <1>. QED BY <1>1, <1>2, <1>3, <1>4, TrackExecutes, TrackPolls DEF WaitsNext

\* A submission in flight is completed, or something else comes next.
LEMMA TrackRecord ==
    ASSUME TypeOK, Tracking, AllPolled, UNCHANGED waits, NEW u \in Update, Record(u),
           inFlight' \subseteq inFlight,
           u.completes # None => u.completes \in inFlight \ inFlight'
    PROVE  Tracking' /\ AllPolled'
  <1>0. PICK n : n = End + 1
    OBVIOUS
  <1>1. /\ UNCHANGED <<call, calls, polls>> /\ polls \in Seq(Poll) /\ End \in Nat
        /\ End' = n /\ history'[n] = u /\ \A o \in 1..End : history'[o] = history[o] /\ o # n
    BY <1>0, RecordType, EndType DEF TypeOK, WaitsOK, waits, Grown
  <1>2. \A o \in 1..n : o = n \/ o \in 1..End
    BY <1>0, <1>1
  <1>3. \A o \in 1..n : IsCompletion(o)' =>
            IF o = n THEN history'[o].completes \in inFlight \ inFlight'
                     ELSE o \in 1..End /\ IsCompletion(o) /\ history'[o] = history[o]
    BY <1>1, <1>2 DEF IsCompletion
  <1>4. Tracking'
    <2>. HIDE DEF IsCompletion, End
    <2>1. \A o \in 1..n : IsCompletion(o)' => history'[o].completes.call <= calls
      BY <1>1, <1>3 DEF Tracking
    <2>2. call.at = "execute" => \A o \in 1..n : IsCompletion(o)' => history'[o].completes.call # calls
      BY <1>1, <1>3 DEF Tracking
    <2>3. \A s \in inFlight', o \in 1..n : IsCompletion(o)' => history'[o].completes.call # s.call
      BY <1>1, <1>3 DEF Tracking
    <2>. QED BY <1>1, <2>1, <2>2, <2>3 DEF Tracking
  <1>5. ASSUME NEW k \in DOMAIN polls PROVE Polled(k)'
    <2>1. Polled(k) /\ polls[k].begin \in Nat
      <3>1. polls[k] \in Poll
        BY <1>1
      <3>. QED BY <3>1 DEF AllPolled, Poll
    <2>2. ASSUME NEW o \in 1..n, IsCompletion(o)', history'[o].completes.call = polls[k].tracks
          PROVE  Matches(o, polls[k].id)' /\ (polls[k].at = "polling" => polls[k].begin < o)
      BY <1>0, <1>1, <1>3, <2>1, <2>2 DEF Polled, Matches
    <2>3. polls[k].at = "found" =>
            polls[k].offset \in 1..n /\ IsCompletion(polls[k].offset)' /\ history'[polls[k].offset].ok
      BY <1>0, <1>1, <2>1 DEF Polled, IsCompletion
    <2>. QED BY <1>0, <1>1, <2>1, <2>2, <2>3 DEF Polled
  <1>. QED BY <1>1, <1>4, <1>5 DEF AllPolled

LEMMA TrackParticipant ==
    ASSUME TypeOK, Tracking, AllPolled, UNCHANGED waits, ParticipantNext
    PROVE  Tracking' /\ AllPolled'
  <1>1. ASSUME UNCHANGED <<history, inFlight>> PROVE Tracking' /\ AllPolled'
    BY <1>1, TrackStays DEF waits
  <1>2. ASSUME NEW s \in inFlight \cup {None}, NEW nodes \in Seq(Node), NEW ok \in BOOLEAN,
               Record([nodes |-> nodes, completes |-> s, ok |-> ok]),
               inFlight' = inFlight \ {s} \/ (s = None /\ inFlight' = inFlight)
        PROVE  Tracking' /\ AllPolled'
    <2>. DEFINE u == [nodes |-> nodes, completes |-> s, ok |-> ok]
    <2>1. u \in Update /\ u.completes = s
      BY DEF Update, TypeOK, ParticipantOK
    <2>. HIDE DEF u
    <2>. QED BY <1>2, <2>1, TrackRecord DEF u
  <1>3. ASSUME NEW s \in inFlight \cup {None}, Commit(s) PROVE Tracking' /\ AllPolled'
    BY <1>2, <1>3 DEF Commit, TypeOK, ParticipantOK
  <1>4. ASSUME NEW s \in inFlight, Reject(s) PROVE Tracking' /\ AllPolled'
    <2>1. <<>> \in Seq(Node)
      OBVIOUS
    <2>. QED BY <1>2, <1>4, <2>1 DEF Reject
  <1>5. CASE Elsewhere
    <2>1. <<>> \in Seq(Node)
      OBVIOUS
    <2>. QED BY <1>2, <1>5, <2>1 DEF Elsewhere
  <1>6. ASSUME NEW n, Perform(n) PROVE Tracking' /\ AllPolled'
    BY <1>1, <1>6 DEF Perform
  <1>7. CASE HostParty
    BY <1>1, <1>7 DEF HostParty
  <1>. QED BY <1>3, <1>4, <1>5, <1>6, <1>7 DEF ParticipantNext

LEMMA PartyNext ==
    ASSUME TypeOK, PartyAwaited, Next
    PROVE  PartyAwaited'
  <1>1. hosted => hosted'
    <2>1. ASSUME NEW n, Perform(n) PROVE UNCHANGED hosted
      BY <2>1 DEF Perform
    <2>2. ParticipantNext => (hosted => hosted')
      BY <2>1 DEF ParticipantNext, Commit, Reject, Elsewhere, HostParty
    <2>3. WaitsNext => UNCHANGED hosted
      BY DEF WaitsNext, CheckParty, GiveUpParty, GrantRights, StartCall, Execute, ExecuteFails,
             PollCompletions, PollBreaks, Return, TimeOut, participant, ledger
    <2>4. ListNext => UNCHANGED hosted
      BY DEF ListNext, StartList, ReadUpdates, ParseNext, ParseStep, ParseEnd, ReturnList, FailList,
             participant, ledger
    <2>5. ScanNext => UNCHANGED hosted
      BY DEF ScanNext, StartScan, TakePage, PageThrows, PageFails, participant, ledger
    <2>6. StreamNext => UNCHANGED hosted
      BY DEF StreamNext, Subscribe, TokenArrives, TokenFails, SocketOpens, SocketCloses, SocketFails,
             MessageArrives, Resumes, Continues, Leave, participant, ledger
    <2>. QED BY <2>2, <2>3, <2>4, <2>5, <2>6
         DEF Next, CallStep, ListStep, ScanStep, StreamStep, ParticipantStep
  <1>2. CASE UNCHANGED party
    BY <1>1, <1>2 DEF PartyAwaited
  <1>3. CASE WaitsNext
    <2>. USE DEF TypeOK, WaitsOK, PartyAwaited
    <2>1. CASE CheckParty
      BY <1>1, <2>1 DEF CheckParty
    <2>2. CASE GiveUpParty \/ GrantRights
      BY <1>1, <2>2, WaitAssumption DEF GiveUpParty, GrantRights
    <2>3. CASE UNCHANGED party
      BY <1>2, <2>3
    <2>. QED BY <1>3, <2>1, <2>2, <2>3
         DEF WaitsNext, StartCall, Execute, ExecuteFails, PollCompletions, PollBreaks, Return, TimeOut
  <1>. QED BY <1>2, <1>3 DEF Next, CallStep, ListStep, ScanStep, StreamStep, ParticipantStep, waits

(***************************************************************************)
(* The lives of contracts                                                  *)
(***************************************************************************)

\* The nodes at an offset, or of the transaction that comes next.
NodesOf(o) == IF o = 0 THEN draft ELSE history[o].nodes

SameEvent(m, n) ==
    /\ m.on = n.on
    /\ (m.kind = "create" /\ n.kind = "create") \/ (Consumes(m) /\ Consumes(n))

\* A contract is created at most once, and not if it was there before, and consumed
\* at most once.
Lives ==
    /\ \A c \in before : life[c] # "unborn"
    /\ \A o \in 0..End : \A i \in DOMAIN NodesOf(o) :
          LET n == NodesOf(o)[i] IN
          /\ n.kind = "create" => life[n.on] # "unborn" /\ n.on \notin before
          /\ Consumes(n) => life[n.on] = "archived"
          /\ n.kind = "exercise" => n.choice \in ChoicesOn(n.on)

OneLife ==
    \A o, p \in 0..End : \A i \in DOMAIN NodesOf(o), j \in DOMAIN NodesOf(p) :
        SameEvent(NodesOf(o)[i], NodesOf(p)[j]) => o = p /\ i = j

LEMMA NodesType ==
    ASSUME ParticipantOK, NEW o \in 0..End
    PROVE  /\ NodesOf(o) \in Seq(Node)
           /\ \A i \in DOMAIN NodesOf(o) : NodesOf(o)[i] \in Node /\ NodesOf(o)[i].on \in Contract
  <1>1. NodesOf(o) \in Seq(Node)
    <2>1. o # 0 => history[o] \in Update
      BY EndType DEF ParticipantOK, End
    <2>. QED BY <2>1 DEF NodesOf, ParticipantOK, Update
  <1>2. \A i \in DOMAIN NodesOf(o) : NodesOf(o)[i] \in Node
    BY <1>1
  <1>. QED BY <1>1, <1>2 DEF Node

LEMMA LivesPerform ==
    ASSUME ParticipantOK, Lives, OneLife, NEW n \in Node, Perform(n)
    PROVE  Lives' /\ OneLife'
  <1>0. PICK m : m = Len(draft) + 1
    OBVIOUS
  <1>1. /\ draft' = Append(draft, n) /\ UNCHANGED <<history, before>> /\ draft \in Seq(Node)
        /\ n.on \in Contract /\ End \in Nat /\ End' = End
    BY EndType DEF Perform, ParticipantOK, Node, End
  <1>2. /\ n.kind = "create" => life[n.on] = "unborn" /\ life'[n.on] = "active" /\ ~Consumes(n)
        /\ Consumes(n) => life[n.on] = "active" /\ life'[n.on] = "archived" /\ n.kind # "create"
        /\ \A c \in Contract : life[c] # "unborn" => life'[c] # "unborn"
        /\ \A c \in Contract : life[c] = "archived" => life'[c] = "archived"
        /\ n.kind = "exercise" => n.choice \in ChoicesOn(n.on)
    <2>1. n.kind \in {"create", "archive", "exercise"}
      BY DEF Node
    <2>2. life' = [life EXCEPT ![n.on] = IF n.kind = "create" THEN "active"
                                         ELSE IF Consumes(n) THEN "archived" ELSE life[n.on]]
      BY DEF Perform
    <2>3. life[n.on] = IF n.kind = "create" THEN "unborn" ELSE "active"
      BY DEF Perform
    <2>4. life \in [Contract -> {"unborn", "active", "archived"}]
      BY DEF ParticipantOK
    <2>5. n.kind = "create" => ~Consumes(n)
      BY DEF Consumes
    <2>6. n.kind = "exercise" => n.choice \in ChoicesOn(n.on)
      BY DEF Perform
    <2>. QED BY <1>1, <2>1, <2>2, <2>3, <2>4, <2>5, <2>6
  <1>3. /\ \A o \in 1..End : NodesOf(o)' = NodesOf(o)
        /\ DOMAIN NodesOf(0)' = DOMAIN NodesOf(0) \cup {m} /\ m \notin DOMAIN NodesOf(0)
        /\ NodesOf(0)'[m] = n /\ \A i \in DOMAIN NodesOf(0) : NodesOf(0)'[i] = NodesOf(0)[i]
    BY <1>0, <1>1 DEF NodesOf
  <1>4. ASSUME NEW o \in 0..End, NEW i \in DOMAIN NodesOf(o)'
        PROVE  \/ o = 0 /\ i = m /\ NodesOf(o)'[i] = n
               \/ i \in DOMAIN NodesOf(o) /\ NodesOf(o)'[i] = NodesOf(o)[i]
    BY <1>1, <1>3, <1>4
  <1>5. \A o \in 0..End : \A i \in DOMAIN NodesOf(o) : NodesOf(o)[i].on \in Contract
    BY NodesType
  <1>6. Lives'
    <2>1. \A c \in before : life'[c] # "unborn"
      BY <1>2 DEF Lives, ParticipantOK
    <2>2. ASSUME NEW o \in 0..End, NEW i \in DOMAIN NodesOf(o)'
          PROVE  LET k == NodesOf(o)'[i] IN
                 /\ k.kind = "create" => life'[k.on] # "unborn" /\ k.on \notin before
                 /\ Consumes(k) => life'[k.on] = "archived"
                 /\ k.kind = "exercise" => k.choice \in ChoicesOn(k.on)
      <3>1. CASE o = 0 /\ i = m /\ NodesOf(o)'[i] = n
        BY <1>1, <1>2, <3>1 DEF Lives
      <3>2. CASE i \in DOMAIN NodesOf(o) /\ NodesOf(o)'[i] = NodesOf(o)[i]
        BY <1>2, <1>5, <3>2 DEF Lives
      <3>. QED BY <1>4, <2>2, <3>1, <3>2
    <2>. QED BY <1>1, <2>1, <2>2 DEF Lives
  <1>7. ASSUME NEW o \in 0..End, NEW i \in DOMAIN NodesOf(o)
        PROVE  ~SameEvent(NodesOf(o)[i], n) /\ ~SameEvent(n, NodesOf(o)[i])
    BY <1>2, <1>7 DEF Lives, SameEvent
  <1>8. OneLife'
    <2>1. ASSUME NEW o \in 0..End, NEW p \in 0..End,
                 NEW i \in DOMAIN NodesOf(o)', NEW j \in DOMAIN NodesOf(p)',
                 SameEvent(NodesOf(o)'[i], NodesOf(p)'[j])
          PROVE  o = p /\ i = j
      <3>1. \/ o = 0 /\ i = m /\ NodesOf(o)'[i] = n
            \/ i \in DOMAIN NodesOf(o) /\ NodesOf(o)'[i] = NodesOf(o)[i]
        BY <1>4
      <3>2. \/ p = 0 /\ j = m /\ NodesOf(p)'[j] = n
            \/ j \in DOMAIN NodesOf(p) /\ NodesOf(p)'[j] = NodesOf(p)[j]
        BY <1>4
      <3>. QED BY <1>7, <2>1, <3>1, <3>2 DEF OneLife
    <2>. QED BY <1>1, <2>1 DEF OneLife, SameEvent, Consumes
  <1>. QED BY <1>6, <1>8

\* The draft is recorded; or an update without nodes is, while there is none.
LEMMA LivesRecord ==
    ASSUME ParticipantOK, Lives, OneLife, NEW u \in Update, Record(u), u.nodes = draft,
           draft' = <<>>, UNCHANGED <<life, before>>
    PROVE  Lives' /\ OneLife'
  <1>0. PICK m : m = End + 1
    OBVIOUS
  <1>1. /\ End \in Nat /\ End' = m /\ history'[m].nodes = draft
        /\ \A o \in 1..End : history'[o] = history[o]
    BY <1>0, EndType, RecordType DEF Grown
  <1>2. /\ NodesOf(m)' = NodesOf(0) /\ DOMAIN NodesOf(0)' = {}
        /\ \A o \in 1..End : NodesOf(o)' = NodesOf(o)
    BY <1>0, <1>1 DEF NodesOf
  <1>. DEFINE old(o) == IF o = m THEN 0 ELSE o
  <1>3. ASSUME NEW o \in 0..m, NEW i \in DOMAIN NodesOf(o)'
        PROVE  /\ o # 0 /\ old(o) \in 0..End /\ NodesOf(o)' = NodesOf(old(o))
               /\ i \in DOMAIN NodesOf(old(o)) /\ NodesOf(o)'[i] = NodesOf(old(o))[i]
    BY <1>0, <1>1, <1>2, <1>3
  <1>4. Lives'
    <2>1. ASSUME NEW o \in 0..m, NEW i \in DOMAIN NodesOf(o)'
          PROVE  LET k == NodesOf(o)'[i] IN
                 /\ k.kind = "create" => life[k.on] # "unborn" /\ k.on \notin before
                 /\ Consumes(k) => life[k.on] = "archived"
                 /\ k.kind = "exercise" => k.choice \in ChoicesOn(k.on)
      BY <1>3 DEF Lives
    <2>. QED BY <1>1, <2>1 DEF Lives
  <1>5. OneLife'
    <2>1. ASSUME NEW o \in 0..m, NEW p \in 0..m,
                 NEW i \in DOMAIN NodesOf(o)', NEW j \in DOMAIN NodesOf(p)',
                 SameEvent(NodesOf(o)'[i], NodesOf(p)'[j])
          PROVE  o = p /\ i = j
      <3>1. old(o) = old(p) /\ i = j
        BY <1>3, <2>1 DEF OneLife
      <3>2. o # 0 /\ p # 0
        BY <1>3
      <3>. QED BY <3>1, <3>2
    <2>. QED BY <1>1, <2>1 DEF OneLife, SameEvent, Consumes
  <1>. QED BY <1>4, <1>5

LEMMA LivesStay ==
    ASSUME UNCHANGED <<life, before, draft, history>>
    PROVE  (Lives => Lives') /\ (OneLife => OneLife')
  BY DEF Lives, OneLife, NodesOf, End, SameEvent, Consumes

LEMMA LivesParticipant ==
    ASSUME ParticipantOK, Lives, OneLife, ParticipantNext
    PROVE  Lives' /\ OneLife'
  <1>1. ASSUME NEW d \in 0..Len(draft), NEW c \in Contract, NEW kind \in {"create", "archive"},
               Perform([depth |-> d, kind |-> kind, on |-> c, choice |-> "none"])
        PROVE  Lives' /\ OneLife'
    <2>1. [depth |-> d, kind |-> kind, on |-> c, choice |-> "none"] \in Node
      BY DEF Node, ParticipantOK
    <2>. QED BY <1>1, <2>1, LivesPerform
  <1>2. ASSUME NEW d \in 0..Len(draft), NEW c \in Contract, NEW choice \in ChoicesOn(c),
               Perform([depth |-> d, kind |-> "exercise", on |-> c, choice |-> choice])
        PROVE  Lives' /\ OneLife'
    <2>1. choice \in {"known", "instruction", "strange", "plain"}
      BY DEF ChoicesOn
    <2>2. [depth |-> d, kind |-> "exercise", on |-> c, choice |-> choice] \in Node
      BY <2>1 DEF Node, ParticipantOK
    <2>. QED BY <1>2, <2>2, LivesPerform
  <1>3. ASSUME NEW s \in inFlight \cup {None}, NEW ok \in BOOLEAN,
               Record([nodes |-> draft, completes |-> s, ok |-> ok]),
               draft' = <<>>, UNCHANGED <<life, before>>
        PROVE  Lives' /\ OneLife'
    <2>. DEFINE u == [nodes |-> draft, completes |-> s, ok |-> ok]
    <2>1. u \in Update /\ u.nodes = draft
      BY DEF Update, ParticipantOK
    <2>. HIDE DEF u
    <2>. QED BY <1>3, <2>1, LivesRecord DEF u
  <1>4. CASE HostParty
    BY <1>4, LivesStay DEF HostParty
  <1>. QED BY <1>1, <1>2, <1>3, <1>4 DEF ParticipantNext, Commit, Reject, Elsewhere


(***************************************************************************)
(* What the participant sends of a transaction                             *)
(***************************************************************************)

LEMMA BornIs ==
    ASSUME NEW o \in 1..End, NEW c
    PROVE  /\ c \in BornAt(o) <=> \E i \in DOMAIN NodesOf(o) :
                  NodesOf(o)[i].kind = "create" /\ NodesOf(o)[i].on = c
           /\ c \in GoneAt(o) <=> \E i \in DOMAIN NodesOf(o) :
                  Consumes(NodesOf(o)[i]) /\ NodesOf(o)[i].on = c
  BY DEF BornAt, GoneAt, NodesAt, NodesOf

LEMMA BornType ==
    ASSUME ParticipantOK, NEW o \in 1..End
    PROVE  BornAt(o) \subseteq Contract /\ GoneAt(o) \subseteq Contract /\ CreatedAt(o) \subseteq BornAt(o)
  BY BornIs, NodesType DEF CreatedAt

\* A contract is born at one offset only.
LEMMA BornOnce ==
    ASSUME ParticipantOK, OneLife, NEW o \in 1..End, NEW p \in 1..End, NEW c,
           (c \in BornAt(o) /\ c \in BornAt(p)) \/ (c \in GoneAt(o) /\ c \in GoneAt(p))
    PROVE  o = p
  <1>1. PICK i \in DOMAIN NodesOf(o), j \in DOMAIN NodesOf(p) : SameEvent(NodesOf(o)[i], NodesOf(p)[j])
    BY BornIs DEF SameEvent
  <1>. QED BY <1>1 DEF OneLife

LEMMA SeesSame ==
    ASSUME Grown, NEW o \in 1..End
    PROVE  /\ BornAt(o)' = BornAt(o) /\ GoneAt(o)' = GoneAt(o)
           /\ CreatedAt(o)' = CreatedAt(o) /\ ArchivedAt(o)' = ArchivedAt(o)
  BY DEF Grown, BornAt, GoneAt, NodesAt, CreatedAt, ArchivedAt, Consumes, Stake

(***************************************************************************)
(* Scans                                                                   *)
(***************************************************************************)

\* The participant sends a transaction at o.
Sent(o) == CreatedAt(o) \cup ArchivedAt(o) # {}

\* What a scan has read.
Paged ==
    /\ scan.at = "scanning" => scan.current < scan.end
    /\ scan.at = "done" => scan.current = scan.end
    /\ scan.at \in {"scanning", "done"} =>
          /\ \A o \in 1..scan.end :
                scan.read[o] = IF o <= scan.current /\ Sent(o) THEN 1 ELSE 0
          /\ \A c \in Contract : scan.result[c] > 0 => \E o \in 1..scan.current : c \in CreatedAt(o)
          /\ \A o \in 1..scan.current : CreatedAt(o) # {} =>
                \E c \in CreatedAt(o) :
                    scan.result[c] = 1 /\ \A d \in CreatedAt(o) : d # c => scan.result[d] = 0

LEMMA PageTells ==
    ASSUME ParticipantOK, NEW b \in Nat, NEW e \in 0..End, b < e, NEW pg \in UpdatePages(b, e)
    PROVE  /\ pg.upto \in b..e /\ pg.txs = Seen(b, pg.upto)
           /\ pg.txs \in SUBSET ((b + 1)..pg.upto) /\ IsFiniteSet(pg.txs)
           /\ \A o \in pg.txs : Sent(o)
           /\ \A o \in (b + 1)..pg.upto : o \notin pg.txs => ~Sent(o)
           /\ pg.txs = {} => b + 1 \in (b + 1)..pg.upto
  <1>1. PICK u \in b..e : pg \in [txs : {Seen(b, u)}, others : SUBSET ((b + 1)..u), upto : {u}]
    BY DEF UpdatePages
  <1>2. pg.upto = u /\ pg.txs = Seen(b, u) /\ pg.others \in SUBSET ((b + 1)..u)
    BY <1>1
  <1>3. /\ Seen(b, u) \in SUBSET ((b + 1)..u)
        /\ \A o \in (b + 1)..u : o \in Seen(b, u) <=> Sent(o)
    BY DEF Seen, Sent
  <1>4. IsFiniteSet(pg.txs) /\ IsFiniteSet(pg.others)
    <2>1. IsFiniteSet((b + 1)..u)
      BY EndType, FS_Interval
    <2>. QED BY <1>2, <1>3, <2>1, FS_Subset
  <1>5. ASSUME pg.txs = {} PROVE b + 1 \in (b + 1)..u
    <2>1. CASE pg.upto = e
      BY <1>2, <2>1, EndType
    <2>2. CASE pg.upto \in pg.txs \cup pg.others
      BY <1>2, <1>5, <2>2, EndType
    <2>. QED BY <2>1, <2>2 DEF UpdatePages
  <1>. QED BY <1>2, <1>3, <1>4, <1>5

LEMMA ScanTakes ==
    ASSUME TypeOK, OneLife, Paged, TakePage
    PROVE  ScanOK' /\ Paged'
  <1>1. /\ scan.at = "scanning" /\ scan.current < scan.end /\ scan.current \in Nat /\ scan.end \in 0..End
        /\ End \in Nat /\ UNCHANGED history /\ ParticipantOK /\ scan.result \in [Contract -> Nat]
    BY EndType DEF TakePage, Paged, TypeOK, ScanOK, participant, ledger
  <1>2. PICK pg \in UpdatePages(scan.current, scan.end) :
          /\ \A o \in pg.txs : CreatedAt(o) # {}
          /\ \E first \in [pg.txs -> Contract] :
            /\ \A o \in pg.txs : first[o] \in CreatedAt(o)
            /\ LET next == IF pg.txs = {} THEN PastNothing(scan.current)
                           ELSE LastOffset(pg.txs)
               IN scan' = [scan EXCEPT
                    !.at = Stands(next, scan.end), !.current = next,
                    !.read = [o \in 1..scan.end |->
                        scan.read[o] + (IF o \in pg.txs THEN 1 ELSE 0)],
                    !.result = [c \in Contract |->
                        scan.result[c] + Cardinality({o \in pg.txs : first[o] = c})]]
    BY DEF TakePage
  <1>3. PICK first \in [pg.txs -> Contract] :
            /\ \A o \in pg.txs : first[o] \in CreatedAt(o)
            /\ LET next == IF pg.txs = {} THEN PastNothing(scan.current)
                           ELSE LastOffset(pg.txs)
               IN scan' = [scan EXCEPT
                    !.at = Stands(next, scan.end), !.current = next,
                    !.read = [o \in 1..scan.end |->
                        scan.read[o] + (IF o \in pg.txs THEN 1 ELSE 0)],
                    !.result = [c \in Contract |->
                        scan.result[c] + Cardinality({o \in pg.txs : first[o] = c})]]
    BY <1>2
  <1>3a. PICK next : next = IF pg.txs = {} THEN scan.current + 1 ELSE LastOffset(pg.txs)
    OBVIOUS
  <1>3b. PICK result : result = [c \in Contract |->
                            scan.result[c] + Cardinality({o \in pg.txs : first[o] = c})]
    OBVIOUS
  <1>3d. PICK read : read = [o \in 1..scan.end |->
                            scan.read[o] + (IF o \in pg.txs THEN 1 ELSE 0)]
    OBVIOUS
  <1>3c. scan' = [scan EXCEPT !.at = Stands(next, scan.end), !.current = next,
                              !.read = read, !.result = result]
    BY <1>3, <1>3a, <1>3b, <1>3d DEF PastNothing
  <1>4. /\ pg.upto \in scan.current..scan.end /\ pg.txs = Seen(scan.current, pg.upto)
        /\ pg.txs \in SUBSET ((scan.current + 1)..pg.upto) /\ IsFiniteSet(pg.txs)
        /\ \A o \in pg.txs : Sent(o)
        /\ \A o \in (scan.current + 1)..pg.upto : o \notin pg.txs => ~Sent(o)
        /\ pg.txs = {} => scan.current + 1 \in (scan.current + 1)..pg.upto
    BY <1>1, <1>2, PageTells
  <1>. DEFINE count(c) == Cardinality({o \in pg.txs : first[o] = c})
  <1>5. /\ scan'.end = scan.end /\ scan'.current = next
        /\ scan'.at = IF next < scan.end THEN "scanning" ELSE "done"
        /\ \A c \in Contract : scan'.result[c] = scan.result[c] + count(c)
        /\ result = [c \in Contract |-> scan.result[c] + count(c)] /\ scan'.result = result
        /\ scan'.read = read
        /\ scan' = [scan EXCEPT !.at = scan'.at, !.current = next, !.read = read, !.result = result]
    BY <1>3b, <1>3c DEF Stands, More, TypeOK, ScanOK
  <1>6. /\ next \in (scan.current + 1)..scan.end /\ \A o \in pg.txs : o <= next
        /\ \A o \in (scan.current + 1)..next : o \notin pg.txs => ~Sent(o)
    <2>1. CASE pg.txs = {}
      BY <1>1, <1>3a, <1>4, <2>1
    <2>2. CASE pg.txs # {}
      <3>1. pg.txs \in SUBSET (0..End)
        BY <1>1, <1>4
      <3>2. next \in pg.txs /\ \A o \in pg.txs : o <= next
        BY <1>1, <1>3a, <2>2, <3>1, Largest
      <3>. QED BY <1>1, <1>4, <3>2
    <2>. QED BY <2>1, <2>2
  <1>7. ASSUME NEW c \in Contract PROVE count(c) \in Nat
    BY <1>4, FS_Subset, FS_CardinalityType
  <1>8. ScanOK'
    <2>. HIDE DEF count
    <2>1. result \in [Contract -> Nat]
      BY <1>1, <1>5, <1>7
    <2>4. read \in Seq(Nat) /\ Len(read) = scan.end
      <3>1. \A o \in 1..scan.end : scan.read[o] \in Nat
        BY <1>1 DEF TypeOK, ScanOK
      <3>2. read \in [1..scan.end -> Nat] /\ scan.end \in Nat
        BY <1>1, <1>3d, <3>1
      <3>. QED BY <3>2
    <2>2. scan' \in [at : {"idle", "scanning", "done", "threw"}, end : 0..End', current : 0..End',
                result : [Contract -> Nat], read : Seq(Nat)]
      <3>1. End' = End
        BY <1>1 DEF End
      <3>2. next \in 0..End /\ scan'.at \in {"idle", "scanning", "done", "threw"}
        BY <1>1, <1>5, <1>6
      <3>. QED BY <1>5, <2>1, <2>4, <3>1, <3>2 DEF TypeOK, ScanOK
    <2>3. scan'.current <= scan'.end /\ Len(scan'.read) = scan'.end
      BY <1>1, <1>5, <1>6, <2>4
    <2>. QED BY <2>2, <2>3 DEF ScanOK
  <1>9. ASSUME NEW c \in Contract, NEW o \in pg.txs, c \in CreatedAt(o)
        PROVE  count(c) = IF first[o] = c THEN 1 ELSE 0
    <2>1. \A p \in pg.txs : first[p] = c => p = o
      BY <1>1, <1>3, <1>4, <1>9, BornOnce, BornType
    <2>2. CASE first[o] = c
      <3>1. {p \in pg.txs : first[p] = c} = {o}
        BY <2>1, <2>2
      <3>. QED BY <2>2, <3>1, FS_Singleton
    <2>3. CASE first[o] # c
      <3>1. {p \in pg.txs : first[p] = c} = {}
        BY <2>1, <2>3
      <3>. QED BY <2>3, <3>1, FS_EmptySet
    <2>. QED BY <2>2, <2>3
  <1>10. ASSUME NEW c \in Contract, \A o \in pg.txs : c \notin CreatedAt(o) PROVE count(c) = 0
    <2>1. {o \in pg.txs : first[o] = c} = {}
      BY <1>3, <1>10
    <2>. QED BY <2>1, FS_EmptySet
  <1>. HIDE DEF count
  <1>11. \A o \in 1..End : /\ CreatedAt(o)' = CreatedAt(o) /\ CreatedAt(o) \subseteq Contract
                          /\ ArchivedAt(o)' = ArchivedAt(o)
    BY <1>1, BornType DEF CreatedAt, ArchivedAt, BornAt, GoneAt, NodesAt, Consumes, Stake
  <1>12. ASSUME NEW c \in Contract, scan'.result[c] > 0 PROVE \E o \in 1..next : c \in CreatedAt(o)
    <2>1. CASE \E o \in pg.txs : c \in CreatedAt(o)
      BY <1>1, <1>4, <1>6, <2>1
    <2>2. CASE \A o \in pg.txs : c \notin CreatedAt(o)
      <3>1. scan.result[c] > 0
        BY <1>1, <1>5, <1>10, <1>12, <2>2
      <3>2. PICK o \in 1..scan.current : c \in CreatedAt(o)
        BY <1>1, <3>1 DEF Paged
      <3>. QED BY <1>1, <1>6, <3>2
    <2>. QED BY <2>1, <2>2
  <1>13. ASSUME NEW o \in 1..next, CreatedAt(o) # {}
         PROVE  \E c \in CreatedAt(o) :
                    scan'.result[c] = 1 /\ \A d \in CreatedAt(o) : d # c => scan'.result[d] = 0
    <2>0. o \in 1..End
      BY <1>1, <1>6
    <2>1. CASE o <= scan.current
      <3>1. PICK c \in CreatedAt(o) :
                scan.result[c] = 1 /\ \A d \in CreatedAt(o) : d # c => scan.result[d] = 0
        BY <1>1, <1>13, <2>0, <2>1 DEF Paged
      <3>2. \A d \in CreatedAt(o) : \A p \in pg.txs : d \notin CreatedAt(p)
        BY <1>1, <1>4, <2>0, <2>1, BornOnce, BornType
      <3>3. \A d \in CreatedAt(o) : count(d) = 0
        BY <1>10, <1>11, <2>0, <3>2
      <3>4. \A d \in CreatedAt(o) : scan'.result[d] = scan.result[d]
        BY <1>1, <1>5, <1>11, <2>0, <3>3
      <3>. QED BY <3>1, <3>4
    <2>2. CASE o > scan.current
      <3>1. o \in pg.txs
        BY <1>1, <1>6, <1>13, <2>2 DEF Sent
      <3>2. \A d \in CreatedAt(o) : scan.result[d] = 0
        <4>1. ASSUME NEW d \in CreatedAt(o), scan.result[d] > 0 PROVE FALSE
          <5>1. PICK p \in 1..scan.current : d \in CreatedAt(p)
            BY <1>1, <1>11, <2>0, <4>1 DEF Paged
          <5>2. p \in 1..End
            BY <1>1
          <5>3. p = o
            BY <1>1, <2>0, <4>1, <5>1, <5>2, BornOnce, BornType
          <5>. QED BY <1>1, <2>2, <5>1, <5>3
        <4>. QED BY <1>1, <1>11, <2>0, <4>1
      <3>3. \A d \in CreatedAt(o) : scan'.result[d] = IF first[o] = d THEN 1 ELSE 0
        BY <1>5, <1>9, <1>11, <2>0, <3>1, <3>2
      <3>4. first[o] \in CreatedAt(o)
        BY <1>3, <3>1
      <3>. QED BY <3>3, <3>4
    <2>. QED BY <1>1, <1>6, <2>1, <2>2
  <1>14. \A o \in 1..next : o \in 1..End
    BY <1>1, <1>6
  <1>15. next <= scan.end /\ next \in Nat
    BY <1>1, <1>6
  <1>16. /\ \A c \in Contract : scan'.result[c] > 0 => \E o \in 1..next : c \in CreatedAt(o)'
         /\ \A o \in 1..next : CreatedAt(o)' # {} =>
                \E c \in CreatedAt(o)' :
                    scan'.result[c] = 1 /\ \A d \in CreatedAt(o)' : d # c => scan'.result[d] = 0
    BY <1>11, <1>12, <1>13, <1>14
  <1>19. ASSUME NEW o \in 1..scan.end
         PROVE  read[o] = IF o <= next /\ Sent(o) THEN 1 ELSE 0
    <2>1. read[o] = scan.read[o] + (IF o \in pg.txs THEN 1 ELSE 0)
      BY <1>3d
    <2>2. scan.read[o] = IF o <= scan.current /\ Sent(o) THEN 1 ELSE 0
      BY <1>1 DEF Paged
    <2>3. CASE o <= scan.current
      <3>1. o \notin pg.txs /\ o <= next
        BY <1>1, <1>4, <1>6, <2>3
      <3>. QED BY <2>1, <2>2, <2>3, <3>1
    <2>4. CASE ~(o <= scan.current)
      <3>1. o \in pg.txs <=> o <= next /\ Sent(o)
        BY <1>1, <1>4, <1>6, <2>4
      <3>. QED BY <2>1, <2>2, <2>4, <3>1
    <2>. QED BY <2>3, <2>4
  <1>20. \A o \in 1..scan.end : read[o] = IF o <= next /\ Sent(o)' THEN 1 ELSE 0
    <2>1. \A o \in 1..scan.end : Sent(o)' = Sent(o)
      BY <1>1, <1>11 DEF Sent
    <2>. QED BY <1>19, <2>1
  <1>17. scan'.at = "scanning" => next < scan'.end
    BY <1>5
  <1>18. scan'.at = "done" => next = scan'.end
    BY <1>1, <1>5, <1>15
  <1>. QED BY <1>5, <1>8, <1>16, <1>17, <1>18, <1>20 DEF Paged


LEMMA ScanStays ==
    ASSUME TypeOK, Grown, UNCHANGED scan
    PROVE  Paged => Paged'
  <1>1. /\ scan.current \in 0..End /\ \A o \in 1..scan.current : o \in 1..End
        /\ \A o \in 1..scan.end : o \in 1..End
    BY EndType DEF TypeOK, ScanOK
  <1>2. \A o \in 1..End : Sent(o)' <=> Sent(o)
    BY SeesSame DEF Sent
  <1>. QED BY <1>1, <1>2, SeesSame DEF Paged

LEMMA ScanSteps ==
    ASSUME TypeOK, OneLife, Paged, ScanNext
    PROVE  ParticipantOK' /\ ScanOK' /\ Paged' /\ UNCHANGED <<ledger, inFlight>>
  <1>1. UNCHANGED <<ledger, inFlight>> /\ budget' \in Allowance
    BY SpendType DEF ScanNext, StartScan, TakePage, PageThrows, PageFails, participant, Spent,
                     TypeOK, ParticipantOK
  <1>2. ParticipantOK' /\ UNCHANGED history /\ End' = End /\ End \in Nat
    BY <1>1, EndType DEF TypeOK, ParticipantOK, ledger, End
  <1>3. CASE StartScan
    <2>1. scan' = [at |-> IF 0 < End THEN "scanning" ELSE "done", end |-> End, current |-> 0,
                   result |-> [c \in Contract |-> 0], read |-> [o \in 1..End |-> 0]]
      BY <1>3 DEF StartScan, NoScan, Stands, More
    <2>2. ScanOK'
      <3>1. [o \in 1..End |-> 0] \in Seq(Nat) /\ Len([o \in 1..End |-> 0]) = End
        BY <1>2
      <3>. QED BY <1>2, <2>1, <3>1 DEF ScanOK
    <2>3. Paged'
      BY <1>2, <2>1 DEF Paged
    <2>. QED BY <1>1, <1>2, <2>2, <2>3
  <1>4. CASE PageThrows \/ PageFails
    <2>1. scan' = [scan EXCEPT !.at = "threw"]
      BY <1>4 DEF PageThrows, PageFails
    <2>. QED BY <1>1, <1>2, <2>1 DEF ScanOK, Paged, TypeOK
  <1>5. CASE TakePage
    BY <1>1, <1>2, <1>5, ScanTakes
  <1>. QED BY <1>3, <1>4, <1>5 DEF ScanNext

LEMMA PagedTells ==
    ASSUME TypeOK, OneLife, Paged
    PROVE  EachTransactionOnce
  <1>1. SUFFICES ASSUME scan.at \in {"scanning", "done"}
        PROVE  /\ \A o \in Seen(0, scan.end) :
                    scan.read[o] =
                        IF o <= (IF scan.at = "done" THEN scan.end ELSE scan.current) THEN 1 ELSE 0
               /\ \A c \in Contract : scan.result[c] <= 1
    BY DEF EachTransactionOnce
  <1>2. /\ (IF scan.at = "done" THEN scan.end ELSE scan.current) = scan.current
        /\ scan.current \in 0..End /\ End \in Nat /\ scan.end \in 0..End
        /\ scan.result \in [Contract -> Nat]
    BY <1>1, EndType DEF Paged, TypeOK, ScanOK
  <1>3. ASSUME NEW o \in Seen(0, scan.end)
        PROVE  scan.read[o] = IF o <= scan.current THEN 1 ELSE 0
    <2>1. o \in 1..scan.end /\ Sent(o)
      BY <1>2 DEF Seen, Sent
    <2>. QED BY <1>1, <2>1 DEF Paged
  <1>4. ASSUME NEW c \in Contract, scan.result[c] > 1 PROVE FALSE
    <2>1. PICK o \in 1..scan.current : c \in CreatedAt(o)
      BY <1>1, <1>2, <1>4 DEF Paged
    <2>2. PICK d \in CreatedAt(o) :
                scan.result[d] = 1 /\ \A e \in CreatedAt(o) : e # d => scan.result[e] = 0
      BY <1>1, <2>1 DEF Paged
    <2>. QED BY <1>4, <2>1, <2>2
  <1>. QED BY <1>2, <1>3, <1>4


(***************************************************************************)
(* What events tell of the party's holdings                                *)
(***************************************************************************)

OwnHolding(c) == IsHolding(c) /\ About[c].own

TellsCreate(e, c) == e.label # "archive" /\ c \in e.creates
TellsArchive(e, c) == (e.label = "archive" /\ c \in e.creates) \/ c \in e.archives

\* The events of T are of own holdings among born and gone, at most one of each kind
\* for each; born holdings that are not told are gone, too, and gone ones that are
\* not, nor in plain, are born and not told.
Tale(T, born, gone, plain) ==
    /\ \A k \in DOMAIN T, c \in Contract :
          /\ TellsCreate(T[k], c) => OwnHolding(c) /\ c \in born
          /\ TellsArchive(T[k], c) => OwnHolding(c) /\ c \in gone
    /\ \A k, m \in DOMAIN T, c \in Contract :
          \/ TellsCreate(T[k], c) /\ TellsCreate(T[m], c)
          \/ TellsArchive(T[k], c) /\ TellsArchive(T[m], c)
          => k = m
    /\ \A c \in Contract : OwnHolding(c) /\ c \in born =>
          c \in gone \/ \E k \in DOMAIN T : TellsCreate(T[k], c)
    /\ \A c \in Contract : OwnHolding(c) /\ c \in gone /\ c \notin plain =>
          \/ \E k \in DOMAIN T : TellsArchive(T[k], c)
          \/ c \in born /\ \A k \in DOMAIN T : ~TellsCreate(T[k], c)

\* T is T1 and then T2.
Joined(T, T1, T2) ==
    /\ \A k \in DOMAIN T :
          \/ k \in DOMAIN T1 /\ T[k] = T1[k]
          \/ \E m \in DOMAIN T2 : k = Len(T1) + m /\ T[k] = T2[m]
    /\ \A k \in DOMAIN T1 : k \in DOMAIN T /\ T[k] = T1[k]
    /\ \A m \in DOMAIN T2 : Len(T1) + m \in DOMAIN T /\ T[Len(T1) + m] = T2[m]

LEMMA JoinedIs ==
    ASSUME NEW S, NEW T1 \in Seq(S), NEW T2 \in Seq(S), NEW e \in S
    PROVE  /\ Joined(T1 \o T2, T1, T2) /\ Joined(Append(T1, e), T1, <<e>>) /\ Joined(T1, T1, <<>>)
           /\ T1 \o T2 \in Seq(S) /\ Append(T1, e) \in Seq(S)
  <1>1. Joined(T1 \o T2, T1, T2)
    <2>1. PICK T : T = T1 \o T2
      OBVIOUS
    <2>2. /\ Len(T) = Len(T1) + Len(T2) /\ DOMAIN T = 1..Len(T)
          /\ \A k \in 1..Len(T1) : T[k] = T1[k]
          /\ \A k \in (Len(T1) + 1)..(Len(T1) + Len(T2)) : T[k] = T2[k - Len(T1)]
          /\ Len(T1) \in Nat /\ Len(T2) \in Nat /\ DOMAIN T1 = 1..Len(T1) /\ DOMAIN T2 = 1..Len(T2)
      BY <2>1
    <2>3. ASSUME NEW m \in DOMAIN T2 PROVE Len(T1) + m \in DOMAIN T /\ T[Len(T1) + m] = T2[m]
      <3>1. /\ Len(T1) + m \in (Len(T1) + 1)..(Len(T1) + Len(T2))
            /\ (Len(T1) + m) - Len(T1) = m
        BY <2>2
      <3>. QED BY <2>2, <3>1
    <2>4. ASSUME NEW k \in DOMAIN T, k \notin DOMAIN T1
          PROVE  \E m \in DOMAIN T2 : k = Len(T1) + m /\ T[k] = T2[m]
      <3>1. k \in (Len(T1) + 1)..(Len(T1) + Len(T2))
        BY <2>2, <2>4
      <3>2. k - Len(T1) \in 1..Len(T2) /\ k = Len(T1) + (k - Len(T1))
        BY <2>2, <3>1
      <3>3. T[k] = T2[k - Len(T1)]
        BY <2>2, <3>1
      <3>. QED BY <2>2, <3>2, <3>3
    <2>5. \A k \in DOMAIN T1 : k \in DOMAIN T /\ T[k] = T1[k]
      BY <2>2
    <2>. QED BY <2>1, <2>3, <2>4, <2>5 DEF Joined
  <1>2. Joined(Append(T1, e), T1, <<e>>)
    BY DEF Joined
  <1>3. Joined(T1, T1, <<>>)
    BY DEF Joined
  <1>4. T1 \o T2 \in Seq(S) /\ Append(T1, e) \in Seq(S)
    OBVIOUS
  <1>. QED BY <1>1, <1>2, <1>3, <1>4

LEMMA TaleJoined ==
    ASSUME NEW S, NEW T1 \in Seq(S), NEW T2 \in Seq(S), NEW T, Joined(T, T1, T2),
           NEW b1, NEW g1, NEW p1, NEW b2, NEW g2, NEW p2,
           Tale(T1, b1, g1, p1), Tale(T2, b2, g2, p2), b1 \cap b2 = {}, g1 \cap g2 = {}
    PROVE  Tale(T, b1 \cup b2, g1 \cup g2, p1 \cup p2)
  <1>0. \A k \in DOMAIN T1 : k \in Nat
    OBVIOUS
  <1>. HIDE DEF TellsCreate, TellsArchive
  <1>1. ASSUME NEW k \in DOMAIN T, NEW c \in Contract
        PROVE  /\ TellsCreate(T[k], c) => OwnHolding(c) /\ c \in b1 \cup b2
               /\ TellsArchive(T[k], c) => OwnHolding(c) /\ c \in g1 \cup g2
    BY DEF Joined, Tale
  <1>2. ASSUME NEW k \in DOMAIN T, NEW m \in DOMAIN T, NEW c \in Contract,
               \/ TellsCreate(T[k], c) /\ TellsCreate(T[m], c)
               \/ TellsArchive(T[k], c) /\ TellsArchive(T[m], c)
        PROVE  k = m
    <2>1. \/ k \in DOMAIN T1 /\ T[k] = T1[k]
          \/ \E q \in DOMAIN T2 : k = Len(T1) + q /\ T[k] = T2[q]
      BY DEF Joined
    <2>2. \/ m \in DOMAIN T1 /\ T[m] = T1[m]
          \/ \E q \in DOMAIN T2 : m = Len(T1) + q /\ T[m] = T2[q]
      BY DEF Joined
    <2>. QED BY <1>2, <2>1, <2>2 DEF Tale
  <1>3. ASSUME NEW c \in Contract, OwnHolding(c), c \in b1 \cup b2,
               \A k \in DOMAIN T : ~TellsCreate(T[k], c)
        PROVE  c \in g1 \cup g2
    <2>1. /\ \A k \in DOMAIN T1 : ~TellsCreate(T1[k], c)
          /\ \A k \in DOMAIN T2 : ~TellsCreate(T2[k], c)
      BY <1>3 DEF Joined
    <2>. QED BY <1>3, <2>1 DEF Tale
  <1>4. ASSUME NEW c \in Contract, OwnHolding(c), c \in g1 \cup g2, c \notin p1 \cup p2,
               \A k \in DOMAIN T : ~TellsArchive(T[k], c)
        PROVE  c \in b1 \cup b2 /\ \A k \in DOMAIN T : ~TellsCreate(T[k], c)
    <2>1. /\ \A k \in DOMAIN T1 : ~TellsArchive(T1[k], c)
          /\ \A k \in DOMAIN T2 : ~TellsArchive(T2[k], c)
      BY <1>4 DEF Joined
    <2>2. \/ c \in b1 /\ \A k \in DOMAIN T1 : ~TellsCreate(T1[k], c)
          \/ c \in b2 /\ \A k \in DOMAIN T2 : ~TellsCreate(T2[k], c)
      BY <1>4, <2>1 DEF Tale
    <2>3. /\ c \notin b1 => \A k \in DOMAIN T1 : ~TellsCreate(T1[k], c)
          /\ c \notin b2 => \A k \in DOMAIN T2 : ~TellsCreate(T2[k], c)
      BY DEF Tale
    <2>4. /\ \A k \in DOMAIN T1 : ~TellsCreate(T1[k], c)
          /\ \A k \in DOMAIN T2 : ~TellsCreate(T2[k], c)
      BY <2>2, <2>3
    <2>. QED BY <2>2, <2>4 DEF Joined
  <1>. QED BY <1>1, <1>2, <1>3, <1>4 DEF Tale

LEMMA TaleOfNothing ==
    ASSUME NEW born, NEW gone, NEW plain,
           \A c \in Contract : OwnHolding(c) => c \notin born /\ (c \in gone => c \in plain)
    PROVE  Tale(<<>>, born, gone, plain)
  BY DEF Tale


(***************************************************************************)
(* Reading a transaction                                                   *)
(***************************************************************************)

\* What the nodes of s at the indices I create and consume.
BornIn(s, I) == {s[i].on : i \in {j \in I : s[j].kind = "create"}}
GoneIn(s, I) == {s[i].on : i \in {j \in I : Consumes(s[j])}}
PlainIn(s, I) == {s[i].on : i \in {j \in I : s[j].choice = "plain"}}

\* The nodes read, or told with an exercise above them.
ReadTo == IF parser.after < parser.next THEN parser.next - 1 ELSE parser.after

TaleOf(told_, s, I) == Tale(told_, BornIn(s, I), GoneIn(s, I), PlainIn(s, I))

Read ==
    parser.of # 0 =>
        /\ parser.next <= Len(Tree) + 1 /\ parser.after <= Len(Tree)
        /\ TaleOf(parser.told, Tree, 1..ReadTo)

LEMMA LastDescendantIs ==
    ASSUME NEW nodes \in Seq(Node), NEW i \in 1..Len(nodes)
    PROVE  LastDescendant(nodes, i) \in i..Len(nodes)
  <1>. DEFINE shallow == {k \in (i + 1)..Len(nodes) : nodes[k].depth <= nodes[i].depth}
  <1>1. \A k \in 1..Len(nodes) : nodes[k].depth \in Nat
    <2>1. \A k \in 1..Len(nodes) : nodes[k] \in Node
      OBVIOUS
    <2>. QED BY <2>1 DEF Node
  <1>2. \E j \in i..Len(nodes) : Ends(nodes, i, j)
    <2>1. CASE shallow = {}
      <3>1. Ends(nodes, i, Len(nodes))
        BY <1>1, <2>1 DEF Ends
      <3>. QED BY <3>1
    <2>2. CASE shallow # {}
      <3>0. shallow \in SUBSET Nat
        OBVIOUS
      <3>1. PICK m \in shallow : \A k \in shallow : m <= k
        BY <2>2, <3>0, SmallestExists
      <3>2. \A k \in (i + 1)..(m - 1) : nodes[k].depth > nodes[i].depth
        <4>1. ASSUME NEW k \in (i + 1)..(m - 1)
              PROVE  nodes[k].depth > nodes[i].depth
          <5>1. m \in (i + 1)..Len(nodes) /\ k \in (i + 1)..Len(nodes) /\ k \in 1..Len(nodes) /\ k < m
            BY <3>1, <4>1
          <5>2. k \notin shallow
            <6>1. k \in shallow => m <= k
              BY <3>1
            <6>. QED BY <5>1, <6>1
          <5>3. ~(nodes[k].depth <= nodes[i].depth)
            BY <5>1, <5>2
          <5>4. nodes[k].depth \in Nat /\ nodes[i].depth \in Nat
            BY <1>1, <5>1
          <5>. HIDE DEF shallow
          <5>. QED BY <5>3, <5>4
        <4>. QED BY <4>1
      <3>3. m - 1 \in i..Len(nodes) /\ (m - 1) + 1 = m /\ nodes[m].depth <= nodes[i].depth
        BY <3>1
      <3>. HIDE DEF shallow
      <3>4. Ends(nodes, i, m - 1)
        BY <3>2, <3>3 DEF Ends
      <3>. QED BY <3>3, <3>4
    <2>. QED BY <2>1, <2>2
  <1>. QED BY <1>2 DEF LastDescendant

\* A tree that is read is one of the history's.
LEMMA TreeIs ==
    ASSUME ParticipantOK, ParserOK, parser.of # 0
    PROVE  /\ parser.of \in 1..End /\ Tree = NodesOf(parser.of) /\ Tree \in Seq(Node)
           /\ Len(Tree) \in Nat /\ DOMAIN Tree = 1..Len(Tree)
           /\ \A i \in 1..Len(Tree) : Tree[i] \in Node /\ Tree[i].on \in Contract
  <1>1. parser.of \in 1..End /\ Tree = NodesOf(parser.of)
    BY EndType DEF ParserOK, NodesOf, Tree
  <1>2. parser.of \in 0..End
    BY <1>1, EndType
  <1>. QED BY <1>1, <1>2, NodesType

\* In one tree.
LEMMA OneEvent ==
    ASSUME ParticipantOK, OneLife, Lives, NEW o \in 0..End,
           NEW i \in DOMAIN NodesOf(o), NEW j \in DOMAIN NodesOf(o)
    PROVE  /\ SameEvent(NodesOf(o)[i], NodesOf(o)[j]) => i = j
           /\ NodesOf(o)[i].kind = "exercise" => NodesOf(o)[i].choice \in ChoicesOn(NodesOf(o)[i].on)
  BY DEF OneLife, Lives

\* Two parts of a tree make a whole.
LEMMA TaleGoesOn ==
    ASSUME ParticipantOK, OneLife, Lives, NEW o \in 0..End, NEW d \in Nat, NEW e \in Nat,
           d <= e, e <= Len(NodesOf(o)),
           NEW T1 \in Seq(Event), NEW T2 \in Seq(Event), NEW T, Joined(T, T1, T2),
           TaleOf(T1, NodesOf(o), 1..d), TaleOf(T2, NodesOf(o), (d + 1)..e)
    PROVE  TaleOf(T, NodesOf(o), 1..e)
  <1>. DEFINE s == NodesOf(o)
  <1>1. \A i \in 1..e : i \in DOMAIN s
    BY NodesType
  <1>2. \A i, j \in 1..e : SameEvent(s[i], s[j]) => i = j
    BY <1>1, OneEvent
  <1>. HIDE DEF s
  <1>3. 1..e = (1..d) \cup ((d + 1)..e) /\ (1..d) \cap ((d + 1)..e) = {}
    OBVIOUS
  <1>4. /\ BornIn(s, 1..e) = BornIn(s, 1..d) \cup BornIn(s, (d + 1)..e)
        /\ GoneIn(s, 1..e) = GoneIn(s, 1..d) \cup GoneIn(s, (d + 1)..e)
        /\ PlainIn(s, 1..e) = PlainIn(s, 1..d) \cup PlainIn(s, (d + 1)..e)
    BY <1>3 DEF BornIn, GoneIn, PlainIn
  <1>5. /\ BornIn(s, 1..d) \cap BornIn(s, (d + 1)..e) = {}
        /\ GoneIn(s, 1..d) \cap GoneIn(s, (d + 1)..e) = {}
    <2>1. \A i \in 1..d, j \in (d + 1)..e : ~SameEvent(s[i], s[j])
      BY <1>2, <1>3
    <2>2. ASSUME NEW c \in BornIn(s, 1..d), c \in BornIn(s, (d + 1)..e) PROVE FALSE
      <3>1. PICK i \in 1..d : s[i].kind = "create" /\ s[i].on = c
        BY DEF BornIn
      <3>2. PICK j \in (d + 1)..e : s[j].kind = "create" /\ s[j].on = c
        BY <2>2 DEF BornIn
      <3>. QED BY <2>1, <3>1, <3>2 DEF SameEvent
    <2>3. ASSUME NEW c \in GoneIn(s, 1..d), c \in GoneIn(s, (d + 1)..e) PROVE FALSE
      <3>1. PICK i \in 1..d : Consumes(s[i]) /\ s[i].on = c
        BY DEF GoneIn
      <3>2. PICK j \in (d + 1)..e : Consumes(s[j]) /\ s[j].on = c
        BY <2>3 DEF GoneIn
      <3>. QED BY <2>1, <3>1, <3>2 DEF SameEvent
    <2>. QED BY <2>2, <2>3
  <1>. QED BY <1>4, <1>5, TaleJoined DEF TaleOf, s

\* An event, or none if it names no holding.
Told1(label, creates, archives) ==
    IF creates \cup archives = {} THEN <<>>
    ELSE <<[label |-> label, creates |-> creates, archives |-> archives]>>

LEMMA TellIs ==
    ASSUME ParserOK, NEW label \in {"create", "archive", "exercise"},
           NEW creates \in SUBSET Contract, NEW archives \in SUBSET Contract
    PROVE  /\ Tell(label, creates, archives) \in Seq(Event)
           /\ Told1(label, creates, archives) \in Seq(Event)
           /\ Joined(Tell(label, creates, archives), parser.told, Told1(label, creates, archives))
  <1>. DEFINE e == [label |-> label, creates |-> creates, archives |-> archives]
  <1>1. e \in Event /\ parser.told \in Seq(Event) /\ <<>> \in Seq(Event)
    BY DEF Event, ParserOK
  <1>2. <<e>> \in Seq(Event)
    BY <1>1
  <1>. HIDE DEF e
  <1>. QED BY <1>1, <1>2, JoinedIs DEF Tell, Told1, e

\* One event tells of a part of a tree as the parser does.
LEMMA TaleOfOne ==
    ASSUME NEW label \in {"create", "archive", "exercise"},
           NEW creates \in SUBSET Contract, NEW archives \in SUBSET Contract,
           NEW born, NEW gone, NEW plain,
           label # "archive" => \A c \in creates : OwnHolding(c) /\ c \in born,
           label = "archive" => \A c \in creates : OwnHolding(c) /\ c \in gone,
           \A c \in archives : OwnHolding(c) /\ c \in gone,
           \A c \in Contract : OwnHolding(c) /\ c \in born =>
              c \in gone \/ (label # "archive" /\ c \in creates),
           \A c \in Contract : OwnHolding(c) /\ c \in gone /\ c \notin plain =>
              \/ c \in archives \/ (label = "archive" /\ c \in creates)
              \/ c \in born /\ ~(label # "archive" /\ c \in creates)
    PROVE  Tale(Told1(label, creates, archives), born, gone, plain)
  <1>1. CASE creates \cup archives = {}
    <2>1. Told1(label, creates, archives) = <<>>
      BY <1>1 DEF Told1
    <2>. QED BY <1>1, <2>1 DEF Tale
  <1>2. CASE creates \cup archives # {}
    <2>1. PICK T : T = Told1(label, creates, archives)
      OBVIOUS
    <2>2. /\ DOMAIN T = {1}
          /\ \A c : TellsCreate(T[1], c) <=> label # "archive" /\ c \in creates
          /\ \A c : TellsArchive(T[1], c) <=> (label = "archive" /\ c \in creates) \/ c \in archives
      BY <1>2, <2>1 DEF Told1, TellsCreate, TellsArchive
    <2>3. Tale(T, born, gone, plain)
      BY <2>2 DEF Tale
    <2>. QED BY <2>1, <2>3
  <1>. QED BY <1>1, <1>2


\* Each step of the parser reads one node more, or all of an exercise it knows.
LEMMA ReadSteps ==
    ASSUME TypeOK, Lives, OneLife, Read, ParseStep
    PROVE  ParserOK' /\ Read' /\ parser'.of = parser.of /\ parser.of # 0
  <1>. DEFINE o == parser.of
              s == NodesOf(o)
  <1>1. /\ ParticipantOK /\ ParserOK /\ UNCHANGED history /\ o # 0 /\ parser.next <= Len(s)
        /\ parser \in [of : 0..End, next : Nat \ {0}, after : Nat, told : Seq(Event)]
    BY DEF TypeOK, ListOK, ParserOK, ParseStep, Skip, ParseRaw, ParseKnown, ParseOther, Reading,
           participant, ledger, Tree, NodesOf
  <1>2. /\ o \in 1..End /\ Tree = s /\ s \in Seq(Node) /\ Len(s) \in Nat /\ DOMAIN s = 1..Len(s)
        /\ \A i \in 1..Len(s) : s[i] \in Node /\ s[i].on \in Contract
    BY <1>1, TreeIs
  <1>3. o \in 0..End /\ End \in Nat
    BY <1>1, EndType
  <1>. DEFINE n == parser.next
  <1>4. n \in 1..Len(s) /\ parser.after \in Nat /\ parser.after <= Len(s) /\ Current = s[n]
        /\ TaleOf(parser.told, s, 1..ReadTo) /\ parser.told \in Seq(Event)
    BY <1>1, <1>2 DEF Read, Current
  <1>5. /\ \A i, j \in 1..Len(s) : SameEvent(s[i], s[j]) => i = j
        /\ \A i \in 1..Len(s) : s[i].kind = "exercise" => s[i].choice \in ChoicesOn(s[i].on)
    BY <1>1, <1>2, <1>3, OneEvent
  <1>. HIDE DEF s
  <1>6. ASSUME NEW told_ \in Seq(Event), NEW e \in Nat, NEW last \in Nat, n <= e, e <= Len(s),
               parser' = [parser EXCEPT !.next = n + 1, !.after = last, !.told = told_],
               last <= Len(s), e = (IF last < n + 1 THEN n ELSE last),
               NEW T \in Seq(Event), Joined(told_, parser.told, T), TaleOf(T, s, n..e),
               ~Skipped
        PROVE  ParserOK' /\ Read' /\ parser'.of = parser.of
    <2>1. ReadTo = n - 1 /\ (n - 1) + 1 = n /\ n - 1 \in Nat /\ n - 1 <= e
      BY <1>1, <1>4, <1>6 DEF Skipped, ReadTo
    <2>2. TaleOf(told_, s, 1..e)
      BY <1>1, <1>3, <1>4, <1>6, <2>1, TaleGoesOn DEF s
    <2>3. parser'.next = n + 1 /\ parser'.after = last /\ parser'.told = told_ /\ parser'.of = o
      BY <1>1, <1>6
    <2>4. Tree' = s
      BY <1>1, <1>2, <2>3 DEF Tree
    <2>5. ReadTo' = e
      BY <1>4, <1>6, <2>3 DEF ReadTo
    <2>6. ParserOK'
      <3>1. End' = End
        BY <1>1 DEF End
      <3>2. n + 1 \in Nat \ {0} /\ last \in Nat /\ told_ \in Seq(Event)
        BY <1>4
      <3>3. parser' \in [of : 0..End, next : Nat \ {0}, after : Nat, told : Seq(Event)]
        BY <1>1, <1>6, <3>2
      <3>. QED BY <3>1, <3>3 DEF ParserOK
    <2>7. TaleOf(parser'.told, Tree', 1..ReadTo')
      BY <2>2, <2>3, <2>4, <2>5
    <2>8. parser'.next <= Len(Tree') + 1 /\ parser'.after <= Len(Tree')
      BY <1>4, <1>6, <2>3, <2>4
    <2>9. Read'
      BY <2>7, <2>8 DEF Read
    <2>. QED BY <2>3, <2>6, <2>9
  <1>7. ASSUME NEW told_ \in Seq(Event), NEW T \in Seq(Event), Joined(told_, parser.told, T),
               TaleOf(T, s, {n}), ~Skipped, parser' = [parser EXCEPT !.next = n + 1, !.told = told_]
        PROVE  ParserOK' /\ Read' /\ parser'.of = parser.of
    <2>1. parser' = [parser EXCEPT !.next = n + 1, !.after = parser.after, !.told = told_]
      BY <1>1, <1>7
    <2>2. /\ n..n = {n} /\ n \in Nat /\ n <= n /\ n <= Len(s) /\ parser.after \in Nat
          /\ parser.after <= Len(s) /\ n = (IF parser.after < n + 1 THEN n ELSE parser.after)
      BY <1>4, <1>7 DEF Skipped
    <2>3. TaleOf(T, s, n..n)
      BY <1>7, <2>2
    <2>. HIDE DEF n
    <2>. QED BY <1>6, <1>7, <2>1, <2>2, <2>3
  <1>8. /\ parser.told \in Seq(Event) /\ <<>> \in Seq(Event) /\ Joined(parser.told, parser.told, <<>>)
        /\ \A t : t = parser.told => [parser EXCEPT !.next = n + 1, !.told = t] = [parser EXCEPT !.next = n + 1]
    <2>1. [label |-> "create", creates |-> {}, archives |-> {}] \in Event
      BY DEF Event
    <2>2. <<>> \in Seq(Event)
      OBVIOUS
    <2>. QED BY <1>1, <1>4, <2>1, <2>2, JoinedIs
  <1>9. CASE Skip
    <2>1. parser' = [parser EXCEPT !.next = n + 1] /\ n <= parser.after
      BY <1>9 DEF Skip, Skipped
    <2>2. parser'.next = n + 1 /\ parser'.after = parser.after /\ parser'.told = parser.told /\ parser'.of = o
      BY <1>1, <2>1
    <2>3. Tree' = s
      BY <1>1, <1>2, <2>2 DEF Tree
    <2>4. ReadTo' = parser.after /\ ReadTo = parser.after
      BY <1>4, <2>1, <2>2 DEF ReadTo
    <2>5. ParserOK'
      <3>1. End' = End
        BY <1>1 DEF End
      <3>2. n + 1 \in Nat \ {0}
        BY <1>4
      <3>3. parser' \in [of : 0..End, next : Nat \ {0}, after : Nat, told : Seq(Event)]
        BY <1>1, <2>1, <3>2
      <3>. QED BY <3>1, <3>3 DEF ParserOK
    <2>6. TaleOf(parser'.told, Tree', 1..ReadTo')
      BY <1>4, <2>2, <2>3, <2>4
    <2>7. parser'.next <= Len(Tree') + 1 /\ parser'.after <= Len(Tree')
      BY <1>4, <2>2, <2>3
    <2>. QED BY <1>1, <2>2, <2>5, <2>6, <2>7 DEF Read
  <1>10. CASE ParseRaw
    <2>. DEFINE c == s[n].on
    <2>1. /\ ~Skipped /\ s[n].kind \in {"create", "archive"} /\ c \in Contract
          /\ parser' = [parser EXCEPT !.next = n + 1,
                !.told = IF OwnHolding(c) THEN Tell(s[n].kind, {c}, {}) ELSE parser.told]
      BY <1>2, <1>4, <1>10 DEF ParseRaw, OwnHolding
    <2>2. /\ BornIn(s, {n}) = IF s[n].kind = "create" THEN {c} ELSE {}
          /\ GoneIn(s, {n}) = IF s[n].kind = "archive" THEN {c} ELSE {}
      BY <2>1 DEF BornIn, GoneIn, Consumes
    <2>3. CASE OwnHolding(c)
      <3>. DEFINE T == Told1(s[n].kind, {c}, {})
      <3>1. /\ Tell(s[n].kind, {c}, {}) \in Seq(Event) /\ T \in Seq(Event)
            /\ Joined(Tell(s[n].kind, {c}, {}), parser.told, T)
        BY <1>1, <2>1, TellIs
      <3>2. Tale(T, BornIn(s, {n}), GoneIn(s, {n}), PlainIn(s, {n}))
        BY <2>1, <2>2, <2>3, TaleOfOne
      <3>. HIDE DEF T
      <3>. QED BY <1>1, <1>7, <2>1, <2>3, <3>1, <3>2 DEF TaleOf
    <2>4. CASE ~OwnHolding(c)
      <3>1. TaleOf(<<>>, s, {n})
        BY <2>1, <2>2, <2>4, TaleOfNothing DEF TaleOf
      <3>. QED BY <1>1, <1>7, <1>8, <2>1, <2>4, <3>1
    <2>. QED BY <2>3, <2>4
  <1>11. CASE ParseOther
    <2>1. /\ ~Skipped /\ s[n].kind = "exercise" /\ ~Known(s[n]) /\ s[n].on \in Contract
          /\ parser' = [parser EXCEPT !.next = n + 1]
      BY <1>2, <1>4, <1>11 DEF ParseOther
    <2>2. OwnHolding(s[n].on) => s[n].choice = "plain"
      BY <1>4, <1>5, <2>1 DEF Known, ChoicesOn, OwnHolding, IsHolding
    <2>3. TaleOf(<<>>, s, {n})
      <3>1. BornIn(s, {n}) = {}
        BY <2>1 DEF BornIn
      <3>2. \A c \in GoneIn(s, {n}) : OwnHolding(c) => c \in PlainIn(s, {n})
        BY <2>2 DEF GoneIn, PlainIn
      <3>. QED BY <3>1, <3>2, TaleOfNothing DEF TaleOf
    <2>. QED BY <1>1, <1>7, <1>8, <2>1, <2>3
  <1>12. CASE ParseKnown
    <2>. DEFINE last == LastDescendant(s, n)
                I == n..last
                change == Children(n)
                creates == Own(change.creates)
                archives == Own(change.archives)
    <2>1. /\ ~Skipped /\ s[n].kind = "exercise"
          /\ parser' = [parser EXCEPT !.next = n + 1, !.after = last,
                                      !.told = Tell("exercise", creates, archives)]
      BY <1>2, <1>4, <1>12 DEF ParseKnown, Known
    <2>2. last \in n..Len(s)
      BY <1>2, <1>4, LastDescendantIs
    <2>3. /\ I = {n} \cup ((n + 1)..last) /\ \A i \in I : i \in 1..Len(s)
          /\ Below(n) = (n + 1)..last
      BY <1>2, <1>4, <2>2 DEF Below
    <2>4. /\ \A c \in Contract : OwnHolding(c) => (c \in Created(Below(n)) <=> c \in BornIn(s, I))
          /\ \A c \in Contract : OwnHolding(c) => (c \in Archived({n} \cup Below(n)) <=> c \in GoneIn(s, I))
      <3>1. \A c \in Contract : OwnHolding(c) => IsHolding(c) /\ About[c].found
        BY ContractAssumption DEF OwnHolding
      <3>2. \A i \in I : s[i].kind = "create" => i # n
        BY <2>1
      <3>. HIDE DEF last, I
      <3>. QED BY <1>2, <2>3, <3>1, <3>2 DEF Created, Archived, BornIn, GoneIn
    <2>5. /\ creates \in SUBSET Contract /\ archives \in SUBSET Contract
          /\ \A c \in creates \cup archives : OwnHolding(c)
      <3>1. /\ \A c \in Created(Below(n)) : c \in Contract /\ IsHolding(c)
            /\ \A c \in Archived({n} \cup Below(n)) : c \in Contract /\ IsHolding(c)
        BY <1>2, <2>3 DEF Created, Archived
      <3>. QED BY <3>1 DEF Children, Own, OwnHolding
    <2>6. \A c \in Contract : OwnHolding(c) =>
             /\ c \in creates <=> c \in BornIn(s, I) /\ c \notin GoneIn(s, I)
             /\ c \in archives <=> c \in GoneIn(s, I) /\ c \notin BornIn(s, I)
      BY <2>4 DEF Children, Own, OwnHolding
    <2>. DEFINE T == Told1("exercise", creates, archives)
    <2>7. /\ Tell("exercise", creates, archives) \in Seq(Event) /\ T \in Seq(Event)
          /\ Joined(Tell("exercise", creates, archives), parser.told, T)
      BY <1>1, <2>5, TellIs
    <2>8. TaleOf(T, s, I)
      <3>. HIDE DEF I, creates, archives
      <3>. QED BY <2>5, <2>6, TaleOfOne DEF TaleOf
    <2>. HIDE DEF T, creates, archives
    <2>9. PICK e : e = last /\ e \in Nat /\ n <= e /\ e <= Len(s) /\ e = (IF last < n + 1 THEN n ELSE last)
      BY <1>2, <1>4, <2>2
    <2>. HIDE DEF last
    <2>. QED BY <1>1, <1>6, <2>1, <2>7, <2>8, <2>9
  <1>. QED BY <1>1, <1>9, <1>10, <1>11, <1>12 DEF ParseStep

(***************************************************************************)
(* Lists                                                                   *)
(***************************************************************************)

PlainAt(o) == {n.on : n \in {m \in NodesAt(o) : m.choice = "plain"}}

TaleOver(T, O) ==
    Tale(T, UNION {BornAt(o) : o \in O}, UNION {GoneAt(o) : o \in O}, UNION {PlainAt(o) : o \in O})

Transactions(a, e) == {o \in (a + 1)..e : HasTransaction(o)}

\* What was told up to the offset a client goes on from, and in a list.
Listing ==
    /\ parser.of # 0 => list.at = "parse" /\ parser.of \in list.todo
    /\ list.at # "idle" => call.at = "idle" /\ after <= list.end /\ confirmed <= list.end
    /\ list.at = "updates" => list.told = <<>>
    /\ list.at = "parse" =>
          /\ list.todo \subseteq Transactions(after, list.end)
          /\ \A o \in Transactions(after, list.end) : o <= list.next
          /\ list.next = 0 \/ list.next > after
          /\ TaleOver(list.told, Transactions(after, list.end) \ list.todo)
    /\ TaleOver(told, 1..after)

LEMMA TaleOverJoined ==
    ASSUME ParticipantOK, OneLife, NEW T1 \in Seq(Event), NEW T2 \in Seq(Event), NEW T, Joined(T, T1, T2),
           NEW O1 \in SUBSET (1..End), NEW O2 \in SUBSET (1..End), O1 \cap O2 = {},
           TaleOver(T1, O1), TaleOver(T2, O2)
    PROVE  TaleOver(T, O1 \cup O2)
  <1>1. PICK b1, g1, p1 : /\ b1 = UNION {BornAt(o) : o \in O1} /\ g1 = UNION {GoneAt(o) : o \in O1}
                          /\ p1 = UNION {PlainAt(o) : o \in O1}
    OBVIOUS
  <1>2. PICK b2, g2, p2 : /\ b2 = UNION {BornAt(o) : o \in O2} /\ g2 = UNION {GoneAt(o) : o \in O2}
                          /\ p2 = UNION {PlainAt(o) : o \in O2}
    OBVIOUS
  <1>3. Tale(T1, b1, g1, p1) /\ Tale(T2, b2, g2, p2)
    BY <1>1, <1>2 DEF TaleOver
  <1>4. b1 \cap b2 = {} /\ g1 \cap g2 = {}
    BY <1>1, <1>2, BornOnce
  <1>5. Tale(T, b1 \cup b2, g1 \cup g2, p1 \cup p2)
    BY <1>3, <1>4, TaleJoined
  <1>6. /\ b1 \cup b2 = UNION {BornAt(o) : o \in O1 \cup O2}
        /\ g1 \cup g2 = UNION {GoneAt(o) : o \in O1 \cup O2}
        /\ p1 \cup p2 = UNION {PlainAt(o) : o \in O1 \cup O2}
    BY <1>1, <1>2
  <1>. QED BY <1>5, <1>6 DEF TaleOver

\* Offsets without a transaction add nothing.
LEMMA TaleOverSame ==
    ASSUME NEW T, NEW O, NEW O2, O \subseteq O2, \A o \in O2 \ O : ~HasTransaction(o)
    PROVE  TaleOver(T, O) <=> TaleOver(T, O2)
  <1>1. \A o \in O2 \ O : BornAt(o) = {} /\ GoneAt(o) = {} /\ PlainAt(o) = {}
    BY DEF HasTransaction, BornAt, GoneAt, PlainAt, NodesAt
  <1>2. /\ UNION {BornAt(o) : o \in O} = UNION {BornAt(o) : o \in O2}
        /\ UNION {GoneAt(o) : o \in O} = UNION {GoneAt(o) : o \in O2}
        /\ UNION {PlainAt(o) : o \in O} = UNION {PlainAt(o) : o \in O2}
    BY <1>1
  <1>. QED BY <1>2 DEF TaleOver

LEMMA TaleOverGrown ==
    ASSUME Grown, NEW T, NEW O \in SUBSET (1..End)
    PROVE  TaleOver(T, O)' <=> TaleOver(T, O)
  <1>1. \A o \in O : BornAt(o)' = BornAt(o) /\ GoneAt(o)' = GoneAt(o) /\ PlainAt(o)' = PlainAt(o)
    BY SeesSame DEF Grown, PlainAt, NodesAt
  <1>2. /\ UNION {BornAt(o)' : o \in O} = UNION {BornAt(o) : o \in O}
        /\ UNION {GoneAt(o)' : o \in O} = UNION {GoneAt(o) : o \in O}
        /\ UNION {PlainAt(o)' : o \in O} = UNION {PlainAt(o) : o \in O}
    BY <1>1
  <1>. QED BY <1>2 DEF TaleOver

\* A parsed transaction has been told.
LEMMA ParsedIsTold ==
    ASSUME ParticipantOK, ParserOK, Read, Parsed
    PROVE  TaleOver(parser.told, {parser.of})
  <1>1. /\ parser.of # 0 /\ ReadTo = Len(Tree) /\ TaleOf(parser.told, Tree, 1..Len(Tree))
        /\ DOMAIN Tree = 1..Len(Tree) /\ Tree = history[parser.of].nodes
    BY TreeIs DEF Read, Parsed, ReadTo, ParserOK, Tree
  <1>2. /\ BornIn(Tree, 1..Len(Tree)) = BornAt(parser.of)
        /\ GoneIn(Tree, 1..Len(Tree)) = GoneAt(parser.of)
        /\ PlainIn(Tree, 1..Len(Tree)) = PlainAt(parser.of)
    BY <1>1 DEF BornIn, GoneIn, PlainIn, BornAt, GoneAt, PlainAt, NodesAt
  <1>3. \A S : UNION {S} = S
    OBVIOUS
  <1>4. /\ UNION {BornAt(o) : o \in {parser.of}} = BornAt(parser.of)
        /\ UNION {GoneAt(o) : o \in {parser.of}} = GoneAt(parser.of)
        /\ UNION {PlainAt(o) : o \in {parser.of}} = PlainAt(parser.of)
    OBVIOUS
  <1>. QED BY <1>1, <1>2, <1>4 DEF TaleOver, TaleOf

LEMMA ListGrown ==
    ASSUME TypeOK, Grown, UNCHANGED <<waits, listing>>
    PROVE  (Read => Read') /\ (Listing => Listing')
  <1>1. /\ End \in Nat /\ parser.of \in 0..End /\ list.end \in 0..End /\ after \in 0..End
        /\ UNCHANGED <<parser, list, told, after, call, confirmed>>
    BY EndType DEF TypeOK, ListOK, ParserOK, listing, waits
  <1>2. Read => Read'
    <2>1. parser.of # 0 => Tree' = Tree
      BY <1>1 DEF Grown, Tree
    <2>. QED BY <1>1, <2>1 DEF Read, ReadTo
  <1>3. Transactions(after, list.end)' = Transactions(after, list.end)
    BY <1>1 DEF Transactions, HasTransaction, Grown
  <1>4. TaleOver(told, 1..after)' <=> TaleOver(told, 1..after)
    <2>1. 1..after \in SUBSET (1..End)
      BY <1>1
    <2>2. PICK T, a : T = told /\ a = after
      OBVIOUS
    <2>3. TaleOver(T, 1..a)' <=> TaleOver(T, 1..a)
      BY <2>1, <2>2, TaleOverGrown
    <2>. QED BY <1>1, <2>2, <2>3
  <1>5. LET O == Transactions(after, list.end) \ list.todo IN
        TaleOver(list.told, O)' <=> TaleOver(list.told, O)
    <2>1. PICK T, O : T = list.told /\ O = Transactions(after, list.end) \ list.todo
      OBVIOUS
    <2>2. O \in SUBSET (1..End)
      BY <1>1, <2>1 DEF Transactions
    <2>3. TaleOver(T, O)' <=> TaleOver(T, O)
      BY <2>2, TaleOverGrown
    <2>4. O = (Transactions(after, list.end) \ list.todo)' /\ T = list'.told
      BY <1>1, <1>3, <2>1
    <2>. QED BY <2>1, <2>3, <2>4
  <1>6. Listing => Listing'
    BY <1>1, <1>3, <1>4, <1>5 DEF Listing
  <1>. QED BY <1>2, <1>6


\* Where nothing is recorded, what there is to tell stays the same.
LEMMA TaleStays ==
    ASSUME TypeOK, UNCHANGED history
    PROVE  /\ \A T, O : TaleOver(T, O)' <=> TaleOver(T, O)
           /\ \A a, e : Transactions(a, e)' = Transactions(a, e)
           /\ parser' = parser => (Read => Read')
           /\ parser' = NoParser => Read'
  <1>1. \A o : BornAt(o)' = BornAt(o) /\ GoneAt(o)' = GoneAt(o) /\ PlainAt(o)' = PlainAt(o)
    BY DEF BornAt, GoneAt, PlainAt, NodesAt, Consumes
  <1>2. ASSUME NEW T, NEW O
        PROVE  TaleOver(T, O)' <=> TaleOver(T, O)
    <2>1. /\ UNION {BornAt(o)' : o \in O} = UNION {BornAt(o) : o \in O}
          /\ UNION {GoneAt(o)' : o \in O} = UNION {GoneAt(o) : o \in O}
          /\ UNION {PlainAt(o)' : o \in O} = UNION {PlainAt(o) : o \in O}
      BY <1>1
    <2>. QED BY <2>1 DEF TaleOver
  <1>3. \A a, e : Transactions(a, e)' = Transactions(a, e)
    BY DEF Transactions, HasTransaction
  <1>4. parser' = parser => (Read => Read')
    BY DEF Read, Tree, ReadTo
  <1>5. parser' = NoParser => Read'
    BY DEF Read, NoParser
  <1>. QED BY <1>2, <1>3, <1>4, <1>5

LEMMA ListSteps ==
    ASSUME TypeOK, Lives, OneLife, Read, Listing, call.at = "idle", UNCHANGED waits, ListNext
    PROVE  ParticipantOK' /\ ListOK' /\ Read' /\ Listing' /\ UNCHANGED <<ledger, inFlight>>
  <1>1. /\ End \in Nat /\ parser.of \in 0..End /\ list.at \in {"idle", "updates", "parse"}
        /\ list.end \in 0..End /\ list.todo \in SUBSET (1..list.end) /\ list.next \in 0..list.end
        /\ list.told \in Seq(Event) /\ told \in Seq(Event) /\ after \in 0..End /\ confirmed \in 0..End
        /\ parser.told \in Seq(Event)
    BY EndType DEF TypeOK, ListOK, ParserOK, WaitsOK
  <1>2. UNCHANGED history /\ UNCHANGED <<ledger, inFlight>> /\ ParticipantOK' /\ End' = End
    <2>1. UNCHANGED <<ledger, inFlight>> /\ budget' \in Allowance
      BY SpendType DEF TypeOK, ParticipantOK, ListNext, StartList, ReadUpdates, ParseNext, ParseStep,
         ParseEnd, ReturnList, FailList, participant, Spent
    <2>. QED BY <2>1 DEF TypeOK, ParticipantOK, ledger, End
  <1>3. call'.at = "idle" /\ confirmed' = confirmed
    BY DEF waits
  <1>4. ASSUME StartList
        PROVE  ListOK' /\ Read' /\ Listing'
    <2>1. /\ list.at = "idle" /\ UNCHANGED <<parser, told, after>>
          /\ list' = [at |-> "updates", end |-> End, todo |-> {}, next |-> 0, told |-> <<>>]
      BY <1>4 DEF StartList, NoList
    <2>2. ListOK'
      BY <1>1, <1>2, <2>1 DEF TypeOK, ListOK, ParserOK
    <2>3. Read'
      BY <1>2, <2>1, TaleStays
    <2>4. TaleOver(told, 1..after)'
      BY <1>2, <2>1, TaleStays DEF Listing
    <2>. QED BY <1>1, <1>2, <1>3, <2>1, <2>2, <2>3, <2>4 DEF Listing
  <1>5. ASSUME ReadUpdates
        PROVE  ListOK' /\ Read' /\ Listing'
    <2>. DEFINE todo == Transactions(after, list.end)
    <2>1. PICK checkpoints \in SUBSET ((after + 1)..list.end) :
             list' = [list EXCEPT !.at = "parse", !.todo = todo,
                        !.next = IF todo \cup checkpoints = {} THEN 0
                                 ELSE LastOf(todo \cup checkpoints)]
      BY <1>5 DEF ReadUpdates, Transactions
    <2>2. todo \in SUBSET ((after + 1)..list.end)
      BY DEF Transactions
    <2>3. PICK next : next = IF todo \cup checkpoints = {} THEN 0
                             ELSE LastOf(todo \cup checkpoints)
      OBVIOUS
    <2>4. next \in 0..list.end /\ (next = 0 \/ next > after) /\ \A o \in todo : o <= next
      <3>1. CASE todo \cup checkpoints = {}
        BY <1>1, <2>3, <3>1
      <3>2. CASE todo \cup checkpoints # {}
        <4>1. todo \cup checkpoints \in SUBSET ((after + 1)..list.end)
          BY <2>2
        <4>2. todo \cup checkpoints \in SUBSET (0..list.end) /\ list.end \in Nat
          BY <1>1, <4>1
        <4>3. next \in todo \cup checkpoints /\ \A x \in todo \cup checkpoints : x <= next
          BY <2>3, <3>2, <4>2, Largest
        <4>4. next \in (after + 1)..list.end
          BY <4>1, <4>3
        <4>. HIDE DEF todo
        <4>. QED BY <1>1, <4>3, <4>4
      <3>. QED BY <3>1, <3>2
    <2>5. list.at = "updates" /\ list.told = <<>> /\ UNCHANGED <<parser, told, after>> /\ parser.of = 0
          /\ after <= list.end /\ confirmed <= list.end
      BY <1>5 DEF ReadUpdates, Listing
    <2>6. list' = [at |-> "parse", end |-> list.end, todo |-> todo, next |-> next, told |-> <<>>]
      <3>. HIDE DEF todo
      <3>. QED BY <2>1, <2>3, <2>5 DEF TypeOK, ListOK
    <2>7. ListOK'
      <3>1. todo \in SUBSET (1..End) /\ todo \subseteq 1..list.end
        BY <1>1, <2>2
      <3>. HIDE DEF todo
      <3>. QED BY <1>1, <1>2, <2>4, <2>5, <2>6, <3>1 DEF TypeOK, ListOK, ParserOK
    <2>8. Read'
      BY <1>2, <2>5, TaleStays
    <2>9. TaleOver(told, 1..after)' /\ Transactions(after, list.end)' = todo
      BY <1>2, <2>5, <2>6, TaleStays DEF Listing
    <2>10. TaleOver(list.told, Transactions(after, list.end) \ list.todo)'
      <3>1. TaleOver(<<>>, {})
        BY TaleOfNothing DEF TaleOver
      <3>2. TaleOver(<<>>, {})'
        BY <1>2, <3>1, TaleStays
      <3>3. list'.told = <<>> /\ (Transactions(after, list.end) \ list.todo)' = {}
        BY <2>6, <2>9
      <3>. QED BY <3>2, <3>3
    <2>. HIDE DEF todo
    <2>. QED BY <1>1, <1>2, <1>3, <2>4, <2>5, <2>6, <2>7, <2>8, <2>9, <2>10 DEF Listing
  <1>6. ASSUME ParseNext
        PROVE  ListOK' /\ Read' /\ Listing'
    <2>1. PICK o : o = FirstOf(list.todo)
      OBVIOUS
    <2>2. /\ list.at = "parse" /\ list.todo # {} /\ UNCHANGED <<list, told, after>>
          /\ parser' = [of |-> o, next |-> 1, after |-> 0, told |-> <<>>]
      BY <1>6, <2>1 DEF ParseNext, ReadTransaction, NoParser
    <2>3. o \in list.todo /\ o \in 1..End
      <3>1. list.todo \in SUBSET Nat
        BY <1>1
      <3>. QED BY <1>1, <2>1, <2>2, <3>1, Smallest
    <2>4. ListOK'
      BY <1>1, <1>2, <2>2, <2>3 DEF TypeOK, ListOK, ParserOK
    <2>5. Read'
      <3>1. Tree' = NodesOf(o) /\ Len(NodesOf(o)) \in Nat
        BY <1>1, <1>2, <2>2, <2>3, NodesType DEF TypeOK, Tree, NodesOf
      <3>2. TaleOf(<<>>, NodesOf(o), 1..0)
        BY TaleOfNothing DEF TaleOf, BornIn, GoneIn
      <3>3. ReadTo' = 0
        BY <2>2 DEF ReadTo
      <3>4. PICK s : s = NodesOf(o)
        OBVIOUS
      <3>5. TaleOf(<<>>, s, 1..0) /\ TaleOf(<<>>, s, 1..0)'
        BY <3>2, <3>4 DEF TaleOf, Tale, BornIn, GoneIn, PlainIn, Consumes
      <3>6. parser'.told = <<>> /\ Tree' = s
        BY <2>2, <3>1, <3>4
      <3>7. TaleOf(parser.told, Tree, 1..ReadTo)'
        BY <3>3, <3>5, <3>6
      <3>. QED BY <2>2, <3>1, <3>7 DEF Read
    <2>6. TaleOver(told, 1..after)' /\ Transactions(after, list.end)' = Transactions(after, list.end)
          /\ TaleOver(list.told, Transactions(after, list.end) \ list.todo)'
      BY <1>2, <2>2, TaleStays DEF Listing
    <2>. QED BY <1>1, <1>2, <1>3, <2>2, <2>3, <2>4, <2>5, <2>6 DEF Listing
  <1>7. ASSUME ParseStep
        PROVE  ListOK' /\ Read' /\ Listing'
    <2>1. ParserOK' /\ Read' /\ parser'.of = parser.of /\ UNCHANGED <<list, told, after>>
      BY <1>7, ReadSteps DEF ParseStep
    <2>2. ListOK'
      BY <1>2, <2>1 DEF TypeOK, ListOK
    <2>3. TaleOver(told, 1..after)' /\ Transactions(after, list.end)' = Transactions(after, list.end)
          /\ (list.at = "parse" => TaleOver(list.told, Transactions(after, list.end) \ list.todo)')
      BY <1>2, <2>1, TaleStays DEF Listing
    <2>. QED BY <1>2, <1>3, <2>1, <2>2, <2>3 DEF Listing
  <1>8. ASSUME ParseEnd
        PROVE  ListOK' /\ Read' /\ Listing'
    <2>1. PICK T : T = list.told \o parser.told
      OBVIOUS
    <2>2. /\ list' = [list EXCEPT !.todo = list.todo \ {parser.of}, !.told = T]
          /\ parser' = NoParser /\ UNCHANGED <<told, after>> /\ Parsed
      BY <1>8, <2>1 DEF ParseEnd
    <2>3. parser.of \in list.todo /\ list.at = "parse" /\ parser.of \in Transactions(after, list.end)
      BY <2>2 DEF Parsed, Listing
    <2>4. /\ list' = [at |-> "parse", end |-> list.end, todo |-> list.todo \ {parser.of},
                      next |-> list.next, told |-> T]
      BY <2>2, <2>3 DEF TypeOK, ListOK
    <2>5. PICK O : O = Transactions(after, list.end) \ list.todo
      OBVIOUS
    <2>6. O \in SUBSET (1..End) /\ {parser.of} \in SUBSET (1..End) /\ O \cap {parser.of} = {}
      BY <1>1, <2>3, <2>5 DEF Transactions
    <2>7. Joined(T, list.told, parser.told) /\ T \in Seq(Event)
      <3>1. [label |-> "create", creates |-> {}, archives |-> {}] \in Event
        BY DEF Event
      <3>. QED BY <1>1, <2>1, <3>1, JoinedIs
    <2>8. TaleOver(T, O \cup {parser.of})
      <3>1. TaleOver(list.told, O)
        BY <2>3, <2>5 DEF Listing
      <3>2. TaleOver(parser.told, {parser.of})
        BY <2>2, ParsedIsTold DEF TypeOK, ListOK
      <3>3. PICK O2 : O2 = {parser.of}
        OBVIOUS
      <3>. QED BY <1>1, <2>6, <2>7, <3>1, <3>2, <3>3, TaleOverJoined DEF TypeOK
    <2>9. (Transactions(after, list.end) \ list.todo)' = O \cup {parser.of}
      <3>1. Transactions(after, list.end)' = Transactions(after, list.end)
        BY <1>2, <2>2, <2>4, TaleStays
      <3>. QED BY <2>3, <2>4, <2>5, <3>1
    <2>10. TaleOver(list.told, Transactions(after, list.end) \ list.todo)'
      <3>1. PICK O2 : O2 = O \cup {parser.of}
        OBVIOUS
      <3>2. TaleOver(T, O2)'
        BY <1>2, <2>8, <3>1, TaleStays
      <3>. QED BY <2>4, <2>9, <3>1, <3>2
    <2>11. ListOK'
      BY <1>1, <1>2, <2>2, <2>4, <2>7 DEF TypeOK, ListOK, ParserOK, NoParser
    <2>12. Read'
      BY <1>2, <2>2, TaleStays
    <2>13. TaleOver(told, 1..after)' /\ Transactions(after, list.end)' = Transactions(after, list.end)
      BY <1>2, <2>2, <2>4, TaleStays DEF Listing
    <2>. QED BY <1>1, <1>2, <1>3, <2>2, <2>3, <2>4, <2>10, <2>11, <2>12, <2>13 DEF Listing, NoParser
  <1>9. ASSUME ReturnList
        PROVE  ListOK' /\ Read' /\ Listing'
    <2>1. PICK T, a, O : T = told \o list.told /\ a = (IF list.next = 0 THEN after ELSE list.next)
                         /\ O = Transactions(after, list.end)
      OBVIOUS
    <2>2. /\ list.at = "parse" /\ list.todo = {} /\ told' = T /\ after' = a
          /\ list' = NoList /\ parser' = parser /\ parser = NoParser
      BY <1>9, <2>1 DEF ReturnList
    <2>3. /\ O \in SUBSET (1..End) /\ (1..after) \in SUBSET (1..End) /\ (1..after) \cap O = {}
          /\ a \in 0..End /\ after <= a /\ a <= list.end
          /\ \A o \in O : o <= a
      BY <1>1, <2>1, <2>2 DEF Transactions, Listing
    <2>4. Joined(T, told, list.told) /\ T \in Seq(Event)
      <3>1. [label |-> "create", creates |-> {}, archives |-> {}] \in Event
        BY DEF Event
      <3>. QED BY <1>1, <2>1, <3>1, JoinedIs
    <2>5. TaleOver(T, (1..after) \cup O)
      <3>1. TaleOver(told, 1..after) /\ TaleOver(list.told, O)
        <4>1. O = Transactions(after, list.end) \ list.todo
          BY <2>1, <2>2
        <4>. QED BY <2>2, <4>1 DEF Listing
      <3>2. PICK O1 : O1 = 1..after
        OBVIOUS
      <3>. QED BY <1>1, <2>3, <2>4, <3>1, <3>2, TaleOverJoined DEF TypeOK
    <2>6. TaleOver(T, 1..a)
      <3>1. PICK O1, O2 : O1 = (1..after) \cup O /\ O2 = 1..a
        OBVIOUS
      <3>2. O1 \subseteq O2
        BY <1>1, <2>3, <3>1
      <3>3. \A o \in O2 \ O1 : ~HasTransaction(o)
        BY <1>1, <2>1, <2>3, <3>1 DEF Transactions
      <3>. QED BY <2>5, <3>1, <3>2, <3>3, TaleOverSame
    <2>7. TaleOver(told, 1..after)'
      <3>1. TaleOver(T, 1..a)'
        BY <1>2, <2>6, TaleStays
      <3>. QED BY <2>2, <3>1
    <2>8. ListOK'
      BY <1>1, <1>2, <2>2, <2>3, <2>4 DEF TypeOK, ListOK, ParserOK, NoList
    <2>9. Read'
      BY <1>2, <2>2, TaleStays
    <2>. QED BY <1>3, <2>2, <2>7, <2>8, <2>9 DEF Listing, NoList, NoParser
  <1>10. ASSUME FailList
         PROVE  ListOK' /\ Read' /\ Listing'
    <2>1. list' = NoList /\ parser' = NoParser /\ UNCHANGED <<told, after>>
      BY <1>10 DEF FailList
    <2>2. ListOK'
      BY <1>1, <1>2, <2>1 DEF TypeOK, ListOK, ParserOK, NoList, NoParser
    <2>3. Read' /\ TaleOver(told, 1..after)'
      BY <1>2, <2>1, TaleStays DEF Listing
    <2>. QED BY <1>3, <2>1, <2>2, <2>3 DEF Listing, NoList, NoParser
  <1>. QED BY <1>2, <1>4, <1>5, <1>6, <1>7, <1>8, <1>9, <1>10 DEF ListNext

\* Commands that took effect have a transaction, and a call that was confirmed did.
Confirmed ==
    /\ confirmed # 0 => HasTransaction(confirmed)
    /\ \A o \in 1..End : IsCompletion(o) /\ history[o].ok => HasTransaction(o)

LEMMA ConfirmedWaits ==
    ASSUME TypeOK, Tracking, AllPolled, Confirmed, WaitsNext, UNCHANGED ledger
    PROVE  Confirmed'
  <1>1. \A o \in 1..End : IsCompletion(o) /\ history[o].ok => HasTransaction(o)
    BY DEF Confirmed
  <1>2. (\A o \in 1..End : IsCompletion(o) /\ history[o].ok => HasTransaction(o))'
    BY <1>1 DEF ledger, End, IsCompletion, HasTransaction
  <1>3. (confirmed # 0 => HasTransaction(confirmed))'
    <2>1. UNCHANGED history
      BY DEF ledger
    <2>2. CASE Return
      <3>1. PICK k : k = Len(polls)
        OBVIOUS
      <3>2. k \in DOMAIN polls
        BY <2>2, <3>1 DEF Return, Tracking, TypeOK, WaitsOK
      <3>3. confirmed' = (IF polls[k].at = "found" THEN polls[k].offset ELSE confirmed)
        BY <2>2, <3>1 DEF Return
      <3>4. polls[k].at = "found" => HasTransaction(polls[k].offset)
        BY <1>1, <3>2 DEF AllPolled, Polled
      <3>. QED BY <2>1, <3>3, <3>4 DEF Confirmed, HasTransaction
    <2>3. CASE UNCHANGED confirmed
      BY <2>1, <2>3 DEF Confirmed, HasTransaction
    <2>4. Return \/ UNCHANGED confirmed
      BY DEF WaitsNext, CheckParty, GiveUpParty, GrantRights, StartCall, Execute, ExecuteFails,
         PollCompletions, PollBreaks, TimeOut
    <2>. QED BY <2>2, <2>3, <2>4
  <1>. QED BY <1>2, <1>3 DEF Confirmed

LEMMA ConfirmedParticipant ==
    ASSUME TypeOK, Confirmed, UNCHANGED waits, ParticipantNext
    PROVE  Confirmed'
  <1>1. Grown /\ confirmed \in 0..End /\ End \in Nat /\ confirmed' = confirmed
    BY TypeParticipant, EndType DEF TypeOK, WaitsOK, waits
  <1>2. (confirmed # 0 => HasTransaction(confirmed))'
    BY <1>1 DEF Confirmed, HasTransaction, Grown
  <1>3. ASSUME NEW o \in 1..End', o \notin 1..End
        PROVE  IsCompletion(o)' /\ history'[o].ok => HasTransaction(o)'
    <2>1. \/ UNCHANGED history
          \/ \E u : /\ Record(u)
                    /\ u.completes # None /\ u.ok => u.nodes # <<>>
      <3>1. ASSUME NEW s, Commit(s)
            PROVE  \E u : Record(u) /\ u.nodes # <<>>
        BY <3>1 DEF Commit
      <3>2. ASSUME NEW s, Reject(s)
            PROVE  \E u : Record(u) /\ ~u.ok
        BY <3>2 DEF Reject
      <3>3. ASSUME Elsewhere
            PROVE  \E u : Record(u) /\ u.completes = None
        BY <3>3 DEF Elsewhere
      <3>4. \A n : Perform(n) => UNCHANGED history
        BY DEF Perform
      <3>5. HostParty => UNCHANGED history
        BY DEF HostParty
      <3>. QED BY <3>1, <3>2, <3>3, <3>4, <3>5 DEF ParticipantNext
    <2>2. ~UNCHANGED history
      BY <1>3 DEF End
    <2>3. PICK u : Record(u) /\ (u.completes # None /\ u.ok => u.nodes # <<>>)
      BY <2>1, <2>2
    <2>4. End' = End + 1 /\ history'[End'] = u
      BY <2>3 DEF Record, End, TypeOK, ParticipantOK
    <2>5. o = End'
      BY <1>1, <1>3, <2>4
    <2>. QED BY <2>3, <2>4, <2>5 DEF IsCompletion, HasTransaction
  <1>4. ASSUME NEW o \in 1..End
        PROVE  IsCompletion(o)' /\ history'[o].ok => HasTransaction(o)'
    BY <1>1 DEF Confirmed, Grown, IsCompletion, HasTransaction
  <1>. QED BY <1>2, <1>3, <1>4 DEF Confirmed

\* A call starts when nothing is listed.
LEMMA ListWaits ==
    ASSUME TypeOK, Read, Listing, CallStep, UNCHANGED ledger
    PROVE  Read' /\ Listing'
  <1>1. UNCHANGED <<parser, list, told, after>> /\ UNCHANGED history
    BY DEF CallStep, listing, ledger
  <1>2. list.at # "idle" => call'.at = "idle" /\ confirmed' = confirmed
    <2>1. list.at # "idle" => call.at = "idle"
      BY DEF Listing
    <2>2. call.at = "idle" => confirmed' = confirmed
      BY DEF CallStep, WaitsNext, CheckParty, GiveUpParty, GrantRights, StartCall, Execute,
         ExecuteFails, PollCompletions, PollBreaks, Return, TimeOut
    <2>. QED BY <2>1, <2>2 DEF CallStep, Reads
  <1>3. Read'
    BY <1>1, TaleStays
  <1>4. /\ TaleOver(told, 1..after)' /\ Transactions(after, list.end)' = Transactions(after, list.end)
        /\ list.at = "parse" => TaleOver(list.told, Transactions(after, list.end) \ list.todo)'
    BY <1>1, TaleStays DEF Listing
  <1>. QED BY <1>1, <1>2, <1>3, <1>4 DEF Listing

(***************************************************************************)
(* Subscriptions                                                           *)
(***************************************************************************)

\* h is what there is between b and s to tell.
Hears(h, b, s) ==
    /\ \A k \in DOMAIN h : b < h[k] /\ h[k] <= s
    /\ \A k, m \in DOMAIN h : k < m => h[k] < h[m]
    /\ \A o \in Seen(b, s) : \E k \in DOMAIN h : h[k] = o

Heard == stream.told \o stream.queue

\* What a subscription has told and has in its queue is all there was to tell so far.
Hearing ==
    /\ Hears(Heard, stream.begin, stream.sent)
    /\ stream.at \in {"unused", "starting"} =>
          stream.queue = <<>> /\ stream.told = <<>> /\ ~stream.isClosed /\ stream.socket = "none"
    /\ stream.socket \in {"connecting", "open"} => ~stream.isClosed
    /\ stream.at = "waiting" => stream.queue = <<>> /\ ~stream.isClosed
    /\ stream.at = "ended" => stream.queue = <<>> /\ stream.isClosed

LEMMA HearsGrown ==
    ASSUME ParticipantOK, Grown, NEW h, NEW b \in Nat, NEW s \in 0..End
    PROVE  Hears(h, b, s)' <=> Hears(h, b, s)
  <1>1. Seen(b, s)' = Seen(b, s)
    <2>1. \A o \in (b + 1)..s : CreatedAt(o)' = CreatedAt(o) /\ ArchivedAt(o)' = ArchivedAt(o)
      BY EndType, SeesSame
    <2>. QED BY <2>1 DEF Seen
  <1>. QED BY <1>1 DEF Hears

LEMMA HearsMore ==
    ASSUME NEW h \in Seq(Nat), NEW b \in Nat, NEW s \in Nat, NEW o \in Nat, b <= s, s < o,
           Hears(h, b, s), Seen(s, o - 1) = {}
    PROVE  Hears(Append(h, o), b, o)
  <1>1. /\ Len(h) \in Nat /\ DOMAIN h = 1..Len(h) /\ \A k \in 1..Len(h) : h[k] \in Nat
        /\ DOMAIN Append(h, o) = 1..(Len(h) + 1)
        /\ \A k \in 1..Len(h) : Append(h, o)[k] = h[k]
        /\ Append(h, o)[Len(h) + 1] = o
    OBVIOUS
  <1>2. \A x \in Seen(b, o) : x = o \/ x \in Seen(b, s)
    <2>1. ASSUME NEW x \in (b + 1)..o, CreatedAt(x) \cup ArchivedAt(x) # {}
          PROVE  x = o \/ x \in (b + 1)..s
      <3>1. CASE x \in (s + 1)..(o - 1)
        BY <2>1, <3>1 DEF Seen
      <3>. QED BY <3>1
    <2>. QED BY <2>1 DEF Seen
  <1>3. PICK g : g = Append(h, o)
    OBVIOUS
  <1>4. \A k \in DOMAIN g : b < g[k] /\ g[k] <= o
    BY <1>1, <1>3 DEF Hears
  <1>5. \A k, m \in DOMAIN g : k < m => g[k] < g[m]
    BY <1>1, <1>3 DEF Hears
  <1>6. \A x \in Seen(b, o) : \E k \in DOMAIN g : g[k] = x
    <2>1. \A x \in Seen(b, s) : \E k \in DOMAIN h : h[k] = x
      BY DEF Hears
    <2>2. Len(h) + 1 \in DOMAIN g /\ g[Len(h) + 1] = o
      BY <1>1, <1>3
    <2>3. \A k \in DOMAIN h : k \in DOMAIN g /\ g[k] = h[k]
      BY <1>1, <1>3
    <2>. QED BY <1>2, <2>1, <2>2, <2>3
  <1>. QED BY <1>3, <1>4, <1>5, <1>6 DEF Hears

\* The head of the queue is told.
LEMMA HeardSame ==
    ASSUME NEW t \in Seq(Nat), NEW q \in Seq(Nat), q # <<>>
    PROVE  /\ Append(t, Head(q)) \in Seq(Nat) /\ Tail(q) \in Seq(Nat)
           /\ Append(t, Head(q)) \o Tail(q) = t \o q
  <1>1. Head(q) \in Nat /\ Tail(q) \in Seq(Nat) /\ Append(t, Head(q)) \in Seq(Nat)
    OBVIOUS
  <1>2. PICK l, r : l = Append(t, Head(q)) \o Tail(q) /\ r = t \o q
    OBVIOUS
  <1>3. l \in Seq(Nat) /\ r \in Seq(Nat) /\ Len(l) = Len(r)
    BY <1>1, <1>2
  <1>4. \A k \in 1..Len(l) : l[k] = r[k]
    BY <1>1, <1>2, <1>3
  <1>. QED BY <1>1, <1>2, <1>3, <1>4

LEMMA StreamGrown ==
    ASSUME TypeOK, Grown, UNCHANGED stream
    PROVE  Hearing => Hearing'
  <1>1. PICK h, b, s : h = Heard /\ b = stream.begin /\ s = stream.sent
    OBVIOUS
  <1>2. b \in Nat /\ s \in 0..End
    BY <1>1, EndType DEF TypeOK, StreamOK
  <1>3. Hears(h, b, s)' <=> Hears(h, b, s)
    BY <1>2, HearsGrown DEF TypeOK
  <1>4. h = Heard' /\ b = stream'.begin /\ s = stream'.sent
    BY <1>1 DEF Heard
  <1>5. Hears(Heard, stream.begin, stream.sent)' <=> Hears(Heard, stream.begin, stream.sent)
    BY <1>1, <1>3, <1>4
  <1>. QED BY <1>5 DEF Hearing

\* Nothing is told, queued or recorded.
LEMMA HeardStays ==
    ASSUME TypeOK, Hearing, UNCHANGED history, Heard' = Heard,
           stream'.begin = stream.begin, stream'.sent = stream.sent
    PROVE  Hears(Heard, stream.begin, stream.sent)'
  <1>1. PICK h, b, s : h = Heard /\ b = stream.begin /\ s = stream.sent
    OBVIOUS
  <1>2. Hears(h, b, s)'
    <2>1. b \in Nat /\ s \in 0..End /\ Grown
      BY <1>1, EndType DEF TypeOK, StreamOK, Grown, ParticipantOK, End
    <2>. QED BY <1>1, <2>1, HearsGrown DEF Hearing, TypeOK
  <1>. QED BY <1>1, <1>2

\* To its next await, yield or end.
LEMMA GoesOn ==
    ASSUME TypeOK, Hearing, UNCHANGED history, stream' = GoOn(stream)
    PROVE  StreamOK' /\ Hearing'
  <1>1. /\ stream.queue \in Seq(Nat) /\ stream.told \in Seq(Nat) /\ End' = End
        /\ Grown
    BY EndType DEF TypeOK, StreamOK, End, Grown, ParticipantOK
  <1>2. CASE stream.queue # <<>>
    <2>1. PICK t, q : t = Append(stream.told, Head(stream.queue)) /\ q = Tail(stream.queue)
      OBVIOUS
    <2>2. stream' = [stream EXCEPT !.at = "held", !.queue = q, !.told = t]
      BY <1>2, <2>1 DEF GoOn
    <2>3. t \in Seq(Nat) /\ q \in Seq(Nat) /\ t \o q = Heard
      BY <1>1, <1>2, <2>1, HeardSame DEF Heard
    <2>4. stream'.at = "held" /\ stream'.queue = q /\ stream'.told = t /\ stream'.begin = stream.begin
          /\ stream'.sent = stream.sent /\ stream'.socket = stream.socket
          /\ stream'.isClosed = stream.isClosed
      BY <2>2 DEF TypeOK, StreamOK
    <2>5. StreamOK'
      BY <1>1, <2>2, <2>3 DEF TypeOK, StreamOK
    <2>6. Hears(Heard, stream.begin, stream.sent)'
      BY <2>3, <2>4, HeardStays DEF Heard
    <2>. QED BY <2>4, <2>5, <2>6 DEF Hearing
  <1>3. CASE stream.queue = <<>>
    <2>1. PICK at : at = IF stream.isClosed THEN "ended" ELSE "waiting"
      OBVIOUS
    <2>2. stream' = [stream EXCEPT !.at = at]
      BY <1>3, <2>1 DEF GoOn
    <2>3. stream'.at = at /\ stream'.queue = <<>> /\ stream'.told = stream.told
          /\ stream'.begin = stream.begin /\ stream'.sent = stream.sent
          /\ stream'.socket = stream.socket /\ stream'.isClosed = stream.isClosed
          /\ stream.isClosed \in BOOLEAN
      BY <1>3, <2>2 DEF TypeOK, StreamOK
    <2>4. StreamOK'
      BY <1>1, <2>1, <2>2 DEF TypeOK, StreamOK
    <2>5. Hears(Heard, stream.begin, stream.sent)'
      BY <1>3, <2>3, HeardStays DEF Heard
    <2>. QED BY <2>1, <2>3, <2>4, <2>5 DEF Hearing
  <1>. QED BY <1>2, <1>3

LEMMA AppendSame ==
    ASSUME NEW t \in Seq(Nat), NEW q \in Seq(Nat), NEW o \in Nat
    PROVE  /\ Append(q, o) \in Seq(Nat) /\ t \o q \in Seq(Nat)
           /\ t \o Append(q, o) = Append(t \o q, o)
  <1>1. Append(q, o) \in Seq(Nat) /\ t \o q \in Seq(Nat)
    OBVIOUS
  <1>2. PICK l, r : l = t \o Append(q, o) /\ r = Append(t \o q, o)
    OBVIOUS
  <1>3. l \in Seq(Nat) /\ r \in Seq(Nat) /\ Len(l) = Len(r)
    BY <1>1, <1>2
  <1>4. \A k \in 1..Len(l) : l[k] = r[k]
    BY <1>1, <1>2, <1>3
  <1>. QED BY <1>1, <1>2, <1>3, <1>4

LEMMA StreamSteps ==
    ASSUME TypeOK, Hearing, StreamNext
    PROVE  ParticipantOK' /\ StreamOK' /\ Hearing' /\ UNCHANGED <<ledger, inFlight>>
  <1>1. UNCHANGED <<ledger, inFlight>> /\ ParticipantOK' /\ UNCHANGED history /\ End' = End /\ End \in Nat
    <2>1. UNCHANGED <<ledger, inFlight>> /\ budget' \in Allowance
      <3>1. budget \in Allowance
        BY DEF TypeOK, ParticipantOK
      <3>2. \A asked, holdings : Subscribe(asked, holdings) =>
               UNCHANGED <<ledger, inFlight>> /\ budget' \in Allowance
        BY <3>1, SpendType DEF Subscribe, Spent
      <3>3. TokenFails \/ SocketCloses \/ SocketFails => UNCHANGED <<ledger, inFlight>> /\ budget' \in Allowance
        BY <3>1, SpendType DEF TokenFails, SocketCloses, SocketFails, Spent
      <3>4. TokenArrives \/ SocketOpens \/ Resumes \/ Continues \/ Leave => UNCHANGED <<ledger, inFlight, budget>>
        BY DEF TokenArrives, SocketOpens, Resumes, Continues, Leave, participant
      <3>5. \A o : MessageArrives(o) => UNCHANGED <<ledger, inFlight, budget>>
        BY DEF MessageArrives, participant
      <3>. QED BY <3>1, <3>2, <3>3, <3>4, <3>5 DEF StreamNext
    <2>. QED BY <2>1, EndType DEF TypeOK, ParticipantOK, ledger, End
  <1>2. /\ stream.queue \in Seq(Nat) /\ stream.told \in Seq(Nat)
        /\ stream.begin \in 0..End /\ stream.sent \in 0..End /\ stream.begin <= stream.sent
    BY DEF TypeOK, StreamOK
  <1>3. ASSUME NEW asked \in (0..End) \cup {None}, NEW holdings \in BOOLEAN, Subscribe(asked, holdings)
        PROVE  StreamOK' /\ Hearing'
    <2>1. /\ \E b \in 0..End : b = Begins(asked, holdings)
          /\ \E p \in 0..End : p = Promised(asked, holdings)
      BY <1>1 DEF Begins, Promised
    <2>5. PICK b \in 0..End, p \in 0..End : b = Begins(asked, holdings) /\ p = Promised(asked, holdings)
      BY <2>1
    <2>2. stream' = [at |-> "starting", socket |-> "none", begin |-> b, sent |-> b,
                     holdings |-> holdings, promised |-> p,
                     queue |-> <<>>, told |-> <<>>, isClosed |-> FALSE, streamError |-> FALSE]
      BY <1>3, <2>5 DEF Subscribe, NoStream
    <2>3. StreamOK'
      BY <1>1, <2>2 DEF StreamOK
    <2>4. Hears(Heard, stream.begin, stream.sent)'
      <3>1. Hears(<<>>, b, b)'
        BY <1>1 DEF Hears, Seen
      <3>2. Heard' = <<>>
        BY <2>2 DEF Heard
      <3>. QED BY <2>2, <3>1, <3>2
    <2>. QED BY <2>2, <2>3, <2>4 DEF Hearing
  <1>4. ASSUME TokenArrives \/ TokenFails \/ SocketOpens \/ SocketCloses \/ SocketFails \/ Leave
        PROVE  StreamOK' /\ Hearing'
    <2>1. /\ stream'.queue = stream.queue /\ stream'.told = stream.told
          /\ stream'.begin = stream.begin /\ stream'.sent = stream.sent
      BY <1>4 DEF TokenArrives, TokenFails, SocketOpens, SocketCloses, SocketFails, Leave, TypeOK, StreamOK
    <2>2. StreamOK'
      BY <1>1, <1>4 DEF TokenArrives, TokenFails, SocketOpens, SocketCloses, SocketFails, Leave, Wake,
         TypeOK, StreamOK
    <2>3. Hears(Heard, stream.begin, stream.sent)'
      BY <1>1, <2>1, HeardStays DEF Heard
    <2>4. /\ stream'.at \notin {"unused", "starting"}
          /\ stream'.socket \in {"connecting", "open"} => ~stream'.isClosed
          /\ stream'.at = "waiting" => stream'.queue = <<>> /\ ~stream'.isClosed
          /\ stream'.at = "ended" => stream'.queue = <<>> /\ stream'.isClosed
      <3>1. CASE TokenArrives \/ TokenFails
        BY <3>1 DEF TokenArrives, TokenFails, TypeOK, StreamOK, Hearing
      <3>2. CASE SocketOpens \/ SocketCloses \/ SocketFails
        BY <3>2 DEF SocketOpens, SocketCloses, SocketFails, Wake, TypeOK, StreamOK, Hearing
      <3>3. CASE Leave
        BY <3>3 DEF Leave, TypeOK, StreamOK, Hearing
      <3>. QED BY <1>4, <3>1, <3>2, <3>3
    <2>. QED BY <2>2, <2>3, <2>4 DEF Hearing
  <1>5. ASSUME NEW o \in 1..End, MessageArrives(o)
        PROVE  StreamOK' /\ Hearing'
    <2>1. PICK q, h : q = Append(stream.queue, o) /\ h = Append(Heard, o)
      OBVIOUS
    <2>2. /\ stream' = [stream EXCEPT !.sent = o, !.queue = q, !.at = Wake(stream.at)]
          /\ stream.socket = "open" /\ stream.sent < o /\ Seen(stream.sent, o - 1) = {}
      BY <1>5, <2>1 DEF MessageArrives, Sends
    <2>3. q \in Seq(Nat) /\ Heard \in Seq(Nat) /\ stream.told \o q = h
      <3>1. PICK t, p : t = stream.told /\ p = stream.queue
        OBVIOUS
      <3>2. t \in Seq(Nat) /\ p \in Seq(Nat) /\ o \in Nat
        BY <1>1, <1>2, <3>1
      <3>3. Append(p, o) \in Seq(Nat) /\ t \o p \in Seq(Nat) /\ t \o Append(p, o) = Append(t \o p, o)
        BY <3>2, AppendSame
      <3>. QED BY <2>1, <3>1, <3>3 DEF Heard
    <2>4. StreamOK'
      <3>1. PICK at : at = Wake(stream.at)
        OBVIOUS
      <3>2. at \in {"unused", "starting", "woken", "held", "ended", "left", "threw"}
        BY <3>1 DEF TypeOK, StreamOK, Wake
      <3>3. stream' = [stream EXCEPT !.sent = o, !.queue = q, !.at = at]
        BY <2>2, <3>1
      <3>4. o \in 0..End /\ stream.begin <= o
        BY <1>1, <1>2, <2>2
      <3>. QED BY <1>1, <2>3, <3>2, <3>3, <3>4 DEF TypeOK, StreamOK
    <2>5. Hears(Heard, stream.begin, stream.sent)'
      <3>1. PICK b, s : b = stream.begin /\ s = stream.sent
        OBVIOUS
      <3>2. Hears(h, b, o)
        BY <1>1, <1>2, <2>1, <2>2, <2>3, <3>1, HearsMore DEF Hearing
      <3>3. Hears(h, b, o)'
        <4>1. Grown
          BY <1>1 DEF Grown, TypeOK, ParticipantOK
        <4>. QED BY <1>1, <1>2, <3>1, <3>2, <4>1, HearsGrown DEF TypeOK
      <3>4. Heard' = h /\ stream'.begin = b /\ stream'.sent = o
        BY <2>2, <2>3, <3>1 DEF Heard, TypeOK, StreamOK
      <3>. QED BY <3>3, <3>4
    <2>6. /\ stream'.at = Wake(stream.at) /\ stream'.socket = "open" /\ stream'.isClosed = stream.isClosed
      BY <2>2 DEF TypeOK, StreamOK
    <2>. QED BY <2>2, <2>4, <2>5, <2>6 DEF Hearing, Wake
  <1>6. ASSUME Resumes \/ Continues
        PROVE  StreamOK' /\ Hearing'
    <2>1. CASE stream' = GoOn(stream)
      BY <1>1, <2>1, GoesOn
    <2>2. CASE stream' = [stream EXCEPT !.at = "threw"]
      <3>1. /\ stream'.queue = stream.queue /\ stream'.told = stream.told /\ stream'.at = "threw"
            /\ stream'.begin = stream.begin /\ stream'.sent = stream.sent
            /\ stream'.socket = stream.socket /\ stream'.isClosed = stream.isClosed
        BY <2>2 DEF TypeOK, StreamOK
      <3>2. Hears(Heard, stream.begin, stream.sent)'
        BY <1>1, <3>1, HeardStays DEF Heard
      <3>3. StreamOK'
        BY <1>1, <2>2 DEF TypeOK, StreamOK
      <3>. QED BY <3>1, <3>2, <3>3 DEF Hearing
    <2>. QED BY <1>6, <2>1, <2>2 DEF Resumes, Continues
  <1>. QED BY <1>1, <1>3, <1>4, <1>5, <1>6 DEF StreamNext

LEMMA HearingTells ==
    ASSUME TypeOK, Hearing
    PROVE  StreamTellsAll
  <1>. DEFINE rest == IF stream.at = "threw" THEN <<>> ELSE stream.queue
              heard == stream.told \o rest
              offsets == {heard[k] : k \in DOMAIN heard}
  <1>1. /\ stream.queue \in Seq(Nat) /\ stream.told \in Seq(Nat) /\ rest \in Seq(Nat)
        /\ stream.begin \in Nat /\ stream.sent \in Nat
    BY EndType DEF TypeOK, StreamOK
  <1>2. PICK h, g : h = heard /\ g = Heard
    OBVIOUS
  <1>3. \A k \in DOMAIN h : k \in DOMAIN g /\ h[k] = g[k]
    <2>1. CASE stream.at = "threw"
      <3>1. h = stream.told
        BY <1>1, <1>2, <2>1
      <3>2. PICK p : p = stream.queue /\ g = h \o p
        BY <1>2, <3>1 DEF Heard
      <3>3. h \in Seq(Nat) /\ p \in Seq(Nat)
        BY <1>1, <3>1, <3>2
      <3>. HIDE DEF rest
      <3>4. ASSUME NEW k \in DOMAIN h
            PROVE  k \in DOMAIN g /\ h[k] = g[k]
        BY <3>2, <3>3
      <3>. QED BY <3>4
    <2>2. CASE stream.at # "threw"
      <3>1. h = g
        BY <1>2, <2>2 DEF Heard
      <3>. QED BY <3>1
    <2>. QED BY <2>1, <2>2
  <1>4. g \in Seq(Nat) /\ h \in Seq(Nat)
    BY <1>1, <1>2 DEF Heard
  <1>5. \A k \in DOMAIN h, m \in DOMAIN g : m <= k => m \in DOMAIN h
    <2>. HIDE DEF rest
    <2>. QED BY <1>4
  <1>6. \A k, m \in DOMAIN h : k < m => h[k] < h[m]
    BY <1>2, <1>3 DEF Hearing, Hears
  <1>7. ASSUME NEW k \in DOMAIN h
        PROVE  h[k] > stream.begin /\ Seen(stream.begin, h[k]) \subseteq {h[m] : m \in DOMAIN h}
    <2>1. stream.begin < h[k] /\ h[k] <= stream.sent
      BY <1>2, <1>3, <1>7 DEF Hearing, Hears
    <2>2. ASSUME NEW o \in Seen(stream.begin, h[k])
          PROVE  \E m \in DOMAIN h : h[m] = o
      <3>1. o \in Seen(stream.begin, stream.sent) /\ o <= h[k] /\ o \in Int
        BY <1>1, <1>4, <2>1, <2>2 DEF Seen
      <3>2. PICK m \in DOMAIN g : g[m] = o
        BY <1>2, <3>1 DEF Hearing, Hears
      <3>3. ~(k < m)
        <4>1. k < m => g[k] < g[m]
          BY <1>2, <1>3, <3>2 DEF Hearing, Hears
        <4>2. g[k] = h[k] /\ h[k] \in Nat
          BY <1>3, <1>4, <1>7
        <4>. QED BY <3>1, <3>2, <4>1, <4>2
      <3>4. m <= k
        BY <1>4, <1>7, <3>2, <3>3
      <3>. QED BY <1>3, <1>5, <1>7, <3>2, <3>4
    <2>. QED BY <2>1, <2>2
  <1>8. \A o \in offsets : o > stream.begin /\ Seen(stream.begin, o) \subseteq offsets
    <2>1. offsets = {h[m] : m \in DOMAIN h}
      BY <1>2
    <2>2. \A o \in {h[m] : m \in DOMAIN h} : o > stream.begin /\ Seen(stream.begin, o) \subseteq {h[m] : m \in DOMAIN h}
      BY <1>7
    <2>. HIDE DEF offsets
    <2>. QED BY <2>1, <2>2
  <1>. QED BY <1>2, <1>6, <1>8 DEF StreamTellsAll, Hearing

(***************************************************************************)
(* The inductive invariant                                                 *)
(***************************************************************************)

IInv ==
    /\ TypeOK /\ PartyAwaited /\ Tracking /\ AllPolled
    /\ Lives /\ OneLife /\ Paged /\ Read /\ Listing /\ Confirmed /\ Hearing

LEMMA Initially == Init => IInv
  <1>. SUFFICES ASSUME Init PROVE IInv
    OBVIOUS
  <1>1. /\ history = <<>> /\ draft = <<>> /\ inFlight = {} /\ hosted \in BOOLEAN
        /\ budget \in Allowance /\ End = 0
    BY ParticipantAssumption DEF Init, ParticipantInit, End
  <1>2. /\ before \subseteq Contract /\ life \in [Contract -> {"unborn", "active", "archived"}]
        /\ \A c \in before : life[c] # "unborn"
    <2>1. PICK S \in SUBSET budget.contracts :
             before = S /\ life = [c \in Contract |-> IF c \in S THEN "active" ELSE "unborn"]
      BY DEF Init, ParticipantInit
    <2>2. S \subseteq Contract
      BY <1>1, <2>1 DEF Allowance
    <2>. QED BY <2>1, <2>2
  <1>3. ParticipantOK
    BY <1>1, <1>2 DEF ParticipantOK
  <1>4. WaitsOK /\ PartyAwaited
    BY <1>1, WaitAssumption DEF Init, WaitsInit, WaitsOK, PartyAwaited, NoCall
  <1>5. ListOK
    BY <1>1 DEF Init, ListInit, ListOK, ParserOK, NoParser, NoList
  <1>6. ScanOK
    BY <1>1 DEF Init, ScanInit, ScanOK, NoScan
  <1>7. StreamOK
    BY <1>1 DEF Init, StreamInit, StreamOK, NoStream
  <1>8. Tracking /\ AllPolled /\ Confirmed
    BY <1>1 DEF Init, WaitsInit, NoCall, Tracking, AllPolled, Confirmed
  <1>9. Lives /\ OneLife
    BY <1>1, <1>2 DEF Lives, OneLife, NodesOf
  <1>10. Paged /\ Read
    BY DEF Init, ScanInit, NoScan, Paged, ListInit, NoParser, Read
  <1>11. Listing
    <2>1. TaleOver(told, 1..after)
      <3>1. TaleOver(<<>>, {})
        BY TaleOfNothing DEF TaleOver
      <3>2. told = <<>> /\ 1..after = {}
        BY DEF Init, ListInit
      <3>. QED BY <3>1, <3>2
    <2>. QED BY <2>1 DEF Init, ListInit, NoParser, NoList, Listing
  <1>12. Hearing
    <2>1. Hears(<<>>, 0, 0)
      BY DEF Hears, Seen
    <2>2. Heard = <<>> /\ stream.begin = 0 /\ stream.sent = 0
      BY DEF Heard, Init, StreamInit, NoStream
    <2>. QED BY <2>1, <2>2 DEF Init, StreamInit, NoStream, Hearing
  <1>. QED BY <1>3, <1>4, <1>5, <1>6, <1>7, <1>8, <1>9, <1>10, <1>11, <1>12 DEF IInv, TypeOK

\* What happens without the participant leaves most of it alone.
LEMMA LedgerStays ==
    ASSUME IInv, ParticipantOK', UNCHANGED ledger
    PROVE  /\ Grown /\ End' = End /\ Lives' /\ OneLife'
           /\ UNCHANGED <<parser, list, told, after>> => ListOK'
           /\ UNCHANGED scan => ScanOK' /\ Paged'
           /\ UNCHANGED stream => StreamOK' /\ Hearing'
           /\ UNCHANGED waits => WaitsOK' /\ Confirmed'
           /\ UNCHANGED waits /\ UNCHANGED inFlight => Tracking' /\ AllPolled'
           /\ UNCHANGED waits /\ UNCHANGED listing => Read' /\ Listing'
  <1>1. Grown /\ End' = End /\ UNCHANGED history
    BY EndType DEF IInv, TypeOK, ParticipantOK, Grown, ledger, End
  <1>2. Lives' /\ OneLife'
    BY LivesStay DEF IInv, ledger
  <1>3. UNCHANGED <<parser, list, told, after>> => ListOK'
    BY <1>1 DEF IInv, TypeOK, ListOK, ParserOK
  <1>4. UNCHANGED scan => ScanOK' /\ Paged'
    BY <1>1, ScanStays DEF IInv, TypeOK, ScanOK
  <1>5. UNCHANGED stream => StreamOK' /\ Hearing'
    BY <1>1, StreamGrown DEF IInv, TypeOK, StreamOK
  <1>6. UNCHANGED waits => WaitsOK' /\ Confirmed'
    BY <1>1 DEF IInv, TypeOK, WaitsOK, waits, Confirmed, HasTransaction, IsCompletion
  <1>7. UNCHANGED waits /\ UNCHANGED inFlight => Tracking' /\ AllPolled'
    BY <1>1, TrackStays DEF IInv, waits
  <1>8. UNCHANGED waits /\ UNCHANGED listing => Read' /\ Listing'
    BY <1>1, ListGrown DEF IInv
  <1>. QED BY <1>1, <1>2, <1>3, <1>4, <1>5, <1>6, <1>7, <1>8

LEMMA Preserved == IInv /\ [Next]_vars => IInv'
  <1>. SUFFICES ASSUME IInv, [Next]_vars PROVE IInv'
    OBVIOUS
  <1>. USE DEF IInv
  <1>1. CASE CallStep
    <2>1. WaitsNext /\ UNCHANGED <<listing, scan, stream>> /\ UNCHANGED <<parser, list, told, after>>
      BY <1>1 DEF CallStep, listing
    <2>2. ParticipantOK' /\ WaitsOK' /\ UNCHANGED ledger
      BY <2>1, TypeWaits
    <2>3. Tracking' /\ AllPolled' /\ Confirmed'
      BY <2>1, <2>2, TrackWaits, ConfirmedWaits
    <2>4. Read' /\ Listing'
      BY <1>1, <2>2, ListWaits
    <2>5. PartyAwaited'
      BY <1>1, PartyNext DEF Next
    <2>. QED BY <2>1, <2>2, <2>3, <2>4, <2>5, LedgerStays DEF TypeOK
  <1>2. CASE ListStep
    <2>1. ListNext /\ call.at = "idle" /\ UNCHANGED waits /\ UNCHANGED scan /\ UNCHANGED stream
      BY <1>2 DEF ListStep
    <2>2. ParticipantOK' /\ ListOK' /\ Read' /\ Listing' /\ UNCHANGED ledger /\ UNCHANGED inFlight
      BY <2>1, ListSteps
    <2>3. PartyAwaited'
      BY <1>2, PartyNext DEF Next
    <2>. QED BY <2>1, <2>2, <2>3, LedgerStays DEF TypeOK
  <1>3. CASE ScanStep
    <2>1. ScanNext /\ UNCHANGED waits /\ UNCHANGED listing /\ UNCHANGED stream
          /\ UNCHANGED <<parser, list, told, after>>
      BY <1>3 DEF ScanStep, listing
    <2>2. ParticipantOK' /\ ScanOK' /\ Paged' /\ UNCHANGED ledger /\ UNCHANGED inFlight
      BY <2>1, ScanSteps
    <2>3. PartyAwaited'
      BY <1>3, PartyNext DEF Next
    <2>. QED BY <2>1, <2>2, <2>3, LedgerStays DEF TypeOK
  <1>4. CASE StreamStep
    <2>1. StreamNext /\ UNCHANGED waits /\ UNCHANGED listing /\ UNCHANGED scan
          /\ UNCHANGED <<parser, list, told, after>>
      BY <1>4 DEF StreamStep, listing
    <2>2. ParticipantOK' /\ StreamOK' /\ Hearing' /\ UNCHANGED ledger /\ UNCHANGED inFlight
      BY <2>1, StreamSteps
    <2>3. PartyAwaited'
      BY <1>4, PartyNext DEF Next
    <2>. QED BY <2>1, <2>2, <2>3, LedgerStays DEF TypeOK
  <1>5. CASE ParticipantStep
    <2>1. ParticipantNext /\ UNCHANGED <<waits, listing, scan, stream>> /\ UNCHANGED waits
          /\ UNCHANGED scan /\ UNCHANGED stream
      BY <1>5 DEF ParticipantStep
    <2>2. ParticipantOK' /\ Grown
      BY <2>1, TypeParticipant DEF TypeOK
    <2>3. WaitsOK' /\ ListOK' /\ ScanOK' /\ StreamOK'
      BY <2>1, <2>2, TypeGrown
    <2>4. Lives' /\ OneLife'
      BY <2>1, LivesParticipant DEF TypeOK
    <2>5. Tracking' /\ AllPolled' /\ Confirmed'
      BY <2>1, TrackParticipant, ConfirmedParticipant
    <2>6. Paged' /\ Hearing'
      BY <2>1, <2>2, ScanStays, StreamGrown
    <2>7. Read' /\ Listing'
      BY <2>1, <2>2, ListGrown
    <2>8. PartyAwaited'
      BY <1>5, PartyNext DEF Next
    <2>. QED BY <2>2, <2>3, <2>4, <2>5, <2>6, <2>7, <2>8 DEF TypeOK
  <1>6. CASE UNCHANGED vars
    <2>1. /\ UNCHANGED waits /\ UNCHANGED listing /\ UNCHANGED scan /\ UNCHANGED stream
          /\ UNCHANGED ledger /\ UNCHANGED inFlight /\ UNCHANGED budget
          /\ UNCHANGED <<parser, list, told, after>>
      BY <1>6 DEF vars, participant, listing
    <2>2. ParticipantOK'
      BY <2>1 DEF TypeOK, ParticipantOK, ledger
    <2>3. PartyAwaited'
      BY <2>1 DEF PartyAwaited, waits, ledger
    <2>. QED BY <2>1, <2>2, <2>3, LedgerStays DEF TypeOK
  <1>. QED BY <1>1, <1>2, <1>3, <1>4, <1>5, <1>6 DEF Next

LEMMA Invariant == Spec => []IInv
  BY Initially, Preserved, PTL DEF Spec

(***************************************************************************)
(* Every variable has its type; offsets stay within the history.           *)
(***************************************************************************)
THEOREM TypeCorrect == Spec => []TypeOK
  <1>1. IInv => TypeOK
    BY DEF IInv
  <1>. QED BY <1>1, Invariant, PTL

(***************************************************************************)
(* waitForPartyAndGrantUserRights grants rights to a party that is there,   *)
(* for any number of tries, and whatever requests fail.                    *)
(***************************************************************************)
THEOREM PartyIsAwaitedAlways == Spec => []PartyIsAwaited
  <1>1. IInv => PartyIsAwaited
    BY DEF IInv, PartyAwaited, PartyIsAwaited
  <1>. QED BY <1>1, Invariant, PTL

(***************************************************************************)
(* awaitCompletion never moves its beginning past the completion it waits   *)
(* for, for any page size and any other completions.                       *)
(***************************************************************************)
THEOREM NothingSkippedAlways == Spec => []NothingSkipped
  <1>1. IInv => NothingSkipped
    BY DEF IInv, AllPolled, Polled, NothingSkipped
  <1>. QED BY <1>1, Invariant, PTL

(***************************************************************************)
(* A list that follows a completed call reads that call's transaction: its  *)
(* end was read after the completion, and the next offset is no less than   *)
(* that of any transaction of the list.                                    *)
(***************************************************************************)
THEOREM ReadsItsWriteAlways == Spec => []ReadsItsWrite
  <1>1. IInv => ReadsItsWrite
    <2>. SUFFICES ASSUME IInv, list.at = "parse", ~(confirmed <= after)
                  PROVE  confirmed <= list.next
      BY DEF ReadsItsWrite
    <2>1. confirmed \in Nat /\ after \in Nat /\ list.end \in Nat
      BY EndType DEF IInv, TypeOK, WaitsOK, ListOK
    <2>2. confirmed <= list.end
      BY DEF IInv, Listing
    <2>3. HasTransaction(confirmed)
      BY <2>1 DEF IInv, Confirmed
    <2>4. confirmed \in Transactions(after, list.end)
      BY <2>1, <2>2, <2>3 DEF Transactions
    <2>. QED BY <2>4 DEF IInv, Listing
  <1>. QED BY <1>1, Invariant, PTL

(***************************************************************************)
(* fetchActiveContractsUntilComplete counts every transaction once, for any *)
(* page limit, ledger and pages.                                           *)
(***************************************************************************)
THEOREM EachTransactionOnceAlways == Spec => []EachTransactionOnce
  <1>1. IInv => EachTransactionOnce
    BY PagedTells DEF IInv
  <1>. QED BY <1>1, Invariant, PTL

(***************************************************************************)
(* A subscription tells the party's transactions in order and leaves none   *)
(* out, however messages, errors, closes and the client's steps interleave. *)
(***************************************************************************)
THEOREM StreamTellsAllAlways == Spec => []StreamTellsAll
  <1>1. IInv => StreamTellsAll
    BY HearingTells DEF IInv
  <1>. QED BY <1>1, Invariant, PTL

\* What there is up to an offset is what there is at each.
LEMMA UpToIs ==
    ASSUME ParticipantOK, NEW a \in 0..End
    PROVE  /\ CreatedUpTo(a) = UNION {BornAt(o) : o \in 1..a}
           /\ ConsumedUpTo(a) = UNION {GoneAt(o) : o \in 1..a}
           /\ UntoldUpTo(a) = UNION {PlainAt(o) : o \in 1..a}
           /\ CreatedUpTo(a) \subseteq Contract
  <1>1. CreatedUpTo(a) = UNION {BornAt(o) : o \in 1..a}
    BY DEF CreatedUpTo, NodesUpTo, BornAt
  <1>2. ConsumedUpTo(a) = UNION {GoneAt(o) : o \in 1..a}
    BY DEF ConsumedUpTo, NodesUpTo, GoneAt
  <1>3. UntoldUpTo(a) = UNION {PlainAt(o) : o \in 1..a}
    BY DEF UntoldUpTo, NodesUpTo, PlainAt
  <1>4. \A o \in 1..a : BornAt(o) \subseteq Contract
    BY EndType, BornType
  <1>. QED BY <1>1, <1>2, <1>3, <1>4

LEMMA TaleIsLedger ==
    ASSUME IInv
    PROVE  ToldIsLedger
  <1>1. PICK a, C, G, P : /\ a = after /\ C = CreatedUpTo(a) /\ G = ConsumedUpTo(a)
                          /\ P = UntoldUpTo(a)
    OBVIOUS
  <1>2. /\ ParticipantOK /\ End \in Nat /\ a \in 0..End /\ before \subseteq Contract
        /\ told \in Seq(Event)
    BY <1>1, EndType DEF IInv, TypeOK, ListOK, ParticipantOK
  <1>3. Tale(told, C, G, P) /\ C \subseteq Contract
    BY <1>1, <1>2, UpToIs DEF IInv, Listing, TaleOver
  <1>4. \A c \in before : c \notin C
    <2>1. ASSUME NEW c \in before, NEW o \in 1..a, c \in BornAt(o)
          PROVE  FALSE
      <3>1. o \in 1..End /\ o \in 0..End
        BY <1>2
      <3>2. PICK i \in DOMAIN NodesOf(o) : NodesOf(o)[i].kind = "create" /\ NodesOf(o)[i].on = c
        BY <2>1, <3>1, BornIs
      <3>. QED BY <2>1, <3>1, <3>2 DEF IInv, Lives
    <2>. QED BY <1>1, <1>2, <2>1, UpToIs
  <1>5. \A c : /\ Tells(c, "create") = {k \in DOMAIN told : TellsCreate(told[k], c)}
               /\ Tells(c, "archive") = {k \in DOMAIN told : TellsArchive(told[k], c)}
    BY DEF Tells, TellsCreate, TellsArchive
  <1>6. \A c \in HoldingsAt(after) : c \in Contract /\ c \in Balance
    <2>1. ASSUME NEW c \in HoldingsAt(after)
          PROVE  c \in Contract /\ c \in Balance
      <3>1. c \in Contract /\ OwnHolding(c) /\ c \in before \cup C /\ c \notin G
        BY <1>1, <1>2, <1>3, <2>1 DEF HoldingsAt, Holdings, OwnHolding
      <3>2. Tells(c, "archive") = {}
        BY <1>3, <1>5, <3>1 DEF Tale
      <3>3. c \in before \/ Tells(c, "create") # {}
        BY <1>3, <1>5, <3>1 DEF Tale
      <3>. QED BY <3>1, <3>2, <3>3 DEF Balance, Holdings, OwnHolding
    <2>. QED BY <2>1
  <1>7. \A c \in Balance : c \in HoldingsAt(after) \cup UntoldUpTo(after)
    <2>1. ASSUME NEW c \in Balance, c \notin P
          PROVE  c \in HoldingsAt(after)
      <3>1. c \in Contract /\ OwnHolding(c) /\ (c \in before \/ Tells(c, "create") # {})
            /\ Tells(c, "archive") = {}
        BY <2>1 DEF Balance, Holdings, OwnHolding
      <3>2. c \in before \cup C
        BY <1>3, <1>5, <3>1 DEF Tale
      <3>3. c \notin G
        <4>1. SUFFICES ASSUME c \in G PROVE FALSE
          OBVIOUS
        <4>2. \A k \in DOMAIN told : ~TellsArchive(told[k], c)
          BY <1>5, <3>1
        <4>3. c \in C /\ \A k \in DOMAIN told : ~TellsCreate(told[k], c)
          BY <1>3, <2>1, <3>1, <4>1, <4>2 DEF Tale
        <4>. QED BY <1>4, <1>5, <3>1, <4>3
      <3>. QED BY <1>1, <3>1, <3>2, <3>3 DEF HoldingsAt, Holdings, OwnHolding
    <2>. QED BY <1>1, <2>1
  <1>8. ASSUME NEW c \in Contract, NEW what \in {"create", "archive"}
        PROVE  Cardinality(Tells(c, what)) <= 1
    <2>1. \A k, m \in Tells(c, what) : k = m
      <3>1. \A k, m \in Tells(c, "create") : k = m
        BY <1>3, <1>5 DEF Tale
      <3>2. \A k, m \in Tells(c, "archive") : k = m
        BY <1>3, <1>5 DEF Tale
      <3>. QED BY <3>1, <3>2
    <2>2. CASE Tells(c, what) = {}
      BY <2>2, FS_EmptySet
    <2>3. CASE Tells(c, what) # {}
      <3>1. PICK k \in Tells(c, what) : TRUE
        BY <2>3
      <3>2. Tells(c, what) = {k}
        BY <2>1, <3>1
      <3>. QED BY <3>2, FS_Singleton
    <2>. QED BY <2>2, <2>3
  <1>. QED BY <1>6, <1>7, <1>8 DEF ToldIsLedger

(***************************************************************************)
(* What a client is told by listHoldingTransactions adds up to the party's  *)
(* holdings: for any trees of transactions, lists, checkpoints and failures *)
(* in between, every change of a holding is told once, and none but those   *)
(* by choices that the parser does not know is missing.                    *)
(***************************************************************************)
THEOREM ToldIsLedgerAlways == Spec => []ToldIsLedger
  <1>1. IInv => ToldIsLedger
    BY TaleIsLedger
  <1>. QED BY <1>1, Invariant, PTL

=============================================================================
