---------------------------- MODULE UpdateStream ----------------------------
(***************************************************************************)
(* A subscription to the party's updates: WebSocketManager of the wallet    *)
(* SDK and the generator of core/asyncapi-client/src/websocket-client.ts.   *)
(* The socket's callbacks fill a queue and wake the generator, which yields *)
(* what is there to a client that takes its time.  A generator that ends    *)
(* and one that throws are all the client sees of what became of its        *)
(* socket.                                                                 *)
(***************************************************************************)
EXTENDS Participant

(***************************************************************************)
(* stream.at is where the generator stands: before its first next()        *)
(* (unused and starting, which awaits the token), at its await (waiting,   *)
(* or woken), at a yield (held), or at its end (ended, left, threw). begin *)
(* is the request's beginExclusive, promised the offset that the documents *)
(* say it begins at, sent the offset the participant has come to; queue    *)
(* and told hold the offsets of messages.                                  *)
(***************************************************************************)
VARIABLES stream

NoStream == [at |-> "unused", socket |-> "none", begin |-> 0, sent |-> 0,
             holdings |-> FALSE, promised |-> 0,
             queue |-> <<>>, told |-> <<>>, isClosed |-> FALSE, streamError |-> FALSE]

StreamInit == stream = NoStream

\* subscribeToHoldingUtxos starts where it is asked to, or at 0.  subscribeToUpdates
\* always starts at 0: it says beginExclusive to a manager that reads beginOffset.
Begins(asked, holdings) == IF holdings /\ asked # None THEN asked ELSE 0

\* The beginOffset that was given; without one the ledger end for holdings, and
\* nothing is promised for updates.
Promised(asked, holdings) ==
    CASE asked # None -> asked
      [] holdings -> End
      [] OTHER -> 0

Subscribe(asked, holdings) ==
    /\ stream.at = "unused" /\ Spend("streams")
    /\ stream' = [NoStream EXCEPT !.at = "starting", !.begin = Begins(asked, holdings),
                                  !.sent = Begins(asked, holdings),
                                  !.holdings = holdings,
                                  !.promised = Promised(asked, holdings)]
    /\ UNCHANGED <<inFlight, ledger>>

TokenArrives ==
    /\ stream.at = "starting"
    /\ stream' = [stream EXCEPT !.at = "waiting", !.socket = "connecting"]
    /\ UNCHANGED participant

TokenFails ==
    /\ stream.at = "starting" /\ Spend("faults")
    /\ stream' = [stream EXCEPT !.at = "threw"]
    /\ UNCHANGED <<inFlight, ledger>>

-----------------------------------------------------------------------------
(* The socket *)

\* resolveNext: to a generator that does not wait it does nothing.
Wake(at) == IF at = "waiting" THEN "woken" ELSE at

\* The request is sent, and the participant begins.
SocketOpens ==
    /\ stream.socket = "connecting"
    /\ stream' = [stream EXCEPT !.socket = "open"]
    /\ UNCHANGED participant

\* The participant sends the party's transactions, and checkpoints as it likes.
Sends(o) ==
    /\ stream.sent < o
    /\ Seen(stream.sent, o - 1) = {}

MessageArrives(o) ==
    /\ stream.socket = "open" /\ Sends(o)
    /\ stream' = [stream EXCEPT !.sent = o, !.queue = Append(@, o), !.at = Wake(@)]
    /\ UNCHANGED participant

SocketCloses ==
    /\ stream.socket = "open" /\ Spend("faults")
    /\ stream' = [stream EXCEPT !.socket = "closed", !.isClosed = TRUE, !.at = Wake(@)]
    /\ UNCHANGED <<inFlight, ledger>>

SocketFails ==
    /\ stream.socket \in {"connecting", "open"} /\ Spend("faults")
    /\ stream' = [stream EXCEPT !.socket = "closed", !.isClosed = TRUE,
                                !.streamError = TRUE, !.at = Wake(@)]
    /\ UNCHANGED <<inFlight, ledger>>

-----------------------------------------------------------------------------
(* The generator *)

\* To its next await, yield or end: the queue first, and then whether it is closed.
MutantGoOn(s) ==
    IF s.queue # <<>>
    THEN [s EXCEPT !.at = "held", !.queue = Tail(@), !.told = Append(@, Head(s.queue))]
    ELSE [s EXCEPT !.at = "waiting"]

GoOn(s) ==
    IF s.queue # <<>>
    THEN [s EXCEPT !.at = "held", !.queue = Tail(@), !.told = Append(@, Head(s.queue))]
    ELSE [s EXCEPT !.at = IF s.isClosed THEN "ended" ELSE "waiting"]

\* After its await the generator throws first, whatever the queue holds.
Resumes ==
    /\ stream.at = "woken"
    /\ stream' = IF stream.streamError THEN [stream EXCEPT !.at = "threw"] ELSE GoOn(stream)
    /\ UNCHANGED participant

\* After a yield it does not look at the error: a socket that failed meanwhile ends
\* the stream like one that was closed.
Continues ==
    /\ stream.at = "held"
    /\ stream' = GoOn(stream)
    /\ UNCHANGED participant

\* The client leaves its loop; the generator closes the socket.
Leave ==
    /\ stream.at = "held"
    /\ stream' = [stream EXCEPT !.at = "left",
                                !.socket = IF @ = "open" THEN "closed" ELSE @,
                                !.isClosed = stream.isClosed \/ stream.socket = "open"]
    /\ UNCHANGED participant

StreamNext ==
    \/ \E asked \in (0..End) \cup {None}, holdings \in BOOLEAN : Subscribe(asked, holdings)
    \/ TokenArrives \/ TokenFails
    \/ SocketOpens \/ SocketCloses \/ SocketFails
    \/ \E o \in 1..End : MessageArrives(o)
    \/ Resumes \/ Continues \/ Leave

StreamOK ==
    /\ stream \in [at : {"unused", "starting", "waiting", "woken", "held", "ended", "left",
                        "threw"},
                  socket : {"none", "connecting", "open", "closed"},
                  begin : 0..End, sent : 0..End, holdings : BOOLEAN, promised : 0..End, queue : Seq(Nat), told : Seq(Nat),
                  isClosed : BOOLEAN, streamError : BOOLEAN]
    /\ stream.begin <= stream.sent

=============================================================================
