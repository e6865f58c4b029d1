---------------------------- MODULE DappSession ----------------------------
(***************************************************************************)
(* A dApp page and the wallet gateway: connect and prepareExecuteAndWait of *)
(* the dApp SDK (sdk/dapp-sdk/src/provider.ts), the HTTP provider with its  *)
(* event stream (core/splice-provider/src/SpliceProviderHttp.ts), the popup *)
(* in which the user logs in (wallet-gateway/remote/src/web/frontend), and *)
(* the session and the events at the gateway.                              *)
(*                                                                         *)
(* Requests, the event stream and the messages of the popup are channels of *)
(* their own: nothing orders one against another.  A session and the token *)
(* it was made with are named by the number of the login.                  *)
(***************************************************************************)
EXTENDS Integers, Sequences, SequencesExt

CONSTANTS
    Wait,         \* the prepareExecuteAndWait calls of the dApp
    Elsewhere,    \* transactions of the user that wait for approval in other tabs
    MaxConnects,  \* bound: connect calls of the dApp, on one provider
    MaxLogins,    \* bound: logins of the user
    MaxFaults     \* bound: logouts, disconnects, event streams that break and status
                  \* requests that fail

ASSUME SessionAssumption ==
    /\ Wait \cap Elsewhere = {}
    /\ MaxConnects \in Nat /\ MaxLogins \in Nat /\ MaxFaults \in Nat

\* Where a prepareExecuteAndWait stands that has not resolved with a transaction.
WaitState == {"idle", "asking", "prepared", "failed", "waiting", "timedOut"}

\* Ids of transactions are uuids.
ASSUME NameAssumption == WaitState \cap (Wait \cup Elsewhere) = {}

VARIABLES
    session,    \* the gateway: the user's session, 0 if there is none
    announcing, \* the gateway: the session whose addSession has yet to emit
    connect,    \* the SDK's connect: where it stands, the session it was told
    known,      \* the provider: the session of the last status it asked for
    sse,        \* the provider's event stream and the token it was opened with
    stream,     \* events the gateway has written to it
    inbox,      \* tokens the popup has posted to the dApp's page
    queries,    \* status requests under way: their answers, -1 before it is read
    unanswered, \* ghost: a status request has failed
    popup,      \* the page in the popup
    pageToken,  \* the popup's token, 0 if there is none
    wait,       \* the SDK's prepareExecuteAndWait calls
    listening,  \* the calls whose txChanged listener is registered
    executed,   \* the gateway: the transactions it has executed
    connects, logins, faults

gateway == <<session, announcing, executed>>
provider == <<known, sse, inbox, queries, unanswered>>
page == <<popup, pageToken>>
waits == <<wait, listening>>
bounds == <<connects, logins, faults>>
vars == <<gateway, connect, provider, stream, page, waits, bounds>>

Login == 1..MaxLogins
Session == 0..MaxLogins

\* The gateway's session is valid for requests with token t.
Authenticated(t) == t # 0 /\ session # 0

StatusEvent(s) == [type |-> "statusChanged", session |-> s, tx |-> "none", status |-> "none"]
TxEvent(c, status) == [type |-> "txChanged", session |-> 0, tx |-> c, status |-> status]

\* notifier.emit: only a stream whose listeners are attached gets the event.
Emit(e) == stream' = IF sse.at = "open" THEN Append(stream, e) ELSE stream

-----------------------------------------------------------------------------
(* connect                                                                 *)

\* A statusChanged event, of session s or not connected, reaches the listeners of
\* the provider.  The one that closes the popup is there if the dApp's page was
\* loaded with a provider.
OnStatus(s) ==
    /\ connect' = IF connect.at = "waiting" /\ s # 0
                  THEN [at |-> "connected", session |-> s] ELSE connect
    /\ \/ UNCHANGED popup
       \/ s = 0 /\ popup' = "closed"

Connect ==
    /\ connect.at \in {"idle", "connected", "timedOut"}
    /\ connects < MaxConnects
    /\ connects' = connects + 1
    /\ connect' = [at |-> "asking", session |-> 0]
    /\ UNCHANGED <<gateway, provider, stream, page, waits, logins, faults>>

\* The gateway reads the session.  Without one it answers with a login page.
SessionForConnect ==
    /\ connect.at = "asking"
    /\ connect' = [at |-> IF Authenticated(sse.token) THEN "greeting" ELSE "toLogin",
                   session |-> session]
    /\ UNCHANGED <<gateway, provider, stream, page, waits, bounds>>

\* With one it emits the status and answers, without the session.
ConnectEmits ==
    /\ connect.at = "greeting"
    /\ Emit(StatusEvent(connect.session))
    /\ connect' = [connect EXCEPT !.at = "greeted"]
    /\ UNCHANGED <<gateway, provider, page, waits, bounds>>

\* The SDK finds no session in either answer: it opens the popup, at the login
\* page or at no page of the gateway, and waits for a statusChanged event.
ConnectAnswered ==
    /\ connect.at \in {"toLogin", "greeted"}
    /\ popup' = IF connect.at = "toLogin" THEN "login" ELSE "blank"
    /\ connect' = [at |-> "waiting", session |-> 0]
    /\ UNCHANGED <<gateway, provider, stream, pageToken, waits, bounds>>

ConnectTimesOut ==
    /\ connect.at = "waiting"
    /\ connect' = [connect EXCEPT !.at = "timedOut"]
    /\ UNCHANGED <<gateway, provider, stream, page, waits, bounds>>

-----------------------------------------------------------------------------
(* The popup                                                               *)

\* The user logs in; addSession replaces the session.
AddSession ==
    /\ popup = "login" /\ pageToken = 0
    /\ announcing = 0
    /\ logins < MaxLogins
    /\ logins' = logins + 1
    /\ session' = logins + 1 /\ announcing' = logins + 1
    /\ popup' = "adding" /\ pageToken' = logins + 1
    /\ UNCHANGED <<executed, connect, provider, stream, waits, connects, faults>>

\* Before addSession answers it emits the status, whoever listens by then: not
\* connected, if the ledger cannot be reached.
AddSessionEmits ==
    /\ announcing # 0
    /\ \/ Emit(StatusEvent(announcing))
       \/ Emit(StatusEvent(0))
    /\ announcing' = 0
    /\ UNCHANGED <<session, executed, connect, provider, page, waits, bounds>>

\* addSession fails before it emits or after it, in the first sync of the wallets:
\* the session stays, the popup shares nothing and the user leaves it.
AddSessionFails ==
    /\ popup = "adding"
    /\ popup' = "closed"
    /\ announcing' = 0
    /\ UNCHANGED <<session, executed, connect, provider, stream, pageToken, waits, bounds>>

\* shareConnection: after addSession, or when a page is opened and finds that the
\* user is logged in.
ShareConnection ==
    /\ \/ popup = "adding" /\ announcing = 0
       \/ popup \in {"login", "approve"} /\ Authenticated(pageToken)
    /\ inbox' = Append(inbox, pageToken)
    /\ popup' = "shared"
    /\ UNCHANGED <<gateway, connect, known, sse, queries, unanswered, stream, pageToken, waits,
                   bounds>>

\* A page that holds no token, or one of a session that is gone, forgets it and
\* becomes the login page.
LoginNeeded ==
    /\ popup \in {"login", "approve"} /\ ~Authenticated(pageToken)
    /\ popup = "approve" \/ pageToken # 0
    /\ popup' = "login" /\ pageToken' = 0
    /\ UNCHANGED <<gateway, connect, provider, stream, waits, bounds>>

\* The user logs out, or the dApp disconnects: the popup is closed.
EndSession ==
    /\ session # 0
    /\ faults < MaxFaults
    /\ faults' = faults + 1
    /\ session' = 0
    /\ Emit(StatusEvent(0))
    /\ popup' = "closed"
    /\ \/ UNCHANGED pageToken
       \/ pageToken' = 0
    /\ UNCHANGED <<announcing, executed, connect, provider, waits, connects, logins>>

-----------------------------------------------------------------------------
(* The provider                                                            *)

\* openSSE: a stream with another token is closed, and its events are lost.
Reopened(token) == IF sse.at # "none" /\ sse.token = token THEN sse
                   ELSE [at |-> "opening", token |-> token]

\* The status is asked for as well, since the stream may be too late for it.
MutantAsks == <<>>
Asks == <<-1>>

AuthMessage ==
    /\ inbox # <<>>
    /\ inbox' = Tail(inbox)
    /\ sse' = Reopened(Head(inbox))
    /\ stream' = IF Reopened(Head(inbox)) = sse THEN stream ELSE <<>>
    /\ queries' = queries \o Asks
    /\ UNCHANGED <<gateway, connect, known, unanswered, page, waits, bounds>>

StatusRead(i) ==
    /\ queries[i] = -1
    /\ queries' = [queries EXCEPT ![i] = session]
    /\ UNCHANGED <<gateway, connect, known, sse, inbox, unanswered, stream, page, waits, bounds>>

\* The request fails, or its answer is lost: that is logged, and nobody asks again.
StatusFails(i) ==
    /\ faults < MaxFaults
    /\ faults' = faults + 1
    /\ queries' = RemoveAt(queries, i)
    /\ unanswered' = TRUE
    /\ UNCHANGED <<gateway, connect, known, sse, inbox, stream, page, waits, connects, logins>>

\* The answer is passed on to the listeners if the session is not the one of the
\* last answer that was.  Answers come in any order.
StatusAnswered(i) ==
    /\ queries[i] # -1
    /\ queries' = RemoveAt(queries, i)
    /\ known' = queries[i]
    /\ \/ queries[i] # known /\ OnStatus(queries[i])
       \/ queries[i] = known /\ UNCHANGED <<connect, popup>>
    /\ UNCHANGED <<gateway, sse, inbox, unanswered, stream, pageToken, waits, bounds>>

\* The gateway attaches its listeners to the stream, if there is a session.
StreamOpens ==
    /\ sse.at = "opening"
    /\ sse' = [sse EXCEPT !.at = IF session # 0 THEN "open" ELSE "none"]
    /\ UNCHANGED <<gateway, connect, known, inbox, queries, unanswered, stream, page, waits, bounds>>

\* A stream that breaks is closed, and nothing opens it again.
StreamBreaks ==
    /\ sse.at # "none"
    /\ faults < MaxFaults
    /\ faults' = faults + 1
    /\ sse' = [sse EXCEPT !.at = "none"]
    /\ stream' = <<>>
    /\ UNCHANGED <<gateway, connect, known, inbox, queries, unanswered, page, waits,
                   connects, logins>>

-----------------------------------------------------------------------------
(* prepareExecuteAndWait                                                   *)

AskAndWait(c) ==
    /\ wait[c] = "idle"
    /\ wait' = [wait EXCEPT ![c] = "asking"]
    /\ UNCHANGED <<gateway, connect, provider, stream, page, listening, bounds>>

Prepares(c) ==
    /\ wait[c] = "asking"
    /\ Authenticated(sse.token)
    /\ Emit(TxEvent(c, "pending"))
    /\ wait' = [wait EXCEPT ![c] = "prepared"]
    /\ UNCHANGED <<gateway, connect, provider, page, listening, bounds>>

\* Without a session, or by the ledger after the event has gone out.
PrepareFails(c) ==
    /\ wait[c] = "asking"
    /\ \/ UNCHANGED stream
       \/ Authenticated(sse.token) /\ Emit(TxEvent(c, "pending"))
    /\ wait' = [wait EXCEPT ![c] = "failed"]
    /\ UNCHANGED <<gateway, connect, provider, page, listening, bounds>>

\* The SDK opens the popup at the approve page and registers its listener.
WaitBegins(c) ==
    /\ wait[c] = "prepared"
    /\ wait' = [wait EXCEPT ![c] = "waiting"]
    /\ listening' = listening \cup {c}
    /\ popup' = "approve"
    /\ UNCHANGED <<gateway, connect, provider, stream, pageToken, bounds>>

\* The user approves on that page or on another.
Executes(c) ==
    /\ c \in Wait => wait[c] \in {"prepared", "waiting", "timedOut"}
    /\ c \notin executed
    /\ session # 0
    /\ executed' = executed \cup {c}
    /\ Emit(TxEvent(c, "executed"))
    /\ UNCHANGED <<session, announcing, connect, provider, page, waits, bounds>>

\* Ten seconds: the promise is rejected, and its listener stays.
WaitTimesOut(c) ==
    /\ wait[c] = "waiting"
    /\ wait' = [wait EXCEPT ![c] = "timedOut"]
    /\ UNCHANGED <<gateway, connect, provider, stream, page, listening, bounds>>

\* An executed event, of whatever transaction, resolves every call that waits
\* and removes all the listeners.
MutantResolves(status) == status \in {"pending", "executed"}
Resolves(status) == status = "executed"

MutantResolved(c, e) == IF c \in listening /\ wait[c] = "waiting" THEN e.status ELSE wait[c]
Resolved(c, e) == IF c \in listening /\ wait[c] = "waiting" THEN e.tx ELSE wait[c]

OnTx(e) ==
    \/ /\ Resolves(e.status)
       /\ wait' = [c \in Wait |-> Resolved(c, e)]
       /\ listening' = {}
    \/ /\ ~Resolves(e.status)
       /\ UNCHANGED waits

\* The next event of the stream.
Receive ==
    /\ stream # <<>>
    /\ stream' = Tail(stream)
    /\ LET e == Head(stream) IN
        \/ e.type = "statusChanged" /\ OnStatus(e.session) /\ UNCHANGED waits
        \/ e.type = "txChanged" /\ OnTx(e) /\ UNCHANGED <<connect, popup>>
    /\ UNCHANGED <<gateway, provider, pageToken, bounds>>

-----------------------------------------------------------------------------

Init ==
    /\ session = 0 /\ announcing = 0
    /\ connect = [at |-> "idle", session |-> 0]
    /\ known = 0
    /\ sse = [at |-> "none", token |-> 0]
    /\ stream = <<>> /\ inbox = <<>> /\ queries = <<>> /\ unanswered = FALSE
    /\ popup = "closed" /\ pageToken = 0
    /\ wait = [c \in Wait |-> "idle"] /\ listening = {} /\ executed = {}
    /\ connects = 0 /\ logins = 0 /\ faults = 0

\* What goes on without the user, the dApp or a fault.
Proceeds ==
    \/ SessionForConnect \/ ConnectEmits \/ ConnectAnswered
    \/ AddSessionEmits \/ ShareConnection \/ LoginNeeded
    \/ AuthMessage \/ StreamOpens \/ Receive
    \/ \E i \in DOMAIN queries : StatusRead(i) \/ StatusAnswered(i)

Next ==
    \/ Proceeds
    \/ Connect \/ ConnectTimesOut \/ AddSession \/ AddSessionFails \/ EndSession \/ StreamBreaks
    \/ \E i \in DOMAIN queries : StatusFails(i)
    \/ \E c \in Wait : \/ AskAndWait(c) \/ Prepares(c) \/ PrepareFails(c)
                       \/ WaitBegins(c) \/ WaitTimesOut(c)
    \/ \E c \in Wait \cup Elsewhere : Executes(c)

Spec == Init /\ [][Next]_vars

\* Requests, messages and events arrive; users and dApps may stop, and no
\* timeout is counted on.
FairSpec ==
    /\ Spec
    /\ WF_vars(SessionForConnect) /\ WF_vars(ConnectEmits) /\ WF_vars(ConnectAnswered)
    /\ WF_vars(AddSessionEmits) /\ WF_vars(ShareConnection) /\ WF_vars(AuthMessage)
    /\ WF_vars(StreamOpens) /\ WF_vars(Receive)
    /\ WF_vars(\E i \in DOMAIN queries : StatusRead(i) \/ StatusAnswered(i))

-----------------------------------------------------------------------------
(* Properties *)

TypeOK ==
    /\ session \in Session /\ announcing \in Session /\ known \in Session
    /\ connect \in [at : {"idle", "asking", "greeting", "greeted", "toLogin", "waiting",
                          "connected", "timedOut"}, session : Session]
    /\ sse \in [at : {"none", "opening", "open"}, token : Session]
    /\ \A i \in DOMAIN stream :
        stream[i] \in [type : {"statusChanged", "txChanged"}, session : Session,
                       tx : Wait \cup Elsewhere \cup {"none"}, status : {"none", "pending", "executed"}]
    /\ inbox \in Seq(Login)
    /\ queries \in Seq(-1..MaxLogins) /\ unanswered \in BOOLEAN
    /\ popup \in {"closed", "blank", "login", "adding", "shared", "approve"}
    /\ pageToken \in Session
    /\ wait \in [Wait -> WaitState \cup Wait \cup Elsewhere]
    /\ listening \subseteq Wait /\ executed \subseteq Wait \cup Elsewhere

\* A connect that waits is told of a login that the popup shares and the provider
\* has not heard of, although the gateway may have emitted its event before the
\* stream was there: "it's not guaranteed that the socket will be open &
\* authenticated before the statusChanged event is fired"
\* (SpliceProviderHttp.ts:118).  Only a logout may come between, or a failure of
\* the status request, which nobody repeats.
LoginConnects ==
    connect.at = "waiting" /\ (\E i \in DOMAIN inbox : inbox[i] # known)
        ~> connect.at # "waiting" \/ session = 0 \/ unanswered

\* A prepareExecuteAndWait resolves only with a transaction that was executed,
\* its own or another one that its listener took for it.
ResolvedIsExecuted ==
    \A c \in Wait : wait[c] \in Wait \cup Elsewhere => wait[c] \in executed

\* "Like prepareExecute, but waits for the transaction to be executed on the ledger"
\* (openrpc-dapp-api.json:96): a call that resolves does so when its own
\* transaction has been executed.
ResolvesWithOwn ==
    \A c \in Wait : wait[c] \in Wait \cup Elsewhere => c \in executed

\* "This initiates the authentication flow if the user is not already
\* authenticated" (usage.rst:41): the connect of a user who is authenticated is
\* answered, unless the session ends or the stream breaks.
AuthenticatedConnects ==
    connect.at = "greeting" ~> connect.at = "connected" \/ session = 0 \/ sse.at = "none"

=============================================================================
