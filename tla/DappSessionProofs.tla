-------------------------- MODULE DappSessionProofs --------------------------
(***************************************************************************)
(* Theorems about DappSession, for any transactions, connects, logins and  *)
(* faults.                                                                 *)
(***************************************************************************)
EXTENDS DappSession, SequenceTheorems, TLAPS

Event == [type : {"statusChanged", "txChanged"}, session : Session,
          tx : Wait \cup Elsewhere \cup {"none"}, status : {"none", "pending", "executed"}]

ConnectState == [at : {"idle", "asking", "greeting", "greeted", "toLogin", "waiting",
                       "connected", "timedOut"}, session : Session]

StreamState == [at : {"none", "opening", "open"}, token : Session]

Popup == {"closed", "blank", "login", "adding", "shared", "approve"}

(***************************************************************************)
(* The inductive invariant.  A popup that adds a session has its token, so *)
(* what it shares is one.  Every event of an executed transaction that is  *)
(* still in the stream is of one the gateway has executed: the listener     *)
(* looks at the event alone, so the promise rests on the stream.           *)
(***************************************************************************)
Gateway == session \in Session /\ announcing \in Session /\ executed \subseteq Wait \cup Elsewhere
Provider == /\ known \in Session /\ sse \in StreamState
            /\ inbox \in Seq(Login) /\ queries \in Seq(-1..MaxLogins) /\ unanswered \in BOOLEAN
PopupPage == /\ popup \in Popup /\ pageToken \in Session
             /\ popup = "adding" => pageToken # 0
Waits == wait \in [Wait -> WaitState \cup Wait \cup Elsewhere] /\ listening \subseteq Wait
Events == stream \in Seq(Event)
TellsExecuted(e) == e.type = "txChanged" /\ e.status = "executed" => e.tx \in executed
Truthful == \A i \in DOMAIN stream : TellsExecuted(stream[i])

IInv ==
    /\ Gateway /\ Provider /\ PopupPage /\ Waits /\ Events
    /\ connect \in ConnectState /\ logins \in 0..MaxLogins
    /\ Truthful /\ ResolvedIsExecuted

-----------------------------------------------------------------------------
(* Operators *)

\* What the gateway writes to the event stream is an event.
LEMMA EventTypes ==
    ASSUME NEW s \in Session, NEW c \in Wait \cup Elsewhere, NEW status \in {"pending", "executed"}
    PROVE  StatusEvent(s) \in Event /\ TxEvent(c, status) \in Event
  BY SessionAssumption DEF StatusEvent, TxEvent, Event, Session

\* The answer that is passed on leaves the others as they were.
LEMMA RemoveAtType ==
    ASSUME NEW T, NEW s \in Seq(T), NEW i \in DOMAIN s
    PROVE  RemoveAt(s, i) \in Seq(T)
  <1>1. i \in 1..Len(s) OBVIOUS
  <1>2. SubSeq(s, 1, i - 1) \in Seq(T) /\ SubSeq(s, i + 1, Len(s)) \in Seq(T) BY <1>1, SubSeqProperties
  <1> QED BY <1>2 DEF RemoveAt

\* A truthful event can be written to the stream, whoever listens.
LEMMA EmitTruthful ==
    ASSUME IInv, NEW e \in Event, Emit(e), executed \subseteq executed',
           e.type = "txChanged" /\ e.status = "executed" => e.tx \in executed'
    PROVE  Events' /\ Truthful'
  <1>1. stream \in Seq(Event) BY DEF IInv, Events
  <1>2. stream' = stream \/ stream' = Append(stream, e) BY DEF Emit
  <1>3. Events'
    <2>1. stream' \in Seq(Event) BY <1>1, <1>2
    <2> QED BY <2>1 DEF Events
  <1>4. ASSUME NEW i \in DOMAIN stream' PROVE stream'[i] = e \/ (i \in DOMAIN stream /\ stream'[i] = stream[i])
    BY <1>1, <1>2, <1>4
  <1>5. Truthful' BY <1>4 DEF IInv, Truthful, TellsExecuted
  <1> QED BY <1>3, <1>5

\* Events that were lost or received leave a truthful stream.
LEMMA TailTruthful ==
    ASSUME IInv, stream # <<>>, stream' = Tail(stream), UNCHANGED executed
    PROVE  /\ Events' /\ Truthful'
           /\ Head(stream) \in Event /\ TellsExecuted(Head(stream))
  <1>1. stream \in Seq(Event) BY DEF IInv, Events
  <1>2. stream' \in Seq(Event) /\ Head(stream) \in Event /\ Head(stream) = stream[1] /\ 1 \in DOMAIN stream
    BY <1>1
  <1>3. ASSUME NEW i \in DOMAIN stream' PROVE i + 1 \in DOMAIN stream /\ stream'[i] = stream[i + 1]
    BY <1>1, <1>3
  <1>4. Truthful' BY <1>3 DEF IInv, Truthful, TellsExecuted
  <1> QED BY <1>2, <1>4 DEF IInv, Truthful, Events, Event, Session

\* Events are only lost with all the others.
LEMMA KeepsTruthful ==
    ASSUME IInv, stream' = stream \/ stream' = <<>>, UNCHANGED executed
    PROVE  Events' /\ Truthful'
  <1>0. <<>> \in Seq(Event) OBVIOUS
  <1>1. stream' \in Seq(Event) BY <1>0 DEF IInv, Events
  <1>2. Events' BY <1>1 DEF Events
  <1>3. Truthful' BY DEF IInv, Truthful, TellsExecuted
  <1> QED BY <1>2, <1>3

\* A status that reaches the listeners connects at most, and closes the popup.
LEMMA StatusReaches ==
    ASSUME IInv, NEW s \in Session, OnStatus(s), UNCHANGED pageToken
    PROVE  connect' \in ConnectState /\ PopupPage'
  BY DEF IInv, OnStatus, ConnectState, PopupPage, Popup

-----------------------------------------------------------------------------
(* Invariance *)

LEMMA InitInvariant ==
    ASSUME Init PROVE IInv
  <1>1. Gateway /\ PopupPage
    BY SessionAssumption DEF Init, Gateway, PopupPage, Popup, Session
  <1>2. Provider
    <2>1. inbox \in Seq(Login) /\ queries \in Seq(-1..MaxLogins) BY DEF Init
    <2>2. unanswered \in BOOLEAN BY DEF Init
    <2> QED BY <2>1, <2>2, SessionAssumption DEF Init, Provider, StreamState, Session
  <1>3. Waits /\ ResolvedIsExecuted
    BY NameAssumption DEF Init, Waits, WaitState, ResolvedIsExecuted
  <1>4. Events /\ Truthful BY DEF Init, Events, Truthful
  <1>5. connect \in ConnectState /\ logins \in 0..MaxLogins
    BY SessionAssumption DEF Init, ConnectState, Session
  <1> QED BY <1>1, <1>2, <1>3, <1>4, <1>5 DEF IInv

\* connect: the dApp asks, the gateway answers, the SDK waits.
LEMMA ConnectSteps ==
    ASSUME IInv, Connect \/ SessionForConnect \/ ConnectEmits \/ ConnectAnswered \/ ConnectTimesOut
    PROVE  IInv'
  <1>0. connect \in ConnectState /\ session \in Session BY DEF IInv, Gateway
  <1>1. connect' \in ConnectState
    <2>1. CASE Connect BY <2>1, SessionAssumption DEF Connect, ConnectState, Session
    <2>2. CASE SessionForConnect BY <2>2, <1>0 DEF SessionForConnect, ConnectState
    <2>3. CASE ConnectEmits BY <2>3, <1>0 DEF ConnectEmits, ConnectState
    <2>4. CASE ConnectAnswered BY <2>4, SessionAssumption DEF ConnectAnswered, ConnectState, Session
    <2>5. CASE ConnectTimesOut BY <2>5, <1>0 DEF ConnectTimesOut, ConnectState
    <2> QED BY <2>1, <2>2, <2>3, <2>4, <2>5
  <1>2. UNCHANGED <<gateway, provider, waits, pageToken, logins>>
    BY DEF Connect, SessionForConnect, ConnectEmits, ConnectAnswered, ConnectTimesOut, page, bounds
  <1>3. Events' /\ Truthful'
    <2>1. CASE ConnectEmits
      <3>1. connect.session \in Session BY <1>0 DEF ConnectState
      <3>2. StatusEvent(connect.session) \in Event BY <3>1 DEF StatusEvent, Event
      <3> QED BY <2>1, <3>2, <1>2, EmitTruthful DEF ConnectEmits, StatusEvent, gateway
    <2>2. CASE stream' = stream BY <2>2, <1>2, KeepsTruthful DEF gateway
    <2> QED BY <2>1, <2>2 DEF Connect, SessionForConnect, ConnectAnswered, ConnectTimesOut
  <1>4. PopupPage'
    <2>1. popup' = popup \/ popup' \in {"login", "blank"}
      BY DEF Connect, SessionForConnect, ConnectEmits, ConnectAnswered, ConnectTimesOut, page
    <2> QED BY <2>1, <1>2 DEF IInv, PopupPage, Popup
  <1>5. Gateway' /\ Provider' /\ Waits' /\ ResolvedIsExecuted' /\ logins' \in 0..MaxLogins
    BY <1>2 DEF IInv, Gateway, Provider, Waits, ResolvedIsExecuted, gateway, provider, waits
  <1> QED BY <1>1, <1>3, <1>4, <1>5 DEF IInv

\* The popup: logins and logouts, and what it shares with the dApp's page.
LEMMA PopupSteps ==
    ASSUME IInv, \/ AddSession \/ AddSessionEmits \/ AddSessionFails \/ ShareConnection
                 \/ LoginNeeded \/ EndSession
    PROVE  IInv'
  <1>0. /\ session \in Session /\ announcing \in Session /\ pageToken \in Session
        /\ logins \in 0..MaxLogins
    BY DEF IInv, Gateway, PopupPage
  <1>1. UNCHANGED <<executed, connect, known, sse, queries, unanswered, waits>>
    BY DEF AddSession, AddSessionEmits, AddSessionFails, ShareConnection, LoginNeeded,
           EndSession, gateway, provider
  <1>2. session' \in Session /\ announcing' \in Session /\ logins' \in 0..MaxLogins
    BY <1>0, SessionAssumption DEF AddSession, AddSessionEmits, AddSessionFails, ShareConnection,
       LoginNeeded, EndSession, gateway, provider, page, bounds, Session
  <1>3. PopupPage'
    <2>1. CASE AddSession BY <2>1, <1>0, SessionAssumption DEF AddSession, PopupPage, Popup, Session
    <2>2. CASE AddSessionEmits BY <2>2 DEF AddSessionEmits, IInv, PopupPage, page
    <2>3. CASE AddSessionFails BY <2>3 DEF AddSessionFails, IInv, PopupPage, Popup
    <2>4. CASE ShareConnection BY <2>4 DEF ShareConnection, IInv, PopupPage, Popup
    <2>5. CASE LoginNeeded BY <2>5, SessionAssumption DEF LoginNeeded, PopupPage, Popup, Session
    <2>6. CASE EndSession BY <2>6, <1>0, SessionAssumption DEF EndSession, PopupPage, Popup, Session
    <2> QED BY <2>1, <2>2, <2>3, <2>4, <2>5, <2>6
  <1>4. inbox' \in Seq(Login)
    <2>0. inbox \in Seq(Login) BY DEF IInv, Provider
    <2>1. CASE ShareConnection
      <3>1. pageToken \in Login
        BY <2>1, <1>0, SessionAssumption DEF ShareConnection, IInv, PopupPage, Authenticated, Session, Login
      <3> QED BY <2>0, <2>1, <3>1 DEF ShareConnection
    <2>2. CASE inbox' = inbox BY <2>0, <2>2
    <2> QED BY <2>1, <2>2 DEF AddSession, AddSessionEmits, AddSessionFails, LoginNeeded,
                              EndSession, provider
  <1>5. Events' /\ Truthful'
    <2>0. \A s \in Session : /\ StatusEvent(s) \in Event
                             /\ StatusEvent(s).type = "statusChanged"
      BY DEF StatusEvent, Event
    <2>1. 0 \in Session BY SessionAssumption DEF Session
    <2>2. CASE \E s \in Session : Emit(StatusEvent(s))
      BY <2>0, <2>2, <1>1, EmitTruthful
    <2>3. CASE stream' = stream BY <2>3, <1>1, KeepsTruthful
    <2> QED BY <1>0, <2>1, <2>2, <2>3 DEF AddSession, AddSessionEmits, AddSessionFails,
               ShareConnection, LoginNeeded, EndSession
  <1>6. Gateway' /\ Provider' /\ Waits' /\ ResolvedIsExecuted' /\ connect' \in ConnectState
    BY <1>1, <1>2, <1>4 DEF IInv, Gateway, Provider, Waits, ResolvedIsExecuted, waits
  <1> QED BY <1>2, <1>3, <1>5, <1>6 DEF IInv

\* The provider: its event stream, and the status it asks for.
LEMMA ProviderSteps ==
    ASSUME IInv, \/ AuthMessage \/ StreamOpens \/ StreamBreaks
                 \/ \E i \in DOMAIN queries :
                        StatusRead(i) \/ StatusFails(i) \/ StatusAnswered(i)
    PROVE  IInv'
  <1>0. /\ session \in Session /\ known \in Session /\ sse \in StreamState
        /\ inbox \in Seq(Login) /\ queries \in Seq(-1..MaxLogins) /\ connect \in ConnectState
    BY DEF IInv, Gateway, Provider
  <1>1. UNCHANGED <<gateway, waits, pageToken, logins>>
    BY DEF AuthMessage, StreamOpens, StreamBreaks, StatusRead, StatusFails, StatusAnswered,
           page, bounds
  <1>2. Events' /\ Truthful'
    <2>1. stream' = stream \/ stream' = <<>>
      BY DEF AuthMessage, StreamOpens, StreamBreaks, StatusRead, StatusFails, StatusAnswered
    <2> QED BY <2>1, <1>1, KeepsTruthful DEF gateway
  <1>3. Provider' /\ connect' \in ConnectState /\ PopupPage'
    <2>1. CASE AuthMessage
      <3>1. inbox' \in Seq(Login) /\ Head(inbox) \in Login BY <2>1, <1>0 DEF AuthMessage
      <3>2. sse' \in StreamState
        BY <2>1, <3>1, <1>0, SessionAssumption DEF AuthMessage, Reopened, StreamState, Session, Login
      <3>3. queries' \in Seq(-1..MaxLogins)
        <4>1. Asks \in Seq(-1..MaxLogins) BY SessionAssumption DEF Asks
        <4> QED BY <2>1, <4>1, <1>0 DEF AuthMessage
      <3> QED BY <2>1, <3>1, <3>2, <3>3 DEF AuthMessage, IInv, Provider, PopupPage, page
    <2>2. CASE StreamOpens
      <3>1. sse' \in StreamState BY <2>2, <1>0 DEF StreamOpens, StreamState
      <3> QED BY <2>2, <3>1 DEF StreamOpens, IInv, Provider, PopupPage, page
    <2>3. CASE StreamBreaks
      <3>1. sse' \in StreamState BY <2>3, <1>0 DEF StreamBreaks, StreamState
      <3> QED BY <2>3, <3>1 DEF StreamBreaks, IInv, Provider, PopupPage, page
    <2>4. ASSUME NEW i \in DOMAIN queries, StatusRead(i) PROVE Provider' /\ connect' \in ConnectState /\ PopupPage'
      <3>1. queries' \in Seq(-1..MaxLogins)
        <4>1. session \in -1..MaxLogins BY <1>0, SessionAssumption DEF Session
        <4> QED BY <2>4, <4>1, <1>0 DEF StatusRead
      <3> QED BY <2>4, <3>1 DEF StatusRead, IInv, Provider, PopupPage, page
    <2>5. ASSUME NEW i \in DOMAIN queries, StatusAnswered(i)
          PROVE Provider' /\ connect' \in ConnectState /\ PopupPage'
      <3>1. queries' \in Seq(-1..MaxLogins) BY <2>5, <1>0, RemoveAtType DEF StatusAnswered
      <3>2. queries[i] \in Session
        <4>0. i \in 1..Len(queries) BY <2>5, <1>0
        <4>1. queries[i] \in -1..MaxLogins BY <4>0, <1>0, ElementOfSeq
        <4> QED BY <2>5, <4>1, SessionAssumption DEF StatusAnswered, Session
      <3>3. connect' \in ConnectState /\ PopupPage'
        <4>1. CASE OnStatus(queries[i])
          BY <2>5, <3>2, <4>1, StatusReaches DEF StatusAnswered
        <4>2. CASE UNCHANGED <<connect, popup>>
          BY <2>5, <4>2 DEF StatusAnswered, IInv, PopupPage
        <4> QED BY <2>5, <4>1, <4>2 DEF StatusAnswered
      <3> QED BY <2>5, <3>1, <3>2, <3>3 DEF StatusAnswered, IInv, Provider
    <2>6. ASSUME NEW i \in DOMAIN queries, StatusFails(i) PROVE Provider' /\ connect' \in ConnectState /\ PopupPage'
      <3>1. queries' \in Seq(-1..MaxLogins) BY <2>6, <1>0, RemoveAtType DEF StatusFails
      <3> QED BY <2>6, <3>1 DEF StatusFails, IInv, Provider, PopupPage, page
    <2> QED BY <2>1, <2>2, <2>3, <2>4, <2>5, <2>6
  <1>4. Gateway' /\ Waits' /\ ResolvedIsExecuted' /\ logins' \in 0..MaxLogins
    BY <1>1 DEF IInv, Gateway, Waits, ResolvedIsExecuted, gateway, waits
  <1> QED BY <1>2, <1>3, <1>4 DEF IInv

\* prepareExecuteAndWait up to its event: no call resolves.
LEMMA WaitSteps ==
    ASSUME IInv, NEW c \in Wait,
           AskAndWait(c) \/ Prepares(c) \/ PrepareFails(c) \/ WaitBegins(c) \/ WaitTimesOut(c)
    PROVE  IInv'
  <1>1. UNCHANGED <<gateway, connect, provider, pageToken, logins>>
    BY DEF AskAndWait, Prepares, PrepareFails, WaitBegins, WaitTimesOut, page, bounds
  <1>2. PICK st \in WaitState : wait' = [wait EXCEPT ![c] = st]
    BY DEF AskAndWait, Prepares, PrepareFails, WaitBegins, WaitTimesOut, WaitState
  <1>3. Waits'
    BY <1>2 DEF IInv, Waits, AskAndWait, Prepares, PrepareFails, WaitBegins, WaitTimesOut
  <1>4. ResolvedIsExecuted'
    BY <1>1, <1>2, NameAssumption DEF IInv, Waits, ResolvedIsExecuted, gateway
  <1>5. Events' /\ Truthful'
    <2>1. TxEvent(c, "pending") \in Event BY EventTypes, SessionAssumption DEF Session
    <2>2. CASE Emit(TxEvent(c, "pending"))
      BY <1>1, <2>1, <2>2, EmitTruthful DEF TxEvent, gateway
    <2>3. CASE stream' = stream BY <1>1, <2>3, KeepsTruthful DEF gateway
    <2> QED BY <2>2, <2>3 DEF AskAndWait, Prepares, PrepareFails, WaitBegins, WaitTimesOut
  <1>6. PopupPage'
    <2>1. popup' = popup \/ popup' = "approve"
      BY DEF AskAndWait, Prepares, PrepareFails, WaitBegins, WaitTimesOut, page
    <2> QED BY <1>1, <2>1 DEF IInv, PopupPage, Popup
  <1> QED BY <1>1, <1>3, <1>4, <1>5, <1>6 DEF IInv, Gateway, Provider, gateway, provider

\* The gateway executes, and only then tells of it.
LEMMA ExecuteSteps ==
    ASSUME IInv, NEW c \in Wait \cup Elsewhere, Executes(c)
    PROVE  IInv'
  <1>1. executed' = executed \cup {c} BY DEF Executes
  <1>2. TxEvent(c, "executed") \in Event BY EventTypes, SessionAssumption DEF Session
  <1>3. Events' /\ Truthful' BY <1>1, <1>2, EmitTruthful DEF Executes, TxEvent
  <1>4. UNCHANGED <<session, announcing, connect, provider, page, waits, logins>>
    BY DEF Executes, bounds
  <1>5. Waits' /\ ResolvedIsExecuted'
    BY <1>1, <1>4 DEF IInv, Waits, ResolvedIsExecuted, waits
  <1> QED BY <1>1, <1>3, <1>4, <1>5 DEF IInv, Gateway, Provider, PopupPage, provider, page

\* The event that a call resolves with is truthful.
LEMMA ReceiveStep ==
    ASSUME IInv, Receive PROVE IInv'
  <1>1. UNCHANGED <<gateway, provider, pageToken, logins>> BY DEF Receive, bounds
  <1>2. PICK e : e = Head(stream) OBVIOUS
  <1>3. Events' /\ Truthful' /\ e \in Event /\ TellsExecuted(e)
    BY <1>1, <1>2, TailTruthful DEF Receive, gateway
  <1>4. CASE e.type = "statusChanged" /\ OnStatus(e.session) /\ UNCHANGED waits
    <2>1. connect' \in ConnectState /\ PopupPage'
      BY <1>1, <1>3, <1>4, StatusReaches DEF Event
    <2>2. Waits' /\ ResolvedIsExecuted'
      BY <1>1, <1>4 DEF IInv, Waits, ResolvedIsExecuted, waits, gateway
    <2> QED BY <1>1, <1>3, <2>1, <2>2 DEF IInv, Gateway, Provider, gateway, provider
  <1>5. CASE e.type = "txChanged" /\ OnTx(e) /\ UNCHANGED <<connect, popup>>
    <2>1. connect' \in ConnectState /\ PopupPage' BY <1>1, <1>5 DEF IInv, PopupPage
    <2>2. Waits' /\ ResolvedIsExecuted'
      <3>1. CASE e.status = "executed"
        <4>1. e.tx \in executed BY <1>3, <1>5, <3>1 DEF TellsExecuted
        <4>2. executed \subseteq Wait \cup Elsewhere /\ executed' = executed
          BY <1>1 DEF IInv, Gateway, gateway
        <4>3. wait' = [d \in Wait |-> Resolved(d, e)] /\ listening' = {}
          BY <1>5, <3>1 DEF OnTx, Resolves
        <4>4. \A d \in Wait : wait'[d] = e.tx \/ wait'[d] = wait[d]
          BY <4>3 DEF Resolved
        <4>5. \A d \in Wait : wait'[d] \in WaitState \cup Wait \cup Elsewhere
          BY <4>1, <4>2, <4>4 DEF IInv, Waits
        <4>6. Waits' BY <4>3, <4>5 DEF Waits
        <4>7. ResolvedIsExecuted' BY <4>1, <4>2, <4>4 DEF IInv, ResolvedIsExecuted
        <4> QED BY <4>6, <4>7
      <3>2. CASE e.status # "executed"
        BY <1>1, <1>5, <3>2 DEF OnTx, Resolves, IInv, Waits, ResolvedIsExecuted, waits, gateway
      <3> QED BY <3>1, <3>2
    <2> QED BY <1>1, <1>3, <2>1, <2>2 DEF IInv, Gateway, Provider, gateway, provider
  <1> QED BY <1>2, <1>4, <1>5 DEF Receive

LEMMA Invariance ==
    ASSUME IInv, [Next]_vars PROVE IInv'
  <1>1. CASE Next
    BY <1>1, ConnectSteps, PopupSteps, ProviderSteps, WaitSteps, ExecuteSteps, ReceiveStep
       DEF Next, Proceeds
  <1>2. CASE UNCHANGED vars
    <2>1. UNCHANGED <<gateway, connect, provider, stream, page, waits, logins>>
      BY <1>2 DEF vars, bounds
    <2>2. Events' /\ Truthful' BY <2>1, KeepsTruthful DEF gateway
    <2> QED BY <2>1, <2>2 DEF IInv, Gateway, Provider, PopupPage, Waits, ResolvedIsExecuted,
                              gateway, provider, page, waits
  <1> QED BY <1>1, <1>2

LEMMA Invariant == Spec => []IInv
  BY InitInvariant, Invariance, PTL DEF Spec

-----------------------------------------------------------------------------
(* Theorems *)

\* Types of the gateway, the provider, the popup and the SDK's calls, for any
\* logins, connects and transactions: what the popup shares is a session's token,
\* what the provider passes on is a session.
THEOREM TypeCorrect == Spec => []TypeOK
  <1>1. ASSUME IInv PROVE TypeOK
    <2>1. stream \in Seq(Event) BY <1>1 DEF IInv, Events
    <2>2. \A i \in DOMAIN stream : stream[i] \in Event BY <2>1
    <2> QED BY <1>1, <2>2 DEF IInv, Gateway, Provider, PopupPage, Waits, TypeOK,
               Event, ConnectState, StreamState, Popup
  <1> QED BY <1>1, Invariant, PTL

\* A prepareExecuteAndWait resolves only with a transaction the gateway has
\* executed, its own or another one that its listener took for it: for any number
\* of calls, tabs, logins, logouts and streams that break.
THEOREM ResolvedIsExecutedAlways == Spec => []ResolvedIsExecuted
  <1>1. ASSUME IInv PROVE ResolvedIsExecuted BY <1>1 DEF IInv
  <1> QED BY <1>1, Invariant, PTL

=============================================================================
