---------------------------- MODULE TxOrderProofs ----------------------------
(***************************************************************************)
(* Theorems about TxLifecycle with one connection, as of SQLite: the order *)
(* of the statements is what keeps the store right.                        *)
(*                                                                         *)
(* Statements run in the order they were issued, but a request runs two or *)
(* three of them, and each one that runs issues the next at the end of the *)
(* queue.  So what runs first is decided by how many rounds are left of a  *)
(* statement's turn, and by its place among those with as many (Before).   *)
(* The lemmas say what a step does to this order, what each action issues, *)
(* and what it does to a page.                                             *)
(***************************************************************************)
EXTENDS TxLifecycleProofs

\* No two calls have the command id c.
Fresh(c) == \A p, q \in Calls : CommandOf[p] = c /\ CommandOf[q] = c => p = q
FreshIds == \A c \in Command : Fresh(c)

\* How often a statement and those that follow it in its turn still run.
Rounds(s) ==
    CASE s.op = "session" -> IF s.cmd = "primaryToExecute" THEN 3 ELSE 2
      [] s.op \in {"look", "primaryToExecute"} -> 2
      [] OTHER -> 1

\* With one connection the turn of j ends before that of k.
Before(j, k) ==
    \/ Rounds(db[j]) < Rounds(db[k])
    \/ Rounds(db[j]) = Rounds(db[k]) /\ j < k

Has(X) == \E j \in DOMAIN db : db[j] \in X
AllBefore(X, Y) == \A j, k \in DOMAIN db : db[j] \in X /\ db[k] \in Y => Before(j, k)
EachAfter(X, Y) == \A k \in DOMAIN db : db[k] \in Y => \E j \in DOMAIN db : db[j] \in X /\ Before(j, k)

WritesFor(c) == {s \in Stmt : s.op \in Writes /\ s.cmd = c}
CallWrites(c) == {s \in WritesFor(c) : s.patch.payload \in Calls}
TurnsOf(t, W) == {s \in Stmt : s.by = t /\ Wants(s) \in W}

AtMostOne(X) == \A j, k \in DOMAIN db : db[j] \in X /\ db[k] \in X => j = k

\* A step that changes nothing about the statements of X and Y but their places.
Kept(X, Y) ==
    /\ Has(X)' <=> Has(X)
    /\ AllBefore(X, Y) => AllBefore(X, Y)'
    /\ EachAfter(X, Y) => EachAfter(X, Y)'
    /\ AtMostOne(X) => AtMostOne(X)'

\* Commands whose userUrl is out.
Used == {CommandOf[p] : p \in {q \in Calls : call[q] = "returned"}}

\* Page t is open at the userUrl of c.
OpenAt(t, c) == tab[t].at # "closed" /\ tab[t].cmd = c

\* No two pages are opened at one userUrl.
OnePageAt(c) == \A t, u \in Tabs : OpenAt(t, c) /\ OpenAt(u, c) => t = u
OnePage == \A c \in Command : OnePageAt(c)

\* A call reads the primary wallet once.
Calling ==
    \A p \in Calls :
        /\ AtMostOne(TurnsOf(p, {"primaryForCall"}))
        /\ Has(TurnsOf(p, {"primaryForCall"})) => call[p] = "wallet"

Origin(s) ==
    s.op \in Writes =>
        /\ s.cmd \in Used
        /\ s.patch.payload \in Calls =>
              s.patch.tx = s.patch.payload /\ s.cmd = CommandOf[s.patch.payload]

Origins ==
    /\ restarts \in Nat
    /\ Calling
    /\ \A k \in DOMAIN db : Origin(db[k])
    /\ \A t \in Tabs, c \in Command : OpenAt(t, c) => c \in Used

Finds ==
    restarts = 0 =>
        /\ ~crashed => \A c \in Used : rows[c] # NoRow \/ Has(WritesFor(c))
        /\ \A t \in Tabs : tab[t].status # "missing"
        /\ \A t \in Tabs, c \in Command : OpenAt(t, c) =>
                rows[c] # NoRow \/ EachAfter(WritesFor(c), TurnsOf(t, {"txForPage"}))

Loading ==
    \A t \in Tabs :
        /\ tab[t].party # NoWallet => tab[t].status # ""
        /\ Has(TurnsOf(t, {"txForPage"})) => tab[t].status = ""
        /\ tab[t].status = "" => EachAfter(TurnsOf(t, {"txForPage"}), TurnsOf(t, {"walletsForPage"}))
        /\ \A c \in Command : OpenAt(t, c) /\ Fresh(c) =>
             IF tab[t].status = "" THEN AllBefore(CallWrites(c), TurnsOf(t, {"txForPage"}))
                                   ELSE ~Has(CallWrites(c))

\* The payload that the row of c holds is that of call p.
Holds(c, p) == rows[c] # NoRow /\ rows[c].payload = p

\* A row that holds the payload of a call names that call's transaction.
Whole(row) == row # NoRow /\ row.payload \in Calls => row.tx = row.payload

\* A write that leaves the payload alone names its transaction.
Matches(s) ==
    s.op \in Writes /\ s.patch.payload = "keep" =>
        /\ ~Has(CallWrites(s.cmd))
        /\ \A p \in Calls : Holds(s.cmd, p) => s.patch.tx = p

Faithful ==
    /\ \A c \in Command, p \in Calls : Holds(c, p) => rows[c].tx = p /\ CommandOf[p] = c
    /\ \A k \in DOMAIN db : Matches(db[k])
    /\ \A t \in Tabs :
        /\ \A c \in Command, p \in Calls :
                OpenAt(t, c) /\ tab[t].status # "" /\ Holds(c, p) => tab[t].tx = p
        /\ tab[t].as # NoWallet => tab[t].sent = tab[t].tx /\ tab[t].status # ""
        /\ tab[t].at = "submitted" => Whole(tab[t].held)

(***************************************************************************)
(* With a command id of its own and one page, the writes of a command take *)
(* turns with the page, one at a time: what is signed or executed is       *)
(* signed or executed when the write before it is done.                    *)
(***************************************************************************)
Turns(c) ==
    \A t \in Tabs : OpenAt(t, c) =>
        /\ AllBefore(WritesFor(c), TurnsOf(t, PageReads \cup Steps))
        /\ tab[t].at \in {"atDriver", "signed", "recording", "submitted"} => ~Has(WritesFor(c))

Alternate == \A c \in Command : Fresh(c) /\ OnePageAt(c) => Turns(c) /\ AtMostOne(WritesFor(c))

\* Until the gateway restarts, only prepareExecute writes what is not there.
OneCallWrite == \A c \in Command : Fresh(c) => AtMostOne(CallWrites(c))
RowsThere ==
    restarts = 0 =>
        \A k \in DOMAIN db :
            db[k].op \in Writes /\ db[k].patch.payload \notin Calls /\ Fresh(db[k].cmd) =>
                rows[db[k].cmd] # NoRow

InsertsNew(c) == \A k \in DOMAIN db : db[k] \in WritesFor(c) /\ db[k].op = "insert" => rows[c] = NoRow

Inserts == \A c \in Command : Fresh(c) /\ (OnePageAt(c) \/ restarts = 0) => InsertsNew(c)

\* What is executed, or about to be recorded as such, was executed by a page.
FinishedBy(t, c) == tab[t].cmd = c /\ tab[t].at = "done"

Settled(c) ==
    /\ rows[c] # NoRow /\ rows[c].status = "executed" => \E t \in Tabs : FinishedBy(t, c)
    /\ \A k \in DOMAIN db :
        /\ db[k] \in WritesFor(c) /\ db[k].patch.status = "executed" => \E t \in Tabs : FinishedBy(t, c)
        /\ \A t \in Tabs : db[k] \in WritesFor(c) /\ FinishedBy(t, c) => db[k].patch.status = "executed"

Settles == \A c \in Command : Fresh(c) /\ OnePageAt(c) => Settled(c)

-----------------------------------------------------------------------------
(* Order *)

LEMMA RoundsType ==
    ASSUME NEW s
    PROVE  Rounds(s) \in 1..3
    BY DEF Rounds

LEMMA OneRunnable ==
    ASSUME OneConnection, NEW i \in Runnable
    PROVE  i = 1 /\ 1 \in DOMAIN db
    BY DEF Runnable

\* Where the statements are when the first one has gone.
LEMMA FifoPop ==
    ASSUME db \in Seq(Stmt), 1 \in DOMAIN db, RunAndIssue(1, <<>>)
    PROVE  /\ DOMAIN db \subseteq Nat /\ DOMAIN db' \subseteq Nat
           /\ \A k \in DOMAIN db' : k + 1 \in DOMAIN db /\ k + 1 # 1 /\ db'[k] = db[k + 1]
           /\ \A k \in DOMAIN db : k # 1 => k - 1 \in DOMAIN db' /\ db'[k - 1] = db[k]
<1>1. IsWithout(db', Stmt, db, 1, <<>>)
  <2>1. <<>> \in Seq(Stmt)
    OBVIOUS
  <2> QED
    BY <2>1, Ran
<1>2. /\ Len(db) \in Nat /\ DOMAIN db = 1..Len(db)
      /\ DOMAIN db' = 1..(Len(db) - 1)
    BY <1>1 DEF IsWithout
<1>3. \A k \in 1..(Len(db) - 1) : db'[k] = db[k + 1]
    BY <1>1 DEF IsWithout
<1>4. \A k \in DOMAIN db' : k + 1 \in DOMAIN db /\ k + 1 # 1 /\ db'[k] = db[k + 1]
    BY <1>2, <1>3
<1>5. ASSUME NEW k \in DOMAIN db, k # 1
      PROVE  k - 1 \in DOMAIN db' /\ db'[k - 1] = db[k]
  <2>1. k - 1 \in 1..(Len(db) - 1) /\ (k - 1) + 1 = k
    BY <1>2, <1>5
  <2> QED
    BY <1>2, <1>3, <2>1
<1> QED
    BY <1>2, <1>4, <1>5

\* Where they are when it is followed by s.
LEMMA FifoTurn ==
    ASSUME db \in Seq(Stmt), 1 \in DOMAIN db, NEW s \in Stmt, RunAndIssue(1, <<s>>)
    PROVE  /\ DOMAIN db' = DOMAIN db /\ DOMAIN db \subseteq Nat
           /\ Len(db) \in DOMAIN db /\ db'[Len(db)] = s
           /\ \A k \in DOMAIN db : k <= Len(db) /\ k >= 1
           /\ \A k \in DOMAIN db' : k # Len(db) =>
                k + 1 \in DOMAIN db /\ k + 1 # 1 /\ db'[k] = db[k + 1]
           /\ \A k \in DOMAIN db : k # 1 =>
                k - 1 \in DOMAIN db' /\ k - 1 # Len(db) /\ db'[k - 1] = db[k]
<1>1. IsWithout(db', Stmt, db, 1, <<s>>)
  <2>1. <<s>> \in Seq(Stmt)
    OBVIOUS
  <2> QED
    BY <2>1, Ran
<1>2. /\ Len(db) \in Nat /\ DOMAIN db = 1..Len(db) /\ Len(db) >= 1
      /\ DOMAIN db' = 1..Len(db)
    BY <1>1 DEF IsWithout
<1>3. \A k \in 1..(Len(db) - 1) : db'[k] = db[k + 1]
    BY <1>1 DEF IsWithout
<1>4. db'[Len(db)] = s
    BY <1>1, <1>2 DEF IsWithout
<1>5. \A k \in DOMAIN db' : k # Len(db) => k + 1 \in DOMAIN db /\ k + 1 # 1 /\ db'[k] = db[k + 1]
    BY <1>2, <1>3
<1>6. ASSUME NEW k \in DOMAIN db, k # 1
      PROVE  k - 1 \in DOMAIN db' /\ k - 1 # Len(db) /\ db'[k - 1] = db[k]
  <2>1. k - 1 \in 1..(Len(db) - 1) /\ (k - 1) + 1 = k /\ k - 1 # Len(db)
    BY <1>2, <1>6
  <2> QED
    BY <1>2, <1>3, <2>1
<1> QED
    BY <1>2, <1>4, <1>5, <1>6

\* Where they are when s comes.
LEMMA FifoPush ==
    ASSUME db \in Seq(Stmt), NEW s \in Stmt, Issue(<<s>>)
    PROVE  /\ DOMAIN db \subseteq Nat /\ DOMAIN db \subseteq DOMAIN db'
           /\ Len(db) + 1 \in DOMAIN db' /\ db'[Len(db) + 1] = s
           /\ \A k \in DOMAIN db : k < Len(db) + 1 /\ db'[k] = db[k]
           /\ \A k \in DOMAIN db' : k \in DOMAIN db \/ k = Len(db) + 1
<1>1. IsWith(db', Stmt, db, <<s>>)
  <2>1. <<s>> \in Seq(Stmt)
    OBVIOUS
  <2> QED
    BY <2>1, Issued
<1>2. /\ Len(db) \in Nat /\ DOMAIN db = 1..Len(db) /\ DOMAIN db' = 1..(Len(db) + 1)
    BY <1>1 DEF IsWith
<1>3. \A k \in 1..Len(db) : db'[k] = db[k]
    BY <1>1 DEF IsWith
<1>4. db'[Len(db) + 1] = s
    BY <1>1, <1>2 DEF IsWith
<1> QED
    BY <1>2, <1>3, <1>4

LEMMA FifoPushTwo ==
    ASSUME db \in Seq(Stmt), NEW r \in Stmt, NEW s \in Stmt, Issue(<<r, s>>)
    PROVE  /\ DOMAIN db \subseteq Nat /\ DOMAIN db \subseteq DOMAIN db' /\ Len(db) \in Nat
           /\ Len(db) + 1 \in DOMAIN db' /\ db'[Len(db) + 1] = r
           /\ Len(db) + 2 \in DOMAIN db' /\ db'[Len(db) + 2] = s
           /\ \A k \in DOMAIN db : k < Len(db) + 1 /\ db'[k] = db[k]
           /\ \A k \in DOMAIN db' : k \in DOMAIN db \/ k = Len(db) + 1 \/ k = Len(db) + 2
<1>1. IsWith(db', Stmt, db, <<r, s>>)
  <2>1. <<r, s>> \in Seq(Stmt)
    OBVIOUS
  <2> QED
    BY <2>1, Issued
<1>2. /\ Len(db) \in Nat /\ DOMAIN db = 1..Len(db) /\ DOMAIN db' = 1..(Len(db) + 2)
    BY <1>1 DEF IsWith
<1>3. \A k \in 1..Len(db) : db'[k] = db[k]
    BY <1>1 DEF IsWith
<1>4. db'[Len(db) + 1] = r /\ db'[Len(db) + 2] = s
    BY <1>1, <1>2 DEF IsWith
<1> QED
    BY <1>2, <1>3, <1>4

LEMMA LastRound ==
    ASSUME db \in Seq(Stmt), 1 \in DOMAIN db, Rounds(db[1]) = 1, NEW X, NEW Y, db[1] \in Y
    PROVE  /\ ~EachAfter(X, Y)
           /\ AllBefore(X, Y) => ~Has(X)
<1>1. \A j \in DOMAIN db : ~Before(j, 1)
    BY RoundsType DEF Before
<1> QED
    BY <1>1 DEF EachAfter, AllBefore, Has

LEMMA PopOrder ==
    ASSUME db \in Seq(Stmt), 1 \in DOMAIN db, RunAndIssue(1, <<>>), NEW X, NEW Y
    PROVE  /\ Has(X)' => Has(X)
           /\ Has(X) /\ db[1] \notin X => Has(X)'
           /\ AllBefore(X, Y) => AllBefore(X, Y)'
           /\ EachAfter(X, Y) /\ db[1] \notin X => EachAfter(X, Y)'
           /\ AtMostOne(X) => AtMostOne(X)' /\ (db[1] \in X => ~Has(X)')
           /\ db[1] \notin X => Kept(X, Y)
<1>1. /\ DOMAIN db \subseteq Nat /\ DOMAIN db' \subseteq Nat
      /\ \A k \in DOMAIN db' : k + 1 \in DOMAIN db /\ k + 1 # 1 /\ db'[k] = db[k + 1]
      /\ \A k \in DOMAIN db : k # 1 => k - 1 \in DOMAIN db' /\ db'[k - 1] = db[k]
    BY FifoPop
<1>2. Has(X)' => Has(X)
    BY <1>1 DEF Has
<1>3. Has(X) /\ db[1] \notin X => Has(X)'
    BY <1>1 DEF Has
<1>4. \A s : Rounds(s) \in 1..3
    BY RoundsType
<1>5. ASSUME AllBefore(X, Y)
      PROVE  AllBefore(X, Y)'
  <2> SUFFICES ASSUME NEW j \in DOMAIN db', NEW k \in DOMAIN db', db'[j] \in X, db'[k] \in Y
               PROVE  Before(j, k)'
    BY DEF AllBefore
  <2>1. /\ j + 1 \in DOMAIN db /\ k + 1 \in DOMAIN db
        /\ db'[j] = db[j + 1] /\ db'[k] = db[k + 1]
    BY <1>1
  <2>2. Before(j + 1, k + 1)
    BY <1>5, <2>1 DEF AllBefore
  <2> QED
    BY <1>1, <2>1, <2>2 DEF Before
<1>6. ASSUME EachAfter(X, Y), db[1] \notin X
      PROVE  EachAfter(X, Y)'
  <2> SUFFICES ASSUME NEW k \in DOMAIN db', db'[k] \in Y
               PROVE  \E j \in DOMAIN db' : db'[j] \in X /\ Before(j, k)'
    BY DEF EachAfter
  <2>1. k + 1 \in DOMAIN db /\ db'[k] = db[k + 1]
    BY <1>1
  <2>2. PICK j \in DOMAIN db : db[j] \in X /\ Before(j, k + 1)
    BY <1>6, <2>1 DEF EachAfter
  <2>3. j # 1 /\ j - 1 \in DOMAIN db' /\ db'[j - 1] = db[j]
    BY <1>1, <1>6, <2>2
  <2>4. Before(j - 1, k)'
    BY <1>1, <2>1, <2>2, <2>3 DEF Before
  <2> QED
    BY <2>2, <2>3, <2>4
<1>7. ASSUME AtMostOne(X)
      PROVE  AtMostOne(X)' /\ (db[1] \in X => ~Has(X)')
  <2>1. \A j \in DOMAIN db' : j \in Nat /\ j + 1 \in DOMAIN db /\ j + 1 # 1 /\ db'[j] = db[j + 1]
    BY <1>1
  <2> QED
    BY <1>7, <2>1 DEF AtMostOne, Has
<1> QED
    BY <1>2, <1>3, <1>5, <1>6, <1>7 DEF Kept

LEMMA TurnOrder ==
    ASSUME db \in Seq(Stmt), 1 \in DOMAIN db, NEW s \in Stmt, RunAndIssue(1, <<s>>),
           Rounds(s) = Rounds(db[1]) - 1,
           NEW X, NEW Y, s \in X <=> db[1] \in X, s \in Y <=> db[1] \in Y
    PROVE  Kept(X, Y)
<1> DEFINE last == Len(db)
<1>1. /\ DOMAIN db' = DOMAIN db /\ DOMAIN db \subseteq Nat
      /\ last \in DOMAIN db /\ db'[last] = s
      /\ \A k \in DOMAIN db : k <= last /\ k >= 1
      /\ \A k \in DOMAIN db' : k # last => k + 1 \in DOMAIN db /\ k + 1 # 1 /\ db'[k] = db[k + 1]
      /\ \A k \in DOMAIN db : k # 1 => k - 1 \in DOMAIN db' /\ k - 1 # last /\ db'[k - 1] = db[k]
    BY FifoTurn
<1> HIDE DEF last
<1> DEFINE Was(k) == IF k = last THEN 1 ELSE k + 1
<1>2. \A r : Rounds(r) \in 1..3
    BY RoundsType
<1>3. ASSUME NEW k \in DOMAIN db'
      PROVE  /\ Was(k) \in DOMAIN db
             /\ db'[k] \in X <=> db[Was(k)] \in X
             /\ db'[k] \in Y <=> db[Was(k)] \in Y
    BY <1>1
<1>4. ASSUME NEW j \in DOMAIN db
      PROVE  \E k \in DOMAIN db' : Was(k) = j
  <2>1. CASE j = 1
    BY <1>1, <2>1
  <2>2. CASE j # 1
    <3>1. j - 1 \in DOMAIN db' /\ Was(j - 1) = j
      BY <1>1, <2>2
    <3> QED
      BY <3>1
  <2> QED
    BY <2>1, <2>2
<1>5. ASSUME NEW j \in DOMAIN db', NEW k \in DOMAIN db', Before(Was(j), Was(k))
      PROVE  Before(j, k)'
  <2>1. j \in Nat /\ k \in Nat /\ last \in Nat /\ j <= last /\ k <= last
    BY <1>1
  <2>2. Rounds(db[1]) \in 1..3 /\ Rounds(db[Was(j)]) \in 1..3 /\ Rounds(db[Was(k)]) \in 1..3
    BY <1>2
  <2>3. /\ j = last => Rounds(db'[j]) = Rounds(db[1]) - 1
        /\ k = last => Rounds(db'[k]) = Rounds(db[1]) - 1
        /\ j # last => Rounds(db'[j]) = Rounds(db[Was(j)])
        /\ k # last => Rounds(db'[k]) = Rounds(db[Was(k)])
    BY <1>1
  <2>4. CASE j = last /\ k = last
    BY <1>5, <2>1, <2>2, <2>4 DEF Before
  <2>5. CASE j = last /\ k # last
    BY <1>5, <2>1, <2>2, <2>3, <2>5 DEF Before
  <2>6. CASE j # last /\ k = last
    BY <1>5, <2>1, <2>2, <2>3, <2>6 DEF Before
  <2>7. CASE j # last /\ k # last
    BY <1>5, <2>1, <2>2, <2>3, <2>7 DEF Before
  <2> QED
    BY <2>4, <2>5, <2>6, <2>7
<1> HIDE DEF Was
<1>6. Has(X)' <=> Has(X)
    BY <1>3, <1>4 DEF Has
<1>7. AllBefore(X, Y) => AllBefore(X, Y)'
    BY <1>3, <1>5 DEF AllBefore
<1>8. ASSUME EachAfter(X, Y)
      PROVE  EachAfter(X, Y)'
  <2> SUFFICES ASSUME NEW k \in DOMAIN db', db'[k] \in Y
               PROVE  \E j \in DOMAIN db' : db'[j] \in X /\ Before(j, k)'
    BY DEF EachAfter
  <2>1. PICK i \in DOMAIN db : db[i] \in X /\ Before(i, Was(k))
    BY <1>3, <1>8 DEF EachAfter
  <2>2. PICK j \in DOMAIN db' : Was(j) = i
    BY <1>4
  <2> QED
    BY <1>3, <1>5, <2>1, <2>2
<1>9. AtMostOne(X) => AtMostOne(X)'
  <2>1. \A j, k \in DOMAIN db' : Was(j) = Was(k) => j = k
    BY <1>1 DEF Was
  <2> QED
    BY <1>3, <2>1 DEF AtMostOne
<1> QED
    BY <1>6, <1>7, <1>8, <1>9 DEF Kept

LEMMA PushOrder ==
    ASSUME db \in Seq(Stmt), NEW s \in Stmt, Issue(<<s>>), NEW X, NEW Y
    PROVE  /\ Has(X)' <=> Has(X) \/ s \in X
           /\ AllBefore(X, Y) /\ (s \in X => s \notin Y /\ ~Has(Y))
                /\ (s \in Y => \A j \in DOMAIN db : db[j] \in X => Rounds(db[j]) <= Rounds(s))
                => AllBefore(X, Y)'
           /\ EachAfter(X, Y)
                /\ (s \in Y => \E j \in DOMAIN db : db[j] \in X /\ Rounds(db[j]) <= Rounds(s))
                => EachAfter(X, Y)'
           /\ AtMostOne(X) /\ (s \in X => ~Has(X)) => AtMostOne(X)'
           /\ s \notin X /\ s \notin Y => Kept(X, Y)
<1>0. PICK last : last = Len(db) + 1
    OBVIOUS
<1>1. /\ DOMAIN db \subseteq Nat /\ DOMAIN db \subseteq DOMAIN db'
      /\ last \in DOMAIN db' /\ db'[last] = s
      /\ \A k \in DOMAIN db : k < last /\ db'[k] = db[k]
      /\ \A k \in DOMAIN db' : k \in DOMAIN db \/ k = last
    BY <1>0, FifoPush
<1>2. \A r : Rounds(r) \in 1..3
    BY RoundsType
<1>3. Has(X)' <=> Has(X) \/ s \in X
    BY <1>1 DEF Has
<1>4. \A j, k \in DOMAIN db : Before(j, k) => Before(j, k)'
    BY <1>1 DEF Before
<1>5. \A j \in DOMAIN db : Rounds(db[j]) <= Rounds(s) => Before(j, last)'
    BY <1>1, <1>2 DEF Before
<1>6. AllBefore(X, Y) /\ (s \in X => s \notin Y /\ ~Has(Y))
        /\ (s \in Y => \A j \in DOMAIN db : db[j] \in X => Rounds(db[j]) <= Rounds(s))
        => AllBefore(X, Y)'
    BY <1>1, <1>4, <1>5 DEF AllBefore, Has
<1>7. EachAfter(X, Y)
        /\ (s \in Y => \E j \in DOMAIN db : db[j] \in X /\ Rounds(db[j]) <= Rounds(s))
        => EachAfter(X, Y)'
    BY <1>1, <1>4, <1>5 DEF EachAfter
<1>8. AtMostOne(X) /\ (s \in X => ~Has(X)) => AtMostOne(X)'
    BY <1>1 DEF AtMostOne, Has
<1> QED
    BY <1>3, <1>6, <1>7, <1>8 DEF Kept

LEMMA PushTwoOrder ==
    ASSUME db \in Seq(Stmt), NEW r \in Stmt, NEW s \in Stmt, Issue(<<r, s>>),
           Rounds(r) <= Rounds(s), NEW X, NEW Y
    PROVE  /\ Has(X)' <=> Has(X) \/ r \in X \/ s \in X
           /\ AllBefore(X, Y) /\ ((r \in X \/ s \in X) => ~Has(Y)) /\ s \notin X /\ (r \in X => r \notin Y)
                /\ (r \in Y => \A j \in DOMAIN db : db[j] \in X => Rounds(db[j]) <= Rounds(r))
                /\ (s \in Y => \A j \in DOMAIN db : db[j] \in X => Rounds(db[j]) <= Rounds(s))
                => AllBefore(X, Y)'
           /\ EachAfter(X, Y)
                /\ (r \in Y => \E j \in DOMAIN db : db[j] \in X /\ Rounds(db[j]) <= Rounds(r))
                /\ (s \in Y => r \in X \/ \E j \in DOMAIN db : db[j] \in X /\ Rounds(db[j]) <= Rounds(s))
                => EachAfter(X, Y)'
           /\ AtMostOne(X) /\ (r \in X \/ s \in X => ~Has(X)) /\ ~(r \in X /\ s \in X) => AtMostOne(X)'
           /\ r \notin X /\ s \notin X /\ r \notin Y /\ s \notin Y => Kept(X, Y)
<1>8. PICK m, n : m = Len(db) + 1 /\ n = Len(db) + 2
    OBVIOUS
<1>1. /\ DOMAIN db \subseteq Nat /\ DOMAIN db \subseteq DOMAIN db' /\ Len(db) \in Nat
      /\ m \in DOMAIN db' /\ db'[m] = r
      /\ n \in DOMAIN db' /\ db'[n] = s
      /\ \A k \in DOMAIN db : k < m /\ db'[k] = db[k]
      /\ \A k \in DOMAIN db' : k \in DOMAIN db \/ k = m \/ k = n
    BY <1>8, FifoPushTwo
<1>0. m < n /\ m \in Nat /\ n \in Nat
    BY <1>1, <1>8
<1>2. \A x : Rounds(x) \in 1..3
    BY RoundsType
<1>3. Has(X)' <=> Has(X) \/ r \in X \/ s \in X
    BY <1>1 DEF Has
<1>4. \A j, k \in DOMAIN db : Before(j, k) => Before(j, k)'
    BY <1>1 DEF Before
<1>5. \A j \in DOMAIN db : Rounds(db[j]) <= Rounds(r) => Before(j, m)'
    BY <1>0, <1>1, <1>2 DEF Before
<1>6. \A j \in DOMAIN db : Rounds(db[j]) <= Rounds(s) => Before(j, n)'
    BY <1>0, <1>1, <1>2 DEF Before
<1>7. Before(m, n)'
    BY <1>0, <1>1, <1>2 DEF Before
<1>9. AllBefore(X, Y) /\ ((r \in X \/ s \in X) => ~Has(Y)) /\ s \notin X /\ (r \in X => r \notin Y)
        /\ (r \in Y => \A j \in DOMAIN db : db[j] \in X => Rounds(db[j]) <= Rounds(r))
        /\ (s \in Y => \A j \in DOMAIN db : db[j] \in X => Rounds(db[j]) <= Rounds(s))
        => AllBefore(X, Y)'
    BY <1>1, <1>4, <1>5, <1>6, <1>7 DEF AllBefore, Has
<1>10. EachAfter(X, Y)
        /\ (r \in Y => \E j \in DOMAIN db : db[j] \in X /\ Rounds(db[j]) <= Rounds(r))
        /\ (s \in Y => r \in X \/ \E j \in DOMAIN db : db[j] \in X /\ Rounds(db[j]) <= Rounds(s))
        => EachAfter(X, Y)'
    BY <1>1, <1>4, <1>5, <1>6, <1>7 DEF EachAfter
<1>11. AtMostOne(X) /\ (r \in X \/ s \in X => ~Has(X)) /\ ~(r \in X /\ s \in X) => AtMostOne(X)'
    BY <1>1 DEF AtMostOne, Has
<1> QED
    BY <1>3, <1>9, <1>10, <1>11 DEF Kept

LEMMA SameOrder ==
    ASSUME db' = db, NEW X, NEW Y
    PROVE  Kept(X, Y)
    BY DEF Kept, Has, AllBefore, EachAfter, AtMostOne, Before

LEMMA NoOrder ==
    ASSUME db' = <<>>, NEW X, NEW Y
    PROVE  ~Has(X)' /\ AllBefore(X, Y)' /\ EachAfter(X, Y)' /\ AtMostOne(X)'
    BY DEF Has, AllBefore, EachAfter, AtMostOne

LEMMA NoneAfter ==
    ASSUME NEW X, NEW Y, ~Has(Y)
    PROVE  AllBefore(X, Y) /\ AllBefore(Y, X) /\ EachAfter(X, Y)
    BY DEF Has, AllBefore, EachAfter

-----------------------------------------------------------------------------
(* Steps with one connection *)

Kinds ==
    {WritesFor(c) : c \in Command} \cup {CallWrites(c) : c \in Command}
        \cup {TurnsOf(t, {"txForPage"}) : t \in Tabs}
        \cup {TurnsOf(t, {"walletsForPage"}) : t \in Tabs}
        \cup {TurnsOf(t, PageReads \cup Steps) : t \in Tabs}
        \cup {TurnsOf(p, {"primaryForCall"}) : p \in Calls}

OneTurn(r, s) ==
    \/ r.op \in Writes /\ s.op \in Writes /\ r.cmd = s.cmd /\ r.patch = s.patch
    \/ /\ r.op \notin Writes /\ s.op \notin Writes /\ r.by = s.by
       /\ Wants(r) = Wants(s) \/ {Wants(r), Wants(s)} \subseteq Steps

\* Two statements of one turn are in the same kinds.
LEMMA SameKinds ==
    ASSUME NEW r \in Stmt, NEW s \in Stmt, NEW X \in Kinds,
           OneTurn(r, s)
    PROVE  r \in X <=> s \in X
<1>1. ASSUME NEW c \in Command
      PROVE  (r \in WritesFor(c) <=> s \in WritesFor(c)) /\ (r \in CallWrites(c) <=> s \in CallWrites(c))
    BY DEF WritesFor, CallWrites, OneTurn
<1>2. ASSUME NEW t, NEW W,
             W \in {{"txForPage"}, {"walletsForPage"}, PageReads \cup Steps, {"primaryForCall"}}
      PROVE  r \in TurnsOf(t, W) <=> s \in TurnsOf(t, W)
  <2>1. CASE r.op \in Writes
    <3>1. s.op \in Writes /\ Wants(r) = r.op /\ Wants(s) = s.op
      BY <2>1 DEF OneTurn, Wants, Writes
    <3>2. Wants(r) \notin W /\ Wants(s) \notin W
      BY <1>2, <2>1, <3>1 DEF Writes, PageReads, Steps
    <3> QED
      BY <3>2 DEF TurnsOf
  <2>2. CASE r.op \notin Writes
    <3>1. r.by = s.by /\ (Wants(r) = Wants(s) \/ {Wants(r), Wants(s)} \subseteq Steps)
      BY <2>2 DEF OneTurn
    <3>2. Wants(r) \in W <=> Wants(s) \in W
      BY <1>2, <3>1 DEF PageReads, Steps
    <3> QED
      BY <3>1, <3>2 DEF TurnsOf
  <2> QED
    BY <2>1, <2>2
<1>3. \/ \E c \in Command : X \in {WritesFor(c), CallWrites(c)}
      \/ \E t \in Tabs : X \in {TurnsOf(t, {"txForPage"}), TurnsOf(t, {"walletsForPage"}),
                              TurnsOf(t, PageReads \cup Steps)}
      \/ \E p \in Calls : X = TurnsOf(p, {"primaryForCall"})
    BY DEF Kinds
<1> QED
    BY <1>1, <1>2, <1>3

TurnStep(i) == SessionRead(i) \/ LookAtRow(i) \/ PrimaryToExecute(i)

PopStep(i) ==
    \/ UpdateRow(i) \/ InsertRow(i) \/ WalletForCall(i) \/ TxForPage(i)
    \/ WalletsForPage(i) \/ WalletToSign(i) \/ TxToSign(i) \/ TxToExecute(i)

LEMMA TurnKeeps ==
    ASSUME OneConnection, IInv, NEW i \in Runnable, TurnStep(i),
           NEW X \in Kinds, NEW Y \in Kinds
    PROVE  Kept(X, Y)
<1>1. i = 1 /\ 1 \in DOMAIN db /\ db \in Seq(Stmt)
    BY OneRunnable DEF IInv, Statements
<1> DEFINE r == db[1]
<1>2. r \in Stmt /\ GoodStmt(r)
    BY <1>1, GoodMember
<1> HIDE DEF r
<1>3. CASE SessionRead(i)
  <2> DEFINE s == Query(r.cmd, r.by)
  <2>1. r.op = "session" /\ RunAndIssue(1, <<s>>)
    BY <1>1, <1>3 DEF SessionRead, r
  <2>2. r.cmd \in Reads /\ r.by \in By
    BY <1>2, <2>1 DEF GoodStmt, Stmt
  <2>3. s \in Stmt /\ s.op = r.cmd /\ s.by = r.by
    BY <2>2, QueryType
  <2> HIDE DEF s
  <2>4. Rounds(s) = Rounds(r) - 1
    BY <2>1, <2>2, <2>3 DEF Rounds, Reads, PageReads, Steps
  <2>8. s.op # "session" /\ s.op \notin Writes
    BY <2>2, <2>3 DEF Reads, PageReads, Steps, Writes
  <2>5. OneTurn(r, s)
    <3>1. Wants(r) = r.cmd /\ Wants(s) = r.cmd
      BY <2>1, <2>3, <2>8 DEF Wants
    <3>2. r.op \notin Writes
      BY <2>1 DEF Writes
    <3> QED
      BY <2>3, <2>8, <3>1, <3>2 DEF OneTurn
  <2>6. r \in X <=> s \in X
    BY <1>2, <2>3, <2>5, SameKinds, Zenon
  <2>7. r \in Y <=> s \in Y
    BY <1>2, <2>3, <2>5, SameKinds, Zenon
  <2> QED
    BY <1>1, <2>1, <2>3, <2>4, <2>6, <2>7, TurnOrder DEF r
<1>4. CASE LookAtRow(i)
  <2> DEFINE s == WriteAfterLook(r.cmd, r.patch)
  <2>1. r.op = "look" /\ RunAndIssue(1, <<s>>)
    BY <1>1, <1>4 DEF LookAtRow, r
  <2>2. r.cmd \in Command /\ r.patch \in Patch
    BY <1>2, <2>1 DEF GoodStmt, Stmt, Writes
  <2>3. s \in Stmt /\ s.op \in {"insert", "update"} /\ s.cmd = r.cmd /\ s.patch = r.patch
    BY <2>2, WriteType DEF WriteAfterLook, Writes
  <2> HIDE DEF s
  <2>4. Rounds(s) = Rounds(r) - 1
    BY <2>1, <2>3 DEF Rounds
  <2>5. OneTurn(r, s)
    BY <2>1, <2>3 DEF OneTurn, Writes
  <2>6. r \in X <=> s \in X
    BY <1>2, <2>3, <2>5, SameKinds, Zenon
  <2>7. r \in Y <=> s \in Y
    BY <1>2, <2>3, <2>5, SameKinds, Zenon
  <2> QED
    BY <1>1, <2>1, <2>3, <2>4, <2>6, <2>7, TurnOrder DEF r
<1>5. CASE PrimaryToExecute(i)
  <2> DEFINE s == Query("txToExecute", r.by)
  <2>1. r.op = "primaryToExecute" /\ RunAndIssue(1, <<s>>)
    BY <1>1, <1>5 DEF PrimaryToExecute, r
  <2>2. r.by \in By
    BY <1>2 DEF Stmt
  <2>3. s \in Stmt /\ s.op = "txToExecute" /\ s.by = r.by
    BY <2>2, QueryType DEF Reads, Steps
  <2> HIDE DEF s
  <2>4. Rounds(s) = Rounds(r) - 1
    BY <2>1, <2>3 DEF Rounds
  <2>5. OneTurn(r, s)
    BY <2>1, <2>3 DEF OneTurn, Wants, Steps, Writes
  <2>6. r \in X <=> s \in X
    BY <1>2, <2>3, <2>5, SameKinds, Zenon
  <2>7. r \in Y <=> s \in Y
    BY <1>2, <2>3, <2>5, SameKinds, Zenon
  <2> QED
    BY <1>1, <2>1, <2>3, <2>4, <2>6, <2>7, TurnOrder DEF r
<1> QED
    BY <1>3, <1>4, <1>5 DEF TurnStep

LEMMA PopKeeps ==
    ASSUME OneConnection, IInv, NEW i \in Runnable, PopStep(i), NEW X, NEW Y
    PROVE  /\ i = 1 /\ 1 \in DOMAIN db /\ db[1] \in Stmt /\ GoodStmt(db[1]) /\ Rounds(db[1]) = 1
           /\ Has(X)' => Has(X)
           /\ Has(X) /\ db[1] \notin X => Has(X)'
           /\ AllBefore(X, Y) => AllBefore(X, Y)'
           /\ EachAfter(X, Y) /\ db[1] \notin X => EachAfter(X, Y)'
           /\ AtMostOne(X) => AtMostOne(X)' /\ (db[1] \in X => ~Has(X)')
           /\ db[1] \notin X => Kept(X, Y)
<1>1. i = 1 /\ 1 \in DOMAIN db /\ db \in Seq(Stmt)
    BY OneRunnable DEF IInv, Statements
<1>2. RunAndIssue(1, <<>>)
    BY <1>1 DEF PopStep, UpdateRow, InsertRow, WalletForCall, TxForPage, WalletsForPage,
       WalletToSign, TxToSign, TxToExecute
<1>3. Rounds(db[1]) = 1
    BY <1>1 DEF PopStep, UpdateRow, InsertRow, WalletForCall, TxForPage, WalletsForPage,
       WalletToSign, TxToSign, TxToExecute, Rounds
<1> QED
    BY <1>1, <1>2, <1>3, PopOrder, GoodMember

\* What a new statement is, and of which kinds.
NewRequest(s, by, op) ==
    /\ s \in Stmt /\ s.op = (IF op = "txToSign" THEN op ELSE "session")
    /\ Rounds(s) = (CASE op = "primaryToExecute" -> 3 [] op = "txToSign" -> 1 [] OTHER -> 2)
    /\ \A c : s \notin WritesFor(c) /\ s \notin CallWrites(c)
    /\ \A t, W : s \in TurnsOf(t, W) <=> t = by /\ op \in W

NewWrite(s, c, patch) ==
    /\ s \in Stmt /\ s.op = "look" /\ s.cmd = c /\ s.patch = patch
    /\ Rounds(s) = 2
    /\ \A d : /\ s \in WritesFor(d) <=> d = c
              /\ s \in CallWrites(d) <=> d = c /\ patch.payload \in Calls
    /\ \A t, W : W \subseteq Reads => s \notin TurnsOf(t, W)

LEMMA RequestKind ==
    ASSUME NEW op \in Reads \ {"txToSign"}, NEW by \in By
    PROVE  NewRequest(Request(op, by), by, op)
<1>1. /\ Request(op, by) \in Stmt /\ Request(op, by).op = "session"
      /\ Request(op, by).by = by /\ Request(op, by).cmd = op
    BY RequestType
<1> DEFINE s == Request(op, by)
<1> HIDE DEF s
<1>2. \A c : s \notin WritesFor(c) /\ s \notin CallWrites(c)
    BY <1>1 DEF WritesFor, CallWrites, Writes, s
<1>3. Wants(s) = op
    BY <1>1 DEF Wants, s
<1>4. \A t, W : s \in TurnsOf(t, W) <=> t = by /\ op \in W
    BY <1>1, <1>3 DEF TurnsOf, s
<1>5. Rounds(s) = (IF op = "primaryToExecute" THEN 3 ELSE 2)
    BY <1>1 DEF Rounds, s
<1> QED
    BY <1>1, <1>2, <1>4, <1>5 DEF s, NewRequest

\* sign asks for the row without a session of its own.
LEMMA TxToSignKind ==
    ASSUME NEW by \in By
    PROVE  NewRequest(Query("txToSign", by), by, "txToSign")
<1> DEFINE s == Query("txToSign", by)
<1>1. s \in Stmt /\ s.op = "txToSign" /\ s.by = by
    BY QueryType DEF Reads, Steps
<1> HIDE DEF s
<1>2. \A c : s \notin WritesFor(c) /\ s \notin CallWrites(c)
    BY <1>1 DEF WritesFor, CallWrites, Writes
<1>3. \A t, W : s \in TurnsOf(t, W) <=> t = by /\ "txToSign" \in W
    BY <1>1 DEF TurnsOf, Wants
<1>4. Rounds(s) = 1
    BY <1>1 DEF Rounds
<1> QED
    BY <1>1, <1>2, <1>3, <1>4 DEF s, NewRequest

LEMMA WriteKind ==
    ASSUME NEW c \in Command, NEW patch \in Patch
    PROVE  NewWrite(Write("look", c, patch), c, patch)
<1> DEFINE s == Write("look", c, patch)
<1> HIDE DEF s
<1>1. s \in Stmt /\ s.op = "look" /\ s.cmd = c /\ s.patch = patch
    BY WriteType DEF Writes, s
<1>2. \A d : (s \in WritesFor(d) <=> d = c) /\ (s \in CallWrites(d) <=> d = c /\ patch.payload \in Calls)
    BY <1>1 DEF WritesFor, CallWrites, Writes
<1>3. Wants(s) = "look"
    BY <1>1 DEF Wants
<1>4. \A t, W : W \subseteq Reads => s \notin TurnsOf(t, W)
    BY <1>3 DEF TurnsOf, Reads, PageReads, Steps
<1>5. Rounds(s) = 2
    BY <1>1 DEF Rounds
<1> QED
    BY <1>1, <1>2, <1>4, <1>5 DEF s, NewWrite

\* What each action issues.
LEMMA CallPushes ==
    ASSUME NEW p \in Calls
    PROVE  /\ PrepareExecute(p) => \E s : NewRequest(s, p, "primaryForCall") /\ Issue(<<s>>)
           /\ Prepared(p) => \E s : /\ NewWrite(s, CommandOf[p], [status |-> "pending", tx |-> p, payload |-> p])
                                    /\ Issue(<<s>>)
<1>1. PrepareExecute(p) => \E s : NewRequest(s, p, "primaryForCall") /\ Issue(<<s>>)
    BY RequestKind DEF PrepareExecute, Reads, By
<1>2. CommandOf[p] \in Command /\ [status |-> "pending", tx |-> p, payload |-> p] \in Patch
    BY LifecycleAssumption DEF Patch
<1> QED
    BY <1>1, <1>2, WriteKind DEF Prepared

LEMMA PagePushes ==
    ASSUME IInv, NEW t \in Tabs, NEW c, c = tab[t].cmd, NEW x, x = tab[t].sig, NEW y, y = tab[t].held.tx
    PROVE  /\ \A p \in Calls : OpenPage(t, p) =>
                \E r, s : /\ NewRequest(r, t, "txForPage") /\ NewRequest(s, t, "walletsForPage")
                          /\ Issue(<<r, s>>)
           /\ Approve(t) => \E s : NewRequest(s, t, "walletToSign") /\ Issue(<<s>>)
           /\ SignNow(t) => \E s : NewRequest(s, t, "txToSign") /\ Issue(<<s>>)
           /\ AskToExecute(t) => \E s : NewRequest(s, t, "primaryToExecute") /\ Issue(<<s>>)
           /\ RecordSigned(t) =>
                /\ c \in Command
                /\ \E s : /\ NewWrite(s, c, [status |-> "signed", tx |-> x, payload |-> "keep"])
                          /\ Issue(<<s>>)
           /\ Executed(t) => /\ c \in Command
                             /\ \E s : /\ NewWrite(s, c, [status |-> "executed", tx |-> y, payload |-> "result"])
                                       /\ Issue(<<s>>)
<1>1. \A op \in Reads \ {"txToSign"} : NewRequest(Request(op, t), t, op)
    BY RequestKind DEF By
<1>2. {"txForPage", "walletsForPage", "walletToSign", "primaryToExecute"} \subseteq Reads \ {"txToSign"}
    BY DEF Reads, PageReads, Steps
<1>3. tab[t] \in Page /\ GoodTab(tab[t])
    BY DEF IInv, Types, Pages
<1>4. ASSUME RecordSigned(t)
      PROVE  c \in Command /\ [status |-> "signed", tx |-> x, payload |-> "keep"] \in Patch
    BY <1>3, <1>4 DEF RecordSigned, GoodTab, Page, Patch
<1>5. ASSUME Executed(t)
      PROVE  c \in Command /\ [status |-> "executed", tx |-> y, payload |-> "result"] \in Patch
    BY <1>3, <1>5 DEF Executed, GoodTab, Row, Patch
<1>6. RecordSigned(t) =>
        /\ c \in Command
        /\ \E s : /\ NewWrite(s, c, [status |-> "signed", tx |-> x, payload |-> "keep"])
                  /\ Issue(<<s>>)
    BY <1>4, WriteKind DEF RecordSigned
<1>7. Executed(t) => /\ c \in Command
                     /\ \E s : /\ NewWrite(s, c, [status |-> "executed", tx |-> y, payload |-> "result"])
                               /\ Issue(<<s>>)
    BY <1>5, WriteKind DEF Executed, Done
<1>8. \A p \in Calls : OpenPage(t, p) =>
            \E r, s : /\ NewRequest(r, t, "txForPage") /\ NewRequest(s, t, "walletsForPage")
                      /\ Issue(<<r, s>>)
    BY <1>1, <1>2 DEF OpenPage
<1>9. Approve(t) => \E s : NewRequest(s, t, "walletToSign") /\ Issue(<<s>>)
    BY <1>1, <1>2 DEF Approve
<1>10. AskToExecute(t) => \E s : NewRequest(s, t, "primaryToExecute") /\ Issue(<<s>>)
    BY <1>1, <1>2 DEF AskToExecute
<1>11. SignNow(t) => \E s : NewRequest(s, t, "txToSign") /\ Issue(<<s>>)
    BY TxToSignKind DEF SignNow, By
<1> QED
    BY <1>6, <1>7, <1>8, <1>9, <1>10, <1>11

LEMMA KindOfWrite ==
    ASSUME NEW s \in Stmt
    PROVE  /\ \A c : s \in WritesFor(c) <=> s.op \in Writes /\ s.cmd = c
           /\ \A c : s \in CallWrites(c) <=> s \in WritesFor(c) /\ s.patch.payload \in Calls
           /\ \A t, W : s \in TurnsOf(t, W) <=> s.by = t /\ Wants(s) \in W
           /\ \A t, W : s.op \in Writes /\ W \subseteq Reads => s \notin TurnsOf(t, W)
<1>1. \A c : s \in WritesFor(c) <=> s.op \in Writes /\ s.cmd = c
    BY DEF WritesFor
<1>2. \A c : s \in CallWrites(c) <=> s \in WritesFor(c) /\ s.patch.payload \in Calls
    BY DEF CallWrites
<1>3. \A t, W : s \in TurnsOf(t, W) <=> s.by = t /\ Wants(s) \in W
    BY DEF TurnsOf
<1>4. s.op \in Writes => Wants(s) \notin Reads
    BY DEF Wants, Writes, Reads, PageReads, Steps
<1> QED
    BY <1>1, <1>2, <1>3, <1>4

PushStep ==
    \/ \E p \in Calls : PrepareExecute(p) \/ Prepared(p)
    \/ \E t \in Tabs : \/ Approve(t) \/ SignNow(t) \/ RecordSigned(t) \/ AskToExecute(t) \/ Executed(t)
                       \/ \E p \in Calls : OpenPage(t, p)

LEMMA StepKinds ==
    ASSUME [Next]_vars
    PROVE  \/ \E i \in Runnable : TurnStep(i)
           \/ \E i \in Runnable : PopStep(i)
           \/ PushStep
           \/ db' = db
           \/ db' = <<>> /\ ((\E i \in Runnable : InsertConflicts(i)) \/ Restart)
<1>1. CASE UNCHANGED vars
    BY <1>1 DEF vars, store
<1>2. CASE RunStatement
  <2>1. PICK i \in Runnable :
            \/ SessionRead(i) \/ LookAtRow(i) \/ UpdateRow(i) \/ InsertRow(i)
            \/ InsertConflicts(i) \/ WalletForCall(i) \/ TxForPage(i) \/ WalletsForPage(i)
            \/ WalletToSign(i) \/ TxToSign(i) \/ PrimaryToExecute(i) \/ TxToExecute(i)
    BY <1>2, Zenon DEF RunStatement
  <2>2. TurnStep(i) \/ PopStep(i) \/ InsertConflicts(i)
    BY <2>1 DEF TurnStep, PopStep
  <2>3. InsertConflicts(i) => db' = <<>>
    BY DEF InsertConflicts
  <2> QED
    BY <2>2, <2>3
<1>3. CASE \E p \in Calls : PrepareExecute(p) \/ Answered(p)
  <2>1. PICK p \in Calls : PrepareExecute(p) \/ Prepared(p) \/ PrepareFails(p)
    BY <1>3 DEF Answered
  <2>2. PrepareFails(p) => db' = db
    BY DEF PrepareFails, store
  <2> QED
    BY <2>1, <2>2 DEF PushStep
<1>4. CASE \E t \in Tabs : \/ \E p \in Calls : OpenPage(t, p)
                           \/ Approve(t) \/ Signs(t) \/ AskToExecute(t) \/ Unheard(t)
                           \/ Executing(t)
  <2>1. PICK t \in Tabs : \/ \E p \in Calls : OpenPage(t, p)
                          \/ Approve(t) \/ SignLater(t) \/ SignNow(t) \/ RecordSigned(t)
                          \/ SignFails(t) \/ AskToExecute(t) \/ Unheard(t)
                          \/ Executed(t) \/ Refused(t) \/ AnswerLost(t)
    BY <1>4, Zenon DEF Signs, Executing
  <2>2. SignLater(t) \/ SignFails(t) \/ Unheard(t) \/ Refused(t) \/ AnswerLost(t) => db' = db
    BY DEF SignLater, SignFails, Unheard, Refused, AnswerLost, ExecuteThrows, store
  <2> QED
    BY <2>1, <2>2 DEF PushStep
<1>5. CASE \E w \in Wallet : SwitchPrimary(w)
    BY <1>5 DEF SwitchPrimary
<1>6. CASE Restart
    BY <1>6 DEF Restart
<1> QED
    BY <1>1, <1>2, <1>3, <1>4, <1>5, <1>6 DEF Next

-----------------------------------------------------------------------------
(* What a step does to a page *)

Fields == {"at", "cmd", "tx", "status", "party", "sent", "as", "sig", "by", "held"}

SameBut(t, F) == \A f \in Fields \ F : tab'[t][f] = tab[t][f]

PageOpens(t) ==
    /\ \E p \in Calls : OpenPage(t, p) /\ tab'[t].cmd = CommandOf[p]
    /\ tab[t].at = "closed" /\ tab'[t].at = "open"
    /\ SameBut(t, {"at", "cmd"})

PageLoads(t) ==
    /\ \E i \in Runnable : TxForPage(i) /\ db[i].by = t
    /\ IF rows[tab[t].cmd] = NoRow
       THEN tab'[t].status = "missing" /\ tab'[t].tx = tab[t].tx
       ELSE tab'[t].status = rows[tab[t].cmd].status /\ tab'[t].tx = rows[tab[t].cmd].tx
    /\ SameBut(t, {"tx", "status"})

PageKnowsParty(t) ==
    /\ \E i \in Runnable : WalletsForPage(i) /\ db[i].by = t
    /\ SameBut(t, {"party"})

PageApproves(t) ==
    /\ Approve(t)
    /\ tab'[t].at = "signing" /\ tab'[t].sent = tab[t].tx /\ tab'[t].as = tab[t].party
    /\ SameBut(t, {"at", "sent", "as"})

PageSigns(t) ==
    /\ \E i \in Runnable : WalletToSign(i) /\ db[i].by = t
    /\ tab[t].at = "signing" /\ tab'[t].at \in {"error", "atDriver"}
    /\ tab'[t].at = "atDriver" => tab[t].as # NoWallet
    /\ SameBut(t, {"at"})

PageSigned(t) ==
    /\ \/ SignLater(t) /\ tab[t].at = "atDriver" /\ tab'[t].at = "answered"
       \/ SignNow(t) /\ tab[t].at = "atDriver" /\ tab'[t].at = "signed"
       \/ /\ \E i \in Runnable : TxToSign(i) /\ db[i].by = t
          /\ tab[t].at = "signed" /\ tab'[t].at = "recording"
       \/ RecordSigned(t) /\ tab[t].at = "recording" /\ tab'[t].at = "answered"
       \/ AskToExecute(t) /\ tab[t].at = "answered" /\ tab'[t].at = "executing"
    /\ SameBut(t, {"at", "sig"})

PageStops(t) ==
    /\ SignFails(t) \/ Unheard(t) \/ Refused(t) \/ AnswerLost(t) \/ Restart
    /\ tab[t].at \in {"signing", "atDriver", "signed", "recording", "answered", "executing",
                     "submitted"}
    /\ tab'[t].at = "error"
    /\ SameBut(t, {"at"})

PageExecutes(t) ==
    /\ \E i \in Runnable : PrimaryToExecute(i) /\ db[i].by = t
    /\ SameBut(t, {"by"})

PageSubmits(t) ==
    /\ \E i \in Runnable : TxToExecute(i) /\ db[i].by = t
    /\ tab[t].at = "executing" /\ tab'[t].held = rows[tab[t].cmd]
    /\ tab'[t].at = (IF rows[tab[t].cmd] = NoRow THEN "error" ELSE "submitted")
    /\ SameBut(t, {"at", "held"})

PageFinishes(t) ==
    /\ Executed(t)
    /\ tab[t].at = "submitted" /\ tab'[t].at = "done" /\ tab'[t].status = "executed"
    /\ SameBut(t, {"at", "status"})

LEMMA TurnOfPage ==
    ASSUME IInv, NEW i \in Runnable, db[i].op \in PageReads \cup Steps
    PROVE  /\ db[i].by \in Tabs /\ tab[db[i].by].at # "closed"
           /\ db[i].op = "walletToSign" => tab[db[i].by].at = "signing"
           /\ db[i].op = "txToSign" => tab[db[i].by].at = "signed"
           /\ db[i].op \in {"primaryToExecute", "txToExecute"} => tab[db[i].by].at = "executing"
<1>1. GoodStmt(db[i])
    BY GoodMember DEF Runnable
<1>2. Wants(db[i]) = db[i].op
    BY DEF Wants, PageReads, Steps
<1> QED
    BY <1>1, <1>2 DEF GoodStmt

LEMMA PageFields ==
    ASSUME IInv, [Next]_vars, NEW t \in Tabs
    PROVE  \/ SameBut(t, {})
           \/ PageOpens(t) \/ PageLoads(t) \/ PageKnowsParty(t) \/ PageApproves(t)
           \/ PageSigns(t) \/ PageSigned(t) \/ PageStops(t) \/ PageExecutes(t)
           \/ PageSubmits(t) \/ PageFinishes(t)
<1> DEFINE Moves == \/ SameBut(t, {})
                    \/ PageOpens(t) \/ PageLoads(t) \/ PageKnowsParty(t) \/ PageApproves(t)
                    \/ PageSigns(t) \/ PageSigned(t) \/ PageStops(t) \/ PageExecutes(t)
                    \/ PageSubmits(t) \/ PageFinishes(t)
<1>0. tab \in [Tabs -> Page] /\ tab[t] \in Page
    BY DEF IInv, Types
<1>1. tab'[t] = tab[t] => Moves
    BY DEF SameBut
<1>2. ASSUME NEW u \in Tabs, NEW p \in Calls, OpenPage(u, p)
      PROVE  Moves
  <2>1. u # t => tab'[t] = tab[t]
    BY <1>0, <1>2 DEF OpenPage
  <2>2. u = t => PageOpens(t)
    BY <1>0, <1>2 DEF OpenPage, PageOpens, SameBut, Fields, Page
  <2> QED
    BY <1>1, <2>1, <2>2
<1>3. ASSUME NEW i \in Runnable, TxForPage(i)
      PROVE  Moves
  <2>1. db[i].by \in Tabs
    BY <1>3, TurnOfPage DEF TxForPage, PageReads
  <2>2. db[i].by # t => tab'[t] = tab[t]
    BY <1>0, <1>3, <2>1 DEF TxForPage
  <2>3. ASSUME db[i].by = t
        PROVE  PageLoads(t)
    <3>1. CASE rows[tab[t].cmd] = NoRow
      <4>1. tab' = [tab EXCEPT ![t].status = "missing"]
        BY <1>3, <2>3, <3>1 DEF TxForPage
      <4>2. tab'[t].status = "missing" /\ SameBut(t, {"status"})
        BY <1>0, <4>1 DEF SameBut, Fields, Page
      <4> QED
        BY <1>3, <2>3, <3>1, <4>2 DEF PageLoads, SameBut, Fields
    <3>2. CASE rows[tab[t].cmd] # NoRow
      <4>1. PICK row : row = rows[tab[t].cmd]
        OBVIOUS
      <4>2. tab' = [tab EXCEPT ![t].tx = row.tx, ![t].status = row.status]
        BY <1>3, <2>3, <3>2, <4>1 DEF TxForPage
      <4>3. tab'[t].status = row.status /\ tab'[t].tx = row.tx /\ SameBut(t, {"tx", "status"})
        BY <1>0, <4>2 DEF SameBut, Fields, Page
      <4> QED
        BY <1>3, <2>3, <3>2, <4>1, <4>3 DEF PageLoads
    <3> QED
      BY <3>1, <3>2
  <2> QED
    BY <1>1, <2>2, <2>3
<1>4. ASSUME NEW i \in Runnable, WalletsForPage(i)
      PROVE  Moves
  <2>1. db[i].by \in Tabs
    BY <1>4, TurnOfPage DEF WalletsForPage, PageReads
  <2>2. db[i].by # t => tab'[t] = tab[t]
    BY <1>0, <1>4, <2>1 DEF WalletsForPage
  <2>3. db[i].by = t => PageKnowsParty(t)
    BY <1>0, <1>4 DEF WalletsForPage, PageKnowsParty, SameBut, Fields, Page
  <2> QED
    BY <1>1, <2>2, <2>3
<1>5. ASSUME NEW u \in Tabs, Approve(u)
      PROVE  Moves
  <2>1. u # t => tab'[t] = tab[t]
    BY <1>0, <1>5 DEF Approve
  <2>2. u = t => PageApproves(t)
    BY <1>0, <1>5 DEF Approve, PageApproves, SameBut, Fields, Page
  <2> QED
    BY <1>1, <2>1, <2>2
<1>6. ASSUME NEW i \in Runnable, WalletToSign(i)
      PROVE  Moves
  <2>1. db[i].by \in Tabs /\ tab[db[i].by].at = "signing"
    BY <1>6, TurnOfPage DEF WalletToSign, Steps
  <2>2. db[i].by # t => tab'[t] = tab[t]
    BY <1>0, <1>6, <2>1 DEF WalletToSign
  <2>3. db[i].by = t => PageSigns(t)
    BY <1>0, <1>6, <2>1 DEF WalletToSign, PageSigns, SameBut, Fields, Page
  <2> QED
    BY <1>1, <2>2, <2>3
<1>7. ASSUME NEW u \in Tabs, SignLater(u)
      PROVE  Moves
  <2>1. u # t => tab'[t] = tab[t]
    BY <1>0, <1>7 DEF SignLater
  <2>2. u = t => PageSigned(t)
    BY <1>0, <1>7 DEF SignLater, PageSigned, SameBut, Fields, Page
  <2> QED
    BY <1>1, <2>1, <2>2
<1>8. ASSUME NEW u \in Tabs, SignNow(u) \/ RecordSigned(u) \/ AskToExecute(u)
      PROVE  Moves
  <2>1. u # t => tab'[t] = tab[t]
    BY <1>0, <1>8 DEF SignNow, RecordSigned, AskToExecute
  <2>2. u = t => PageSigned(t)
    <3>1. SignNow(t) => PageSigned(t)
      <4>1. ASSUME SignNow(t)
            PROVE  tab'[t] = [tab[t] EXCEPT !.at = "signed", !.sig = tab[t].sent]
        BY <1>0, <4>1 DEF SignNow, Signed
      <4>2. SignNow(t) => tab[t].at = "atDriver"
        BY DEF SignNow
      <4>3. SignNow(t) => tab'[t].at = "signed" /\ SameBut(t, {"at", "sig"})
        BY <1>0, <4>1 DEF SameBut, Fields, Page
      <4> QED
        BY <4>2, <4>3 DEF PageSigned
    <3>2. RecordSigned(t) => PageSigned(t)
      BY <1>0 DEF RecordSigned, PageSigned, SameBut, Fields, Page
    <3>3. AskToExecute(t) => PageSigned(t)
      BY <1>0 DEF AskToExecute, PageSigned, SameBut, Fields, Page
    <3> QED
      BY <1>8, <3>1, <3>2, <3>3
  <2> QED
    BY <1>1, <2>1, <2>2
<1>9. ASSUME NEW u \in Tabs, SignFails(u) \/ Unheard(u) \/ Refused(u) \/ AnswerLost(u)
      PROVE  Moves
  <2>0. /\ tab' = [tab EXCEPT ![u].at = "error"]
        /\ tab[u].at \in {"atDriver", "answered", "submitted"}
    BY <1>9 DEF SignFails, Unheard, Refused, AnswerLost, ExecuteThrows
  <2>1. u # t => tab'[t] = tab[t]
    BY <1>0, <2>0
  <2>2. u = t => PageStops(t)
    BY <1>0, <1>9, <2>0 DEF PageStops, SameBut, Fields, Page
  <2> QED
    BY <1>1, <2>1, <2>2
<1>10. ASSUME Restart
       PROVE  Moves
  <2>1. tab'[t] = IF tab[t].at \in {"signing", "atDriver", "signed", "recording", "executing",
                                    "submitted"}
                  THEN [tab[t] EXCEPT !.at = "error"] ELSE tab[t]
    BY <1>10 DEF Restart
  <2>2. tab[t].at \in {"signing", "atDriver", "signed", "recording", "executing", "submitted"} =>
            PageStops(t)
    BY <1>0, <1>10, <2>1 DEF PageStops, SameBut, Fields, Page
  <2> QED
    BY <1>1, <2>1, <2>2
<1>18. ASSUME NEW i \in Runnable, TxToSign(i)
       PROVE  Moves
  <2>1. db[i].by \in Tabs /\ tab[db[i].by].at = "signed"
    BY <1>18, TurnOfPage DEF TxToSign, Steps
  <2>2. db[i].by # t => tab'[t] = tab[t]
    BY <1>0, <1>18, <2>1 DEF TxToSign
  <2>3. db[i].by = t => PageSigned(t)
    BY <1>0, <1>18, <2>1 DEF TxToSign, PageSigned, SameBut, Fields, Page
  <2> QED
    BY <1>1, <2>2, <2>3
<1>11. ASSUME NEW i \in Runnable, PrimaryToExecute(i)
       PROVE  Moves
  <2>1. db[i].by \in Tabs
    BY <1>11, TurnOfPage DEF PrimaryToExecute, Steps
  <2>2. db[i].by # t => tab'[t] = tab[t]
    BY <1>0, <1>11, <2>1 DEF PrimaryToExecute
  <2>3. db[i].by = t => PageExecutes(t)
    BY <1>0, <1>11 DEF PrimaryToExecute, PageExecutes, SameBut, Fields, Page
  <2> QED
    BY <1>1, <2>2, <2>3
<1>12. ASSUME NEW i \in Runnable, TxToExecute(i)
       PROVE  Moves
  <2>1. db[i].by \in Tabs /\ tab[db[i].by].at = "executing"
    BY <1>12, TurnOfPage DEF TxToExecute, Steps
  <2>2. db[i].by # t => tab'[t] = tab[t]
    BY <1>0, <1>12, <2>1 DEF TxToExecute
  <2>3. db[i].by = t => PageSubmits(t)
    BY <1>0, <1>12, <2>1 DEF TxToExecute, PageSubmits, SameBut, Fields, Page
  <2> QED
    BY <1>1, <2>2, <2>3
<1>13. ASSUME NEW u \in Tabs, Executed(u)
       PROVE  Moves
  <2>1. u # t => tab'[t] = tab[t]
    BY <1>0, <1>13 DEF Executed
  <2>2. u = t => PageFinishes(t)
    BY <1>0, <1>13 DEF Executed, PageFinishes, SameBut, Fields, Page
  <2> QED
    BY <1>1, <2>1, <2>2
<1>14. ASSUME NEW i \in Runnable,
              \/ SessionRead(i) \/ LookAtRow(i) \/ UpdateRow(i) \/ InsertRow(i)
              \/ InsertConflicts(i) \/ WalletForCall(i)
       PROVE  Moves
  <2>1. tab' = tab
    BY <1>14 DEF SessionRead, LookAtRow, UpdateRow, InsertRow, InsertConflicts, WalletForCall
  <2> QED
    BY <1>1, <2>1
<1>15. ASSUME \/ \E p \in Calls : PrepareExecute(p) \/ Answered(p)
              \/ \E w \in Wallet : SwitchPrimary(w)
              \/ UNCHANGED vars
       PROVE  Moves
  <2>1. tab' = tab
    BY <1>15 DEF PrepareExecute, Answered, Prepared, PrepareFails, SwitchPrimary, vars
  <2> QED
    BY <1>1, <2>1
<1> HIDE DEF Moves
<1>16. ASSUME RunStatement
       PROVE  Moves
    BY <1>3, <1>4, <1>6, <1>11, <1>12, <1>14, <1>16, <1>18, Zenon DEF RunStatement
<1>17. Moves
    BY <1>2, <1>5, <1>7, <1>8, <1>9, <1>10, <1>13, <1>15, <1>16, Zenon
    DEF Next, Signs, Executing
<1> QED
    BY <1>17 DEF Moves

\* A page stays open where it is; only OpenPage opens one.
LEMMA OpenStays ==
    ASSUME IInv, [Next]_vars, NEW t \in Tabs, NEW c
    PROVE  /\ OpenAt(t, c) => OpenAt(t, c)'
           /\ OpenAt(t, c)' => \/ OpenAt(t, c)
                               \/ \E p \in Calls : OpenPage(t, p) /\ c = CommandOf[p]
<1>1. tab[t] \in Page
    BY DEF IInv, Types
<1>2. CASE PageOpens(t)
    BY <1>2 DEF PageOpens, OpenAt
<1>3. CASE SameBut(t, {}) \/ PageLoads(t) \/ PageKnowsParty(t) \/ PageExecutes(t)
  <2>1. tab'[t].at = tab[t].at /\ tab'[t].cmd = tab[t].cmd
    BY <1>3 DEF SameBut, Fields, PageLoads, PageKnowsParty, PageExecutes
  <2> QED
    BY <2>1 DEF OpenAt
<1>4. CASE PageSigns(t) \/ PageSigned(t) \/ PageStops(t) \/ PageSubmits(t) \/ PageFinishes(t)
  <2>1. tab[t].at # "closed" /\ tab'[t].at # "closed" /\ tab'[t].cmd = tab[t].cmd
    BY <1>4 DEF SameBut, Fields, PageSigns, PageSigned, PageStops, PageSubmits, PageFinishes
  <2> QED
    BY <2>1 DEF OpenAt
<1>5. CASE PageApproves(t)
  <2>1. tab[t].at # "closed" /\ tab'[t].at # "closed" /\ tab'[t].cmd = tab[t].cmd
    BY <1>5 DEF SameBut, Fields, PageApproves, Approve
  <2> QED
    BY <2>1 DEF OpenAt
<1> QED
    BY <1>2, <1>3, <1>4, <1>5, PageFields

LEMMA RowStays ==
    ASSUME IInv, [Next]_vars, NEW c \in Command, rows[c] # NoRow
    PROVE  rows'[c] # NoRow
<1>1. CASE rows' = rows
    BY <1>1
<1>2. CASE \E i \in Runnable : UpdateRow(i) \/ InsertRow(i)
  <2>1. PICK i \in Runnable : UpdateRow(i) \/ InsertRow(i)
    BY <1>2
  <2>2. /\ db[i].cmd \in Command /\ db[i].patch \in Patch
        /\ db[i].op = "update" => rows[db[i].cmd] \in Row
    BY <2>1, GoodMember DEF Runnable, UpdateRow, InsertRow, GoodStmt, Writes, Stmt
  <2>3. rows' = [rows EXCEPT ![db[i].cmd] = rows'[db[i].cmd]] /\ rows'[db[i].cmd] \in Row
    BY <2>1, <2>2, UpdatedType, InsertedType DEF UpdateRow, InsertRow, IInv, Types
  <2> QED
    BY <2>2, <2>3, RowAssumption DEF IInv, Types
<1> QED
    BY <1>1, <1>2, RowsChange

\* A statement of X is issued.
Comes(X) == \E k \in DOMAIN db' : k \notin DOMAIN db /\ db'[k] \in X

LEMMA PushOne ==
    ASSUME db \in Seq(Stmt), NEW s \in Stmt, Issue(<<s>>), NEW X
    PROVE  Comes(X) <=> s \in X
<1>1. PICK last : last = Len(db) + 1
    OBVIOUS
<1>2. /\ last \in DOMAIN db' /\ db'[last] = s
      /\ \A k \in DOMAIN db : k < last
      /\ \A k \in DOMAIN db' : k \in DOMAIN db \/ k = last
      /\ DOMAIN db \subseteq Nat
    BY <1>1, FifoPush
<1>3. last \notin DOMAIN db
    BY <1>2
<1> QED
    BY <1>2, <1>3 DEF Comes

LEMMA PushBoth ==
    ASSUME db \in Seq(Stmt), NEW r \in Stmt, NEW s \in Stmt, Issue(<<r, s>>), NEW X
    PROVE  Comes(X) <=> r \in X \/ s \in X
<1>1. PICK m, n : m = Len(db) + 1 /\ n = Len(db) + 2
    OBVIOUS
<1>2. /\ m \in DOMAIN db' /\ db'[m] = r /\ n \in DOMAIN db' /\ db'[n] = s
      /\ \A k \in DOMAIN db : k < m
      /\ \A k \in DOMAIN db' : k \in DOMAIN db \/ k = m \/ k = n
      /\ DOMAIN db \subseteq Nat /\ Len(db) \in Nat
    BY <1>1, FifoPushTwo
<1>3. m \notin DOMAIN db /\ n \notin DOMAIN db
    BY <1>1, <1>2
<1> QED
    BY <1>2, <1>3 DEF Comes

LEMMA PushStatements ==
    ASSUME IInv, PushStep
    PROVE  \/ \E s \in Stmt : Issue(<<s>>)
           \/ \E r, s \in Stmt : Rounds(r) <= Rounds(s) /\ Issue(<<r, s>>)
<1>1. ASSUME NEW p \in Calls, PrepareExecute(p) \/ Prepared(p)
      PROVE  \E s \in Stmt : Issue(<<s>>)
    BY <1>1, CallPushes DEF NewRequest, NewWrite
<1>2. ASSUME NEW t \in Tabs, Approve(t) \/ SignNow(t) \/ RecordSigned(t) \/ AskToExecute(t) \/ Executed(t)
      PROVE  \E s \in Stmt : Issue(<<s>>)
  <2>1. PICK s : Issue(<<s>>) /\ \/ \E op : NewRequest(s, t, op)
                                 \/ \E c, patch : NewWrite(s, c, patch)
    BY <1>2, PagePushes
  <2> QED
    BY <2>1 DEF NewRequest, NewWrite
<1>3. ASSUME NEW t \in Tabs, NEW p \in Calls, OpenPage(t, p)
      PROVE  \E r, s \in Stmt : Rounds(r) <= Rounds(s) /\ Issue(<<r, s>>)
  <2>1. PICK r, s : /\ NewRequest(r, t, "txForPage") /\ NewRequest(s, t, "walletsForPage")
                    /\ Issue(<<r, s>>)
    BY <1>3, PagePushes
  <2>2. r \in Stmt /\ s \in Stmt /\ Rounds(r) <= Rounds(s)
    BY <2>1 DEF NewRequest
  <2> QED
    BY <2>1, <2>2
<1> QED
    BY <1>1, <1>2, <1>3 DEF PushStep

LEMMA PushHas ==
    ASSUME IInv, PushStep, NEW X, Has(X)
    PROVE  Has(X)'
<1>1. CASE \E s \in Stmt : Issue(<<s>>)
    BY <1>1, PushOrder DEF IInv, Statements
<1>2. CASE \E r, s \in Stmt : Rounds(r) <= Rounds(s) /\ Issue(<<r, s>>)
    BY <1>2, PushTwoOrder DEF IInv, Statements
<1> QED
    BY <1>1, <1>2, PushStatements

\* What is not issued keeps its order.
LEMMA PushKept ==
    ASSUME IInv, PushStep, NEW X, NEW Y
    PROVE  /\ Has(X)' <=> Has(X) \/ Comes(X)
           /\ EachAfter(X, Y) /\ ~Comes(Y) => EachAfter(X, Y)'
           /\ ~Comes(X) /\ ~Comes(Y) => Kept(X, Y)
<1>0. db \in Seq(Stmt)
    BY DEF IInv, Statements
<1>1. ASSUME NEW s \in Stmt, Issue(<<s>>)
      PROVE  /\ Has(X)' <=> Has(X) \/ Comes(X)
             /\ EachAfter(X, Y) /\ ~Comes(Y) => EachAfter(X, Y)'
             /\ ~Comes(X) /\ ~Comes(Y) => Kept(X, Y)
  <2>1. (Comes(X) <=> s \in X) /\ (Comes(Y) <=> s \in Y)
    BY <1>0, <1>1, PushOne
  <2> QED
    BY <1>0, <1>1, <2>1, PushOrder
<1>2. ASSUME NEW r \in Stmt, NEW s \in Stmt, Rounds(r) <= Rounds(s), Issue(<<r, s>>)
      PROVE  /\ Has(X)' <=> Has(X) \/ Comes(X)
             /\ EachAfter(X, Y) /\ ~Comes(Y) => EachAfter(X, Y)'
             /\ ~Comes(X) /\ ~Comes(Y) => Kept(X, Y)
  <2>1. (Comes(X) <=> r \in X \/ s \in X) /\ (Comes(Y) <=> r \in Y \/ s \in Y)
    BY <1>0, <1>2, PushBoth
  <2> QED
    BY <1>0, <1>2, <2>1, PushTwoOrder
<1> QED
    BY <1>1, <1>2, PushStatements

\* Who issues statements of a kind.
LEMMA WhatComes ==
    ASSUME IInv, PushStep, NEW X, Comes(X)
    PROVE  \/ \E p \in Calls, s \in X : PrepareExecute(p) /\ NewRequest(s, p, "primaryForCall")
           \/ \E p \in Calls, s \in X :
                /\ Prepared(p)
                /\ NewWrite(s, CommandOf[p], [status |-> "pending", tx |-> p, payload |-> p])
           \/ \E t \in Tabs, p \in Calls, s \in X, op \in PageReads : OpenPage(t, p) /\ NewRequest(s, t, op)
           \/ \E t \in Tabs, s \in X : Approve(t) /\ NewRequest(s, t, "walletToSign")
           \/ \E t \in Tabs, s \in X : AskToExecute(t) /\ NewRequest(s, t, "primaryToExecute")
           \/ \E t \in Tabs, s \in X : SignNow(t) /\ NewRequest(s, t, "txToSign")
           \/ \E t \in Tabs, c \in Command, s \in X, patch \in Patch :
                /\ RecordSigned(t) \/ Executed(t)
                /\ c = tab[t].cmd /\ NewWrite(s, c, patch) /\ patch.payload \in {"keep", "result"}
<1> DEFINE Source ==
           \/ \E p \in Calls, s \in X : PrepareExecute(p) /\ NewRequest(s, p, "primaryForCall")
           \/ \E p \in Calls, s \in X :
                /\ Prepared(p)
                /\ NewWrite(s, CommandOf[p], [status |-> "pending", tx |-> p, payload |-> p])
           \/ \E t \in Tabs, p \in Calls, s \in X, op \in PageReads : OpenPage(t, p) /\ NewRequest(s, t, op)
           \/ \E t \in Tabs, s \in X : Approve(t) /\ NewRequest(s, t, "walletToSign")
           \/ \E t \in Tabs, s \in X : AskToExecute(t) /\ NewRequest(s, t, "primaryToExecute")
           \/ \E t \in Tabs, s \in X : SignNow(t) /\ NewRequest(s, t, "txToSign")
           \/ \E t \in Tabs, c \in Command, s \in X, patch \in Patch :
                /\ RecordSigned(t) \/ Executed(t)
                /\ c = tab[t].cmd /\ NewWrite(s, c, patch) /\ patch.payload \in {"keep", "result"}
<1>0. db \in Seq(Stmt)
    BY DEF IInv, Statements
<1>1. ASSUME NEW p \in Calls, PrepareExecute(p)
      PROVE  Source
  <2>1. PICK s : NewRequest(s, p, "primaryForCall") /\ Issue(<<s>>)
    BY <1>1, CallPushes
  <2>2. s \in X
    BY <1>0, <2>1, PushOne DEF NewRequest
  <2> QED
    BY <1>1, <2>1, <2>2
<1>2. ASSUME NEW p \in Calls, Prepared(p)
      PROVE  Source
  <2>1. PICK s : /\ NewWrite(s, CommandOf[p], [status |-> "pending", tx |-> p, payload |-> p])
                 /\ Issue(<<s>>)
    BY <1>2, CallPushes
  <2>2. s \in X
    BY <1>0, <2>1, PushOne DEF NewWrite
  <2> QED
    BY <1>2, <2>1, <2>2
<1>3. ASSUME NEW t \in Tabs, NEW p \in Calls, OpenPage(t, p)
      PROVE  Source
  <2>1. PICK r, s : /\ NewRequest(r, t, "txForPage") /\ NewRequest(s, t, "walletsForPage")
                    /\ Issue(<<r, s>>)
    BY <1>3, PagePushes
  <2>2. r \in X \/ s \in X
    BY <1>0, <2>1, PushBoth DEF NewRequest
  <2> QED
    BY <1>3, <2>1, <2>2 DEF PageReads
<1>4. ASSUME NEW t \in Tabs, Approve(t)
      PROVE  Source
  <2>1. PICK s : NewRequest(s, t, "walletToSign") /\ Issue(<<s>>)
    BY <1>4, PagePushes
  <2>2. s \in X
    BY <1>0, <2>1, PushOne DEF NewRequest
  <2> QED
    BY <1>4, <2>1, <2>2
<1>5. ASSUME NEW t \in Tabs, AskToExecute(t)
      PROVE  Source
  <2>1. PICK s : NewRequest(s, t, "primaryToExecute") /\ Issue(<<s>>)
    BY <1>5, PagePushes
  <2>2. s \in X
    BY <1>0, <2>1, PushOne DEF NewRequest
  <2> QED
    BY <1>5, <2>1, <2>2
<1>6. ASSUME NEW t \in Tabs, SignNow(t)
      PROVE  Source
  <2>1. PICK s : NewRequest(s, t, "txToSign") /\ Issue(<<s>>)
    BY <1>6, PagePushes
  <2>2. s \in X
    BY <1>0, <2>1, PushOne DEF NewRequest
  <2> QED
    BY <1>6, <2>1, <2>2
<1>9. ASSUME NEW t \in Tabs, RecordSigned(t)
      PROVE  Source
  <2>1. PICK c : c = tab[t].cmd
    OBVIOUS
  <2>2. PICK s, patch : /\ c \in Command /\ NewWrite(s, c, patch) /\ patch.payload = "keep"
                        /\ Issue(<<s>>)
    BY <1>9, <2>1, PagePushes
  <2>3. s \in X /\ patch \in Patch
    BY <1>0, <2>2, PushOne DEF NewWrite, Stmt
  <2> QED
    BY <1>9, <2>1, <2>2, <2>3
<1>7. ASSUME NEW t \in Tabs, Executed(t)
      PROVE  Source
  <2>1. PICK c : c = tab[t].cmd
    OBVIOUS
  <2>2. PICK s, patch : /\ c \in Command /\ NewWrite(s, c, patch) /\ patch.payload = "result"
                        /\ Issue(<<s>>)
    BY <1>7, <2>1, PagePushes
  <2>3. s \in X /\ patch \in Patch
    BY <1>0, <2>2, PushOne DEF NewWrite, Stmt
  <2> QED
    BY <1>7, <2>1, <2>2, <2>3
<1> HIDE DEF Source
<1>8. Source
    BY <1>1, <1>2, <1>3, <1>4, <1>5, <1>6, <1>7, <1>9, Zenon DEF PushStep
<1> QED
    BY <1>8 DEF Source

LEMMA TurnComes ==
    ASSUME IInv, PushStep, NEW t, NEW W, W \subseteq Reads, Comes(TurnsOf(t, W))
    PROVE  \/ t \in Calls /\ PrepareExecute(t) /\ "primaryForCall" \in W
           \/ t \in Tabs /\ (\E p \in Calls : OpenPage(t, p)) /\ (\E op \in PageReads : op \in W)
           \/ t \in Tabs /\ Approve(t) /\ "walletToSign" \in W
           \/ t \in Tabs /\ AskToExecute(t) /\ "primaryToExecute" \in W
           \/ t \in Tabs /\ SignNow(t) /\ "txToSign" \in W
<1>1. PICK X : X = TurnsOf(t, W)
    OBVIOUS
<1>2. \A s \in X : \A u, op : NewRequest(s, u, op) => t = u /\ op \in W
    BY <1>1 DEF NewRequest
<1>3. \A s \in X : \A c, patch : ~NewWrite(s, c, patch)
    BY <1>1 DEF NewWrite
<1>4. \/ \E p \in Calls, s \in X : PrepareExecute(p) /\ NewRequest(s, p, "primaryForCall")
      \/ \E u \in Tabs, p \in Calls, s \in X, op \in PageReads : OpenPage(u, p) /\ NewRequest(s, u, op)
      \/ \E u \in Tabs, s \in X : Approve(u) /\ NewRequest(s, u, "walletToSign")
      \/ \E u \in Tabs, s \in X : AskToExecute(u) /\ NewRequest(s, u, "primaryToExecute")
      \/ \E u \in Tabs, s \in X : SignNow(u) /\ NewRequest(s, u, "txToSign")
  <2>1. Comes(X)
    BY <1>1
  <2> QED
    BY <1>3, <2>1, WhatComes
<1>5. CASE \E p \in Calls, s \in X : PrepareExecute(p) /\ NewRequest(s, p, "primaryForCall")
    BY <1>2, <1>5
<1>6. CASE \E u \in Tabs, p \in Calls, s \in X, op \in PageReads : OpenPage(u, p) /\ NewRequest(s, u, op)
    BY <1>2, <1>6
<1>7. CASE \E u \in Tabs, s \in X : Approve(u) /\ NewRequest(s, u, "walletToSign")
    BY <1>2, <1>7
<1>8. CASE \E u \in Tabs, s \in X : AskToExecute(u) /\ NewRequest(s, u, "primaryToExecute")
    BY <1>2, <1>8
<1>9. CASE \E u \in Tabs, s \in X : SignNow(u) /\ NewRequest(s, u, "txToSign")
    BY <1>2, <1>9
<1> QED
    BY <1>4, <1>5, <1>6, <1>7, <1>8, <1>9

LEMMA WriteComes ==
    ASSUME IInv, PushStep, NEW c
    PROVE  /\ Comes(WritesFor(c)) => \/ \E p \in Calls : Prepared(p) /\ c = CommandOf[p]
                                     \/ \E t \in Tabs : (RecordSigned(t) \/ Executed(t)) /\ OpenAt(t, c)
           /\ Comes(CallWrites(c)) => \E p \in Calls : Prepared(p) /\ c = CommandOf[p]
<1>1. ASSUME NEW X, X \in {WritesFor(c), CallWrites(c)}, Comes(X)
      PROVE  \/ \E p \in Calls : Prepared(p) /\ c = CommandOf[p]
             \/ X # CallWrites(c) /\ \E t \in Tabs : (RecordSigned(t) \/ Executed(t)) /\ OpenAt(t, c)
  <2>1. \A s \in X : \A u, op : ~NewRequest(s, u, op)
    BY <1>1 DEF NewRequest
  <2>2. \A s \in X : \A d, patch : NewWrite(s, d, patch) => d = c
    BY <1>1 DEF NewWrite
  <2>3. \A s \in X : \A d, patch : NewWrite(s, d, patch) /\ X = CallWrites(c) => patch.payload \in Calls
    BY DEF NewWrite
  <2>4. \A t \in Tabs : RecordSigned(t) \/ Executed(t) => tab[t].at # "closed"
    BY DEF RecordSigned, Executed
  <2>5. \/ \E p \in Calls : Prepared(p) /\ c = CommandOf[p]
        \/ \E t \in Tabs : (RecordSigned(t) \/ Executed(t)) /\ OpenAt(t, c) /\ X # CallWrites(c)
    <3>1. CASE \E t \in Tabs, d \in Command, s \in X, patch \in Patch :
                /\ RecordSigned(t) \/ Executed(t)
                /\ d = tab[t].cmd /\ NewWrite(s, d, patch) /\ patch.payload \in {"keep", "result"}
      BY <2>2, <2>3, <2>4, <3>1, RowAssumption DEF OpenAt
    <3>2. CASE \E p \in Calls, s \in X :
                /\ Prepared(p)
                /\ NewWrite(s, CommandOf[p], [status |-> "pending", tx |-> p, payload |-> p])
      BY <2>2, <3>2
    <3> QED
      BY <1>1, <2>1, <3>1, <3>2, WhatComes
  <2> QED
    BY <1>1, <2>5
<1>2. Comes(CallWrites(c)) => \E p \in Calls : Prepared(p) /\ c = CommandOf[p]
    BY <1>1
<1>3. PICK X : X = WritesFor(c)
    OBVIOUS
<1>4. Comes(X) => \/ \E p \in Calls : Prepared(p) /\ c = CommandOf[p]
                  \/ \E t \in Tabs : (RecordSigned(t) \/ Executed(t)) /\ OpenAt(t, c)
    BY <1>1, <1>3
<1> QED
    BY <1>2, <1>3, <1>4

\* A write of the row ran.
LEMMA WriteRan ==
    ASSUME OneConnection, IInv, NEW i \in Runnable, UpdateRow(i) \/ InsertRow(i), NEW c, c = db[i].cmd
    PROVE  /\ i = 1 /\ 1 \in DOMAIN db /\ c \in Command /\ db[1].cmd = c
           /\ db[1] \in WritesFor(c) /\ db[1].patch \in Patch
           /\ rows'[c] # NoRow /\ rows'[c] \in Row
           /\ \A d \in Command : d # c => rows'[d] = rows[d]
           /\ \A d : d # c => db[1] \notin WritesFor(d)
<1>1. i = 1 /\ 1 \in DOMAIN db
    BY OneRunnable
<1>2. /\ db[1] \in Stmt /\ db[1].op \in Writes /\ c \in Command /\ db[1].patch \in Patch
      /\ db[1].op = "update" => rows[c] \in Row
    BY <1>1, GoodMember DEF UpdateRow, InsertRow, GoodStmt, Writes, Stmt
<1>3. rows'[c] \in Row /\ \A d \in Command : d # c => rows'[d] = rows[d]
  <2>1. CASE UpdateRow(i)
    <3>1. rows' = [rows EXCEPT ![c] = Updated(rows[c], db[1].patch)] /\ rows[c] \in Row
      BY <1>1, <1>2, <2>1 DEF UpdateRow, IInv, Types
    <3> QED
      BY <1>2, <3>1, UpdatedType DEF IInv, Types
  <2>2. CASE InsertRow(i)
    BY <1>1, <1>2, <2>2, InsertedType DEF InsertRow, IInv, Types
  <2> QED
    BY <2>1, <2>2
<1> QED
    BY <1>1, <1>2, <1>3, RowAssumption, KindOfWrite

LEMMA CallsChange ==
    ASSUME [Next]_vars
    PROVE  \/ call' = call
           \/ \E p \in Calls : PrepareExecute(p) \/ Answered(p)
           \/ \E i \in Runnable : WalletForCall(i)
           \/ Restart
<1>1. ASSUME NEW i \in Runnable,
             \/ SessionRead(i) \/ LookAtRow(i) \/ InsertConflicts(i) \/ UpdateRow(i) \/ InsertRow(i)
             \/ TxForPage(i) \/ WalletsForPage(i) \/ WalletToSign(i) \/ PrimaryToExecute(i)
             \/ TxToSign(i) \/ TxToExecute(i)
      PROVE  call' = call
    BY <1>1 DEF SessionRead, LookAtRow, InsertConflicts, UpdateRow, InsertRow, TxForPage,
       WalletsForPage, WalletToSign, TxToSign, PrimaryToExecute, TxToExecute
<1>2. ASSUME NEW t \in Tabs, \/ \E p \in Calls : OpenPage(t, p)
                             \/ Approve(t) \/ Signs(t) \/ AskToExecute(t) \/ Unheard(t)
                             \/ Executing(t)
      PROVE  call' = call
    BY <1>2 DEF OpenPage, Approve, Signs, SignLater, SignNow, RecordSigned, SignFails,
       AskToExecute, Unheard, Executing, Executed, Refused, AnswerLost
<1>3. ASSUME (\E w \in Wallet : SwitchPrimary(w)) \/ UNCHANGED vars
      PROVE  call' = call
    BY <1>3 DEF SwitchPrimary, vars
<1> QED
    BY <1>1, <1>2, <1>3 DEF Next, RunStatement

-----------------------------------------------------------------------------
(* Where writes come from *)

LEMMA CallKinds ==
    ASSUME IInv, NEW p \in Calls, NEW X, X = TurnsOf(p, {"primaryForCall"}),
           PushStep, ~PrepareExecute(p)
    PROVE  Kept(X, X)
<1>1. ~Comes(X)
    BY TurnComes DEF Reads, PageReads, Steps
<1> QED
    BY <1>1, PushKept

LEMMA CallReads ==
    ASSUME OneConnection, IInv, NEW i \in Runnable, WalletForCall(i), NEW p, p = db[i].by
    PROVE  /\ i = 1 /\ 1 \in DOMAIN db /\ p \in Calls
           /\ db[1] \in TurnsOf(p, {"primaryForCall"})
           /\ \A q : q # p => db[1] \notin TurnsOf(q, {"primaryForCall"})
           /\ \A q \in Calls : q # p => call'[q] = call[q]
<1>1. i = 1 /\ 1 \in DOMAIN db
    BY OneRunnable
<1>2. db[1] \in Stmt /\ GoodStmt(db[1]) /\ Wants(db[1]) = "primaryForCall"
    BY <1>1, GoodMember DEF WalletForCall, Wants
<1>3. call' = [call EXCEPT ![p] = "preparing"]
    BY DEF WalletForCall
<1> QED
    BY <1>1, <1>2, <1>3, KindOfWrite DEF GoodStmt, IInv, Types

LEMMA CallingKeeps ==
    ASSUME OneConnection, IInv, Calling, [Next]_vars
    PROVE  Calling'
<1> SUFFICES ASSUME NEW p \in Calls, NEW X, X = TurnsOf(p, {"primaryForCall"})
             PROVE  AtMostOne(X)' /\ (Has(X)' => call'[p] = "wallet")
    BY DEF Calling
<1>1. AtMostOne(X) /\ (Has(X) => call[p] = "wallet") /\ X \in Kinds
    BY DEF Calling, Kinds
<1>2. call \in [Calls -> {"idle", "wallet", "preparing", "returned", "failed"}]
    BY DEF IInv, Types
<1>3. CASE \E i \in Runnable : WalletForCall(i)
  <2>1. PICK i \in Runnable : WalletForCall(i)
    BY <1>3
  <2>2. PICK q : q = db[i].by
    OBVIOUS
  <2>3. /\ AtMostOne(X)'
        /\ db[1] \in X => ~Has(X)'
        /\ Has(X)' => Has(X)
    BY <1>1, <2>1, PopKeeps DEF PopStep
  <2>4. CASE q = p
    BY <2>1, <2>2, <2>3, <2>4, CallReads
  <2>5. CASE q # p
    <3>1. call'[p] = call[p]
      BY <2>1, <2>2, <2>5, CallReads
    <3> QED
      BY <1>1, <2>3, <3>1
  <2> QED
    BY <2>4, <2>5
<1>4. CASE PrepareExecute(p)
  <2>1. PICK s : NewRequest(s, p, "primaryForCall") /\ Issue(<<s>>)
    BY <1>4, CallPushes
  <2>2. s \in Stmt
    BY <2>1 DEF NewRequest
  <2>3. call[p] = "idle" /\ call'[p] = "wallet"
    BY <1>2, <1>4 DEF PrepareExecute
  <2>4. AtMostOne(X)'
    BY <1>1, <2>1, <2>2, <2>3, PushOrder DEF IInv, Statements
  <2> QED
    BY <2>3, <2>4
<1>5. CASE ~PrepareExecute(p) /\ ~(\E i \in Runnable : WalletForCall(i)) /\ db' # <<>>
  <2>1. AtMostOne(X)' /\ (Has(X)' => Has(X))
    <3>1. CASE \E i \in Runnable : TurnStep(i)
      BY <1>1, <3>1, TurnKeeps DEF Kept
    <3>2. CASE \E i \in Runnable : PopStep(i)
      BY <1>1, <3>2, PopKeeps
    <3>3. CASE PushStep
      BY <1>1, <1>5, <3>3, CallKinds DEF Kept
    <3>4. CASE db' = db
      BY <1>1, <3>4, SameOrder DEF Kept
    <3> QED
      BY <1>5, <3>1, <3>2, <3>3, <3>4, StepKinds
  <2>2. call[p] = "wallet" => call'[p] = "wallet"
    <3>1. ~Restart
      BY <1>5 DEF Restart
    <3>2. \A q \in Calls : PrepareExecute(q) \/ Answered(q) => q # p \/ Answered(p)
      BY <1>5
    <3>3. ASSUME NEW q \in Calls, PrepareExecute(q) \/ Answered(q), call[p] = "wallet"
          PROVE  call'[p] = "wallet"
      BY <1>2, <3>2, <3>3 DEF PrepareExecute, Answered, Prepared, PrepareFails
    <3> QED
      BY <1>5, <3>1, <3>3, CallsChange
  <2> QED
    BY <1>1, <2>1, <2>2
<1>6. CASE db' = <<>>
    BY <1>6, NoOrder
<1> QED
    BY <1>3, <1>4, <1>5, <1>6

LEMMA UsedGrows ==
    ASSUME OneConnection, IInv, Calling, [Next]_vars
    PROVE  /\ Used \subseteq Used'
           /\ ~(\E p \in Calls : Prepared(p)) => Used' \subseteq Used
           /\ \A p \in Calls : Prepared(p) => Used' \subseteq Used \cup {CommandOf[p]} /\ CommandOf[p] \in Used'
<1>1. call \in [Calls -> {"idle", "wallet", "preparing", "returned", "failed"}]
    BY DEF IInv, Types
<1>2. \A q \in Calls : call[q] = "returned" => call'[q] = "returned"
  <2> SUFFICES ASSUME NEW q \in Calls, call[q] = "returned"
               PROVE  call'[q] = "returned"
    OBVIOUS
  <2>1. ASSUME NEW p \in Calls, PrepareExecute(p) \/ Answered(p)
        PROVE  call'[q] = "returned"
    BY <1>1, <2>1 DEF PrepareExecute, Answered, Prepared, PrepareFails
  <2>2. ASSUME NEW i \in Runnable, WalletForCall(i)
        PROVE  call'[q] = "returned"
    <3>1. PICK p : p = db[i].by
      OBVIOUS
    <3>2. Has(TurnsOf(p, {"primaryForCall"})) /\ p \in Calls
      BY <2>2, <3>1, CallReads DEF Has
    <3>3. p # q
      BY <3>2 DEF Calling
    <3> QED
      BY <2>2, <3>1, <3>3, CallReads
  <2>3. Restart => call'[q] = "returned"
    BY <1>1 DEF Restart
  <2> QED
    BY <2>1, <2>2, <2>3, CallsChange
<1>3. \A q \in Calls : call'[q] = "returned" => call[q] = "returned" \/ Prepared(q)
  <2> SUFFICES ASSUME NEW q \in Calls, call'[q] = "returned", call[q] # "returned"
               PROVE  Prepared(q)
    OBVIOUS
  <2>1. ASSUME NEW p \in Calls, PrepareExecute(p) \/ Answered(p)
        PROVE  Prepared(q)
    BY <1>1, <2>1 DEF PrepareExecute, Answered, Prepared, PrepareFails
  <2>2. ASSUME NEW i \in Runnable, WalletForCall(i)
        PROVE  FALSE
    BY <1>1, <2>2 DEF WalletForCall
  <2>3. ~Restart
    BY <1>1 DEF Restart
  <2> QED
    BY <2>1, <2>2, <2>3, CallsChange
<1>4. \A p \in Calls : Prepared(p) => call'[p] = "returned" /\ \A q \in Calls : Prepared(q) => q = p
    BY <1>1 DEF Prepared
<1> QED
    BY <1>2, <1>3, <1>4 DEF Used

LEMMA RestartsCounted ==
    ASSUME [Next]_vars
    PROVE  restarts' = restarts \/ Restart
<1>1. ASSUME NEW i \in Runnable,
             \/ SessionRead(i) \/ LookAtRow(i) \/ InsertConflicts(i) \/ UpdateRow(i) \/ InsertRow(i)
             \/ TxForPage(i) \/ WalletsForPage(i) \/ WalletToSign(i) \/ PrimaryToExecute(i)
             \/ TxToExecute(i) \/ TxToSign(i) \/ WalletForCall(i)
      PROVE  restarts' = restarts
    BY <1>1 DEF SessionRead, LookAtRow, InsertConflicts, UpdateRow, InsertRow, TxForPage,
       WalletsForPage, WalletToSign, PrimaryToExecute, TxToExecute, TxToSign, WalletForCall, bounds
<1>2. ASSUME NEW p \in Calls, PrepareExecute(p) \/ Answered(p)
      PROVE  restarts' = restarts
    BY <1>2 DEF PrepareExecute, Answered, Prepared, PrepareFails, bounds
<1>3. ASSUME NEW t \in Tabs, \/ \E p \in Calls : OpenPage(t, p)
                             \/ Approve(t) \/ Signs(t) \/ AskToExecute(t) \/ Unheard(t)
                             \/ Executing(t)
      PROVE  restarts' = restarts
    BY <1>3 DEF OpenPage, Approve, Signs, SignLater, SignNow, RecordSigned, SignFails,
       AskToExecute, Unheard, Executing, Executed, Refused, AnswerLost, bounds
<1>4. ASSUME (\E w \in Wallet : SwitchPrimary(w)) \/ UNCHANGED vars
      PROVE  restarts' = restarts
    BY <1>4 DEF SwitchPrimary, vars, bounds
<1> QED
    BY <1>1, <1>2, <1>3, <1>4 DEF Next, RunStatement

\* The statements that may come: those that are there, the second half of a write,
\* and the writes of prepareExecute, sign and execute.
LEMMA NewStatement ==
    ASSUME IInv, [Next]_vars, NEW k \in DOMAIN db', NEW s, s = db'[k], s.op \in Writes
    PROVE  \/ \E j \in DOMAIN db : s = db[j]
           \/ \E i \in DOMAIN db : /\ LookAtRow(i) /\ s \in Stmt /\ s.op \in {"insert", "update"}
                                   /\ s.op = "insert" => rows[s.cmd] = NoRow
                                   /\ s.cmd = db[i].cmd /\ s.patch = db[i].patch
                                   /\ db[i] \in Stmt /\ db[i].op \in Writes
           \/ \E p \in Calls : /\ Prepared(p)
                               /\ NewWrite(s, CommandOf[p], [status |-> "pending", tx |-> p, payload |-> p])
           \/ \E t \in Tabs, c \in Command :
                /\ c = tab[t].cmd
                /\ \/ /\ RecordSigned(t)
                      /\ NewWrite(s, c, [status |-> "signed", tx |-> tab[t].sig, payload |-> "keep"])
                   \/ /\ Executed(t)
                      /\ NewWrite(s, c, [status |-> "executed", tx |-> tab[t].held.tx, payload |-> "result"])
<1>0. db \in Seq(Stmt)
    BY DEF IInv, Statements
<1>1. ASSUME NEW i \in DOMAIN db, LookAtRow(i)
      PROVE  \/ \E j \in DOMAIN db : s = db[j]
             \/ /\ s \in Stmt /\ s.op \in {"insert", "update"}
                /\ s.op = "insert" => rows[s.cmd] = NoRow
                /\ s.cmd = db[i].cmd /\ s.patch = db[i].patch
                /\ db[i] \in Stmt /\ db[i].op \in Writes
  <2> DEFINE w == WriteAfterLook(db[i].cmd, db[i].patch)
  <2>1. db[i] \in Stmt /\ db[i].op \in Writes /\ db[i].cmd \in Command /\ db[i].patch \in Patch
    BY <1>1, GoodMember DEF LookAtRow, GoodStmt, Writes, Stmt
  <2>2. /\ w \in Stmt /\ w.op \in {"insert", "update"} /\ w.cmd = db[i].cmd /\ w.patch = db[i].patch
        /\ w.op = "insert" => rows[w.cmd] = NoRow
    BY <2>1, WriteType DEF WriteAfterLook, Writes
  <2>3. RunAndIssue(i, <<w>>)
    BY <1>1 DEF LookAtRow
  <2> HIDE DEF w
  <2>4. s = w \/ \E j \in DOMAIN db : s = db[j]
    BY <1>0, <2>2, <2>3, RanOn
  <2> QED
    BY <2>1, <2>2, <2>4
<1>2. ASSUME NEW p \in Calls, Prepared(p)
      PROVE  \/ \E j \in DOMAIN db : s = db[j]
             \/ NewWrite(s, CommandOf[p], [status |-> "pending", tx |-> p, payload |-> p])
  <2>1. PICK w : /\ NewWrite(w, CommandOf[p], [status |-> "pending", tx |-> p, payload |-> p])
                 /\ Issue(<<w>>)
    BY <1>2, CallPushes
  <2>2. w \in Stmt
    BY <2>1 DEF NewWrite
  <2>3. s = w \/ \E j \in DOMAIN db : s = db[j]
    BY <1>0, <2>1, <2>2, IssuedOne
  <2> QED
    BY <2>1, <2>3
<1>3. ASSUME NEW t \in Tabs, RecordSigned(t)
      PROVE  \/ \E j \in DOMAIN db : s = db[j]
             \/ /\ tab[t].cmd \in Command
                /\ NewWrite(s, tab[t].cmd, [status |-> "signed", tx |-> tab[t].sig, payload |-> "keep"])
  <2>1. PICK w : /\ NewWrite(w, tab[t].cmd, [status |-> "signed", tx |-> tab[t].sig, payload |-> "keep"])
                 /\ Issue(<<w>>)
    BY <1>3, PagePushes
  <2>2. w \in Stmt
    BY <2>1 DEF NewWrite
  <2>3. s = w \/ \E j \in DOMAIN db : s = db[j]
    BY <1>0, <2>1, <2>2, IssuedOne
  <2> QED
    BY <1>3, <2>1, <2>3, PagePushes
<1>4. ASSUME NEW t \in Tabs, Executed(t)
      PROVE  \/ \E j \in DOMAIN db : s = db[j]
             \/ /\ tab[t].cmd \in Command
                /\ NewWrite(s, tab[t].cmd, [status |-> "executed", tx |-> tab[t].held.tx, payload |-> "result"])
  <2>1. PICK w : /\ NewWrite(w, tab[t].cmd, [status |-> "executed", tx |-> tab[t].held.tx, payload |-> "result"])
                 /\ Issue(<<w>>)
    BY <1>4, PagePushes
  <2>2. w \in Stmt
    BY <2>1 DEF NewWrite
  <2>3. s = w \/ \E j \in DOMAIN db : s = db[j]
    BY <1>0, <2>1, <2>2, IssuedOne
  <2> QED
    BY <1>4, <2>1, <2>3, PagePushes
<1>5. CASE OldWrites
    BY <1>5 DEF OldWrites
<1> QED
    BY <1>1, <1>2, <1>3, <1>4, <1>5, WritesComeFrom

LEMMA OriginsKeep ==
    ASSUME OneConnection, IInv, Origins, [Next]_vars
    PROVE  Origins'
<1>1. Calling' /\ Used \subseteq Used'
    BY CallingKeeps, UsedGrows DEF Origins
<1>2. restarts' \in Nat
    BY RestartsCounted DEF Origins, Restart
<1>3. ASSUME NEW t \in Tabs, NEW c \in Command, OpenAt(t, c)'
      PROVE  c \in Used'
  <2>1. CASE OpenAt(t, c)
    BY <1>1, <2>1 DEF Origins
  <2>2. CASE \E p \in Calls : OpenPage(t, p) /\ c = CommandOf[p]
    BY <1>1, <2>2 DEF OpenPage, Used
  <2> QED
    BY <1>3, <2>1, <2>2, OpenStays
<1>4. ASSUME NEW k \in DOMAIN db'
      PROVE  Origin(db[k])'
  <2>1. PICK s : s = db'[k]
    OBVIOUS
  <2> SUFFICES ASSUME s.op \in Writes
               PROVE  /\ s.cmd \in Used'
                      /\ s.patch.payload \in Calls =>
                            s.patch.tx = s.patch.payload /\ s.cmd = CommandOf[s.patch.payload]
    BY <2>1 DEF Origin
  <2>2. ASSUME NEW j \in DOMAIN db, s = db[j]
        PROVE  /\ s.cmd \in Used'
               /\ s.patch.payload \in Calls =>
                    s.patch.tx = s.patch.payload /\ s.cmd = CommandOf[s.patch.payload]
    BY <1>1, <2>2 DEF Origins, Origin
  <2>3. ASSUME NEW i \in DOMAIN db, s.cmd = db[i].cmd, s.patch = db[i].patch, db[i].op \in Writes
        PROVE  /\ s.cmd \in Used'
               /\ s.patch.payload \in Calls =>
                    s.patch.tx = s.patch.payload /\ s.cmd = CommandOf[s.patch.payload]
    BY <1>1, <2>3 DEF Origins, Origin
  <2>4. ASSUME NEW p \in Calls, Prepared(p),
               NewWrite(s, CommandOf[p], [status |-> "pending", tx |-> p, payload |-> p])
        PROVE  /\ s.cmd \in Used'
               /\ s.patch.payload \in Calls =>
                    s.patch.tx = s.patch.payload /\ s.cmd = CommandOf[s.patch.payload]
    BY <2>4, UsedGrows DEF NewWrite, Origins
  <2>5. ASSUME NEW t \in Tabs, NEW c \in Command, c = tab[t].cmd, RecordSigned(t) \/ Executed(t),
               NEW patch, NewWrite(s, c, patch), patch.payload \in {"keep", "result"}
        PROVE  /\ s.cmd \in Used'
               /\ s.patch.payload \in Calls =>
                    s.patch.tx = s.patch.payload /\ s.cmd = CommandOf[s.patch.payload]
    <3>1. OpenAt(t, c)
      BY <2>5 DEF RecordSigned, Executed, OpenAt
    <3>2. s.cmd = c /\ s.patch.payload \notin Calls
      BY <2>5, RowAssumption DEF NewWrite
    <3> QED
      BY <1>1, <3>1, <3>2 DEF Origins
  <2> QED
    BY <2>1, <2>2, <2>3, <2>4, <2>5, NewStatement
<1> QED
    BY <1>1, <1>2, <1>3, <1>4 DEF Origins

-----------------------------------------------------------------------------
(* A page finds its transaction *)

LEMMA CrashIsLast ==
    ASSUME [Next]_vars, ~crashed'
    PROVE  ~crashed /\ \A i \in Runnable : InsertConflicts(i) => FALSE
    BY DEF Next, vars, InsertConflicts

\* A statement that runs last of its turn and is a write of the row is there to change it.
LEMMA PopWrite ==
    ASSUME OneConnection, IInv, NEW i \in Runnable, PopStep(i), NEW c, db[1] \in WritesFor(c)
    PROVE  c \in Command /\ rows'[c] # NoRow
<1>1. i = 1 /\ db[1].op \in Writes /\ db[1].cmd = c
    BY PopKeeps DEF WritesFor
<1>2. UpdateRow(i) \/ InsertRow(i)
    BY <1>1 DEF PopStep, WalletForCall, TxForPage, WalletsForPage, WalletToSign, TxToExecute,
       TxToSign, Writes
<1> QED
    BY <1>1, <1>2, WriteRan

LEMMA RowComes ==
    ASSUME OneConnection, IInv, Origins, Finds, [Next]_vars, restarts = 0, ~Restart, ~crashed',
           NEW c \in Used'
    PROVE  rows'[c] # NoRow \/ Has(WritesFor(c))'
<1>1. c \in Command
    BY LifecycleAssumption DEF Used
<1>2. ~crashed /\ ~(\E i \in Runnable : InsertConflicts(i))
    BY CrashIsLast
<1>3. PICK X : X = WritesFor(c) /\ X \in Kinds
    BY <1>1 DEF Kinds
<1>4. CASE \E p \in Calls : Prepared(p) /\ c = CommandOf[p]
  <2>1. PICK p \in Calls : Prepared(p) /\ c = CommandOf[p]
    BY <1>4
  <2>2. PICK s, patch : NewWrite(s, c, patch) /\ Issue(<<s>>)
    BY <2>1, CallPushes
  <2>3. s \in Stmt /\ s \in X
    BY <1>3, <2>2 DEF NewWrite
  <2>4. Has(X)'
    BY <2>2, <2>3, PushOrder DEF IInv, Statements
  <2> QED
    BY <1>3, <2>4
<1>5. CASE rows[c] # NoRow
    BY <1>1, <1>5, RowStays
<1>6. CASE Has(X)
  <2>1. CASE \E i \in Runnable : TurnStep(i)
    BY <1>3, <1>6, <2>1, TurnKeeps DEF Kept
  <2>2. CASE \E i \in Runnable : PopStep(i)
    BY <1>3, <1>6, <2>2, PopKeeps, PopWrite
  <2>3. CASE PushStep
    BY <1>3, <1>6, <2>3, PushHas
  <2>4. CASE db' = db
    BY <1>3, <1>6, <2>4, SameOrder DEF Kept
  <2> QED
    BY <1>2, <2>1, <2>2, <2>3, <2>4, StepKinds
<1>7. c \in Used \/ \E p \in Calls : Prepared(p) /\ c = CommandOf[p]
    BY UsedGrows DEF Origins
<1> QED
    BY <1>2, <1>3, <1>4, <1>5, <1>6, <1>7 DEF Finds

\* What page t waits for when it reads its transaction.
LEMMA LoadKinds ==
    ASSUME IInv, NEW t \in Tabs, NEW X, NEW Y, Y = TurnsOf(t, {"txForPage"}),
           PushStep, ~(\E p \in Calls : OpenPage(t, p)), EachAfter(X, Y)
    PROVE  EachAfter(X, Y)'
<1>1. ~Comes(Y)
    BY TurnComes DEF Reads, PageReads, Steps
<1> QED
    BY <1>1, PushKept

LEMMA LoadWaits ==
    ASSUME OneConnection, IInv, Origins, Finds, [Next]_vars, restarts = 0, ~Restart,
           NEW t \in Tabs, NEW c \in Command, OpenAt(t, c)', rows'[c] = NoRow
    PROVE  EachAfter(WritesFor(c), TurnsOf(t, {"txForPage"}))'
<1>1. PICK X, Y : X = WritesFor(c) /\ Y = TurnsOf(t, {"txForPage"})
    OBVIOUS
<1>2. X \in Kinds /\ Y \in Kinds
    BY <1>1 DEF Kinds
<1>3. rows[c] = NoRow
    BY RowStays
<1>4. CASE \E p \in Calls : OpenPage(t, p) /\ c = CommandOf[p]
  <2>1. PICK p \in Calls : OpenPage(t, p) /\ c = CommandOf[p]
    BY <1>4
  <2>2. PICK r, s : /\ NewRequest(r, t, "txForPage") /\ NewRequest(s, t, "walletsForPage")
                    /\ Issue(<<r, s>>)
    BY <2>1, PagePushes
  <2>3. r \in Stmt /\ s \in Stmt /\ Rounds(r) = 2 /\ Rounds(s) = 2 /\ s \notin Y
    BY <1>1, <2>2 DEF NewRequest
  <2>4. Has(X)
    <3>1. c \in Used
      BY <2>1 DEF OpenPage, Used
    <3>2. ~crashed
      BY <2>1 DEF Next, OpenPage, vars, Issue, store
    <3> QED
      BY <1>1, <1>3, <3>1, <3>2 DEF Finds
  <2>5. PICK j \in DOMAIN db : db[j] \in X
    BY <2>4 DEF Has
  <2>6. Rounds(db[j]) <= 2
    BY <1>1, <2>5 DEF WritesFor, Writes, Rounds
  <2>7. ~Has(Y)
    <3>1. tab[t].at = "closed"
      BY <2>1 DEF OpenPage
    <3> QED
      BY <1>1, <3>1, GoodMember DEF Has, TurnsOf, GoodStmt, PageReads
  <2>8. EachAfter(X, Y)
    BY <2>7, NoneAfter
  <2>9. EachAfter(X, Y)'
    BY <2>2, <2>3, <2>5, <2>6, <2>8, PushTwoOrder DEF IInv, Statements
  <2> QED
    BY <1>1, <2>9
<1>5. CASE ~(\E p \in Calls : OpenPage(t, p))
  <2>1. EachAfter(X, Y)
    BY <1>1, <1>3, <1>5, OpenStays DEF Finds
  <2>2. EachAfter(X, Y)'
    <3>1. CASE \E i \in Runnable : TurnStep(i)
      BY <1>2, <2>1, <3>1, TurnKeeps DEF Kept
    <3>2. CASE \E i \in Runnable : PopStep(i)
      BY <1>1, <2>1, <3>2, PopKeeps, PopWrite
    <3>3. CASE PushStep
      BY <1>1, <1>5, <2>1, <3>3, LoadKinds
    <3>4. CASE db' = db
      BY <2>1, <3>4, SameOrder DEF Kept
    <3>5. CASE db' = <<>>
      BY <3>5, NoOrder
    <3> QED
      BY <3>1, <3>2, <3>3, <3>4, <3>5, StepKinds
  <2> QED
    BY <1>1, <2>2
<1>6. CASE \E p \in Calls : OpenPage(t, p) /\ c # CommandOf[p]
  <2>1. PICK p \in Calls : OpenPage(t, p) /\ c # CommandOf[p]
    BY <1>6
  <2>2. tab'[t].cmd = CommandOf[p]
    BY <2>1 DEF OpenPage, IInv, Types, Page
  <2> QED
    BY <2>1, <2>2 DEF OpenAt
<1> QED
    BY <1>4, <1>5, <1>6

LEMMA FindsKeep ==
    ASSUME OneConnection, IInv, Origins, Finds, [Next]_vars
    PROVE  Finds'
<1> SUFFICES ASSUME restarts' = 0
             PROVE  /\ ~crashed' => \A c \in Used' : rows'[c] # NoRow \/ Has(WritesFor(c))'
                    /\ \A t \in Tabs : tab'[t].status # "missing"
                    /\ \A t \in Tabs, c \in Command : OpenAt(t, c)' =>
                            rows'[c] # NoRow \/ EachAfter(WritesFor(c), TurnsOf(t, {"txForPage"}))'
    BY DEF Finds
<1>1. restarts = 0 /\ ~Restart
    BY RestartsCounted DEF Origins, Restart
<1>2. ASSUME NEW t \in Tabs, tab'[t].status = "missing"
      PROVE  FALSE
  <2>1. tab[t].status # "missing"
    BY <1>1 DEF Finds
  <2>2. PageLoads(t) /\ rows[tab[t].cmd] = NoRow
    <3>1. rows[tab[t].cmd] # NoRow /\ PageLoads(t) => tab[t].cmd \in Command
      BY TurnOfPage DEF PageLoads, TxForPage, PageReads, IInv, Pages, GoodTab
    <3>2. ~(PageLoads(t) /\ rows[tab[t].cmd] # NoRow)
      BY <1>2, <3>1 DEF PageLoads, IInv, Types, Row
    <3>3. ~SameBut(t, {}) /\ ~PageOpens(t) /\ ~PageKnowsParty(t) /\ ~PageApproves(t)
          /\ ~PageSigns(t) /\ ~PageSigned(t) /\ ~PageStops(t) /\ ~PageExecutes(t)
          /\ ~PageSubmits(t) /\ ~PageFinishes(t)
      BY <1>2, <2>1 DEF SameBut, Fields, PageOpens, PageKnowsParty, PageApproves, PageSigns,
         PageSigned, PageStops, PageExecutes, PageSubmits, PageFinishes
    <3> QED
      BY <3>2, <3>3, PageFields
  <2>3. PICK i \in Runnable : TxForPage(i) /\ db[i].by = t
    BY <2>2 DEF PageLoads
  <2>4. PICK c \in Command : OpenAt(t, c)
    <3>1. tab[t].at # "closed" /\ tab[t].cmd \in Command
      BY <2>3, TurnOfPage DEF TxForPage, PageReads, IInv, Pages, GoodTab
    <3> QED
      BY <3>1 DEF OpenAt
  <2>5. i = 1 /\ 1 \in DOMAIN db /\ db[1] \in Stmt /\ Rounds(db[1]) = 1
    BY <2>3, PopKeeps DEF PopStep
  <2>6. db[1] \in TurnsOf(t, {"txForPage"})
    BY <2>3, <2>5, KindOfWrite DEF TxForPage, Wants
  <2>7. ~EachAfter(WritesFor(c), TurnsOf(t, {"txForPage"}))
    BY <2>5, <2>6, LastRound DEF IInv, Statements
  <2> QED
    BY <1>1, <2>2, <2>4, <2>7 DEF Finds, OpenAt
<1>3. ASSUME ~crashed', NEW c \in Used'
      PROVE  rows'[c] # NoRow \/ Has(WritesFor(c))'
    BY <1>1, <1>3, RowComes
<1>4. ASSUME NEW t \in Tabs, NEW c \in Command, OpenAt(t, c)', rows'[c] = NoRow
      PROVE  EachAfter(WritesFor(c), TurnsOf(t, {"txForPage"}))'
    BY <1>1, <1>4, LoadWaits
<1> QED
    BY <1>2, <1>3, <1>4

LEMMA NothingIssued ==
    ASSUME Init, NEW X, NEW Y
    PROVE  ~Has(X) /\ AllBefore(X, Y) /\ EachAfter(X, Y) /\ AtMostOne(X)
    BY DEF Init, Has, AllBefore, EachAfter, AtMostOne

LEMMA FindsInit == Init => Origins /\ Finds
<1> SUFFICES ASSUME Init
             PROVE  Origins /\ Finds
    OBVIOUS
<1>1. Used = {}
    BY DEF Init, Used
<1>2. \A t \in Tabs : tab[t].at = "closed" /\ tab[t].status = ""
    BY DEF Init, Closed
<1>3. restarts = 0 /\ db = <<>>
    BY DEF Init
<1>4. Calling
    BY NothingIssued DEF Calling
<1>5. Origins
  <2>1. \A k \in DOMAIN db : Origin(db[k])
    BY <1>3
  <2> QED
    BY <1>2, <1>3, <1>4, <2>1 DEF Origins, OpenAt
<1>6. Finds
    BY <1>1, <1>2 DEF Finds, OpenAt
<1> QED
    BY <1>5, <1>6

LEMMA OriginsHold == OneConnection /\ Spec => [](IInv /\ Origins)
<1>1. CASE OneConnection
  <2>1. Init => IInv /\ Origins
    BY InitIInv, FindsInit
  <2>2. IInv /\ Origins /\ [Next]_vars => IInv' /\ Origins'
    BY <1>1, NextKeeps, StutterKeeps, OriginsKeep
  <2> QED
    BY <2>1, <2>2, PTL DEF Spec
<1>2. CASE ~OneConnection
    BY <1>2, PTL
<1> QED
    BY <1>1, <1>2

\* With one connection, as of SQLite, however many pages are open and whatever command ids
\* the dApps reuse: as long as the gateway has not restarted, a page that opens at
\* a userUrl finds the row that setTransaction, which nobody awaits, has yet to write.
THEOREM EveryPageFindsItsTransaction == OneConnection /\ Spec => []PageFindsTransaction
<1>1. CASE OneConnection
  <2>1. IInv /\ Origins /\ Finds /\ [Next]_vars => Finds'
    BY <1>1, FindsKeep
  <2>2. Finds => PageFindsTransaction
    BY DEF Finds, PageFindsTransaction
  <2>3. Init => Finds
    BY FindsInit
  <2> QED
    BY <1>1, <2>1, <2>2, <2>3, OriginsHold, PTL DEF Spec
<1>2. CASE ~OneConnection
    BY <1>2, PTL
<1> QED
    BY <1>1, <1>2

-----------------------------------------------------------------------------
(* A page shows what its command's row holds *)

\* Fresh command ids: no call prepares what another one's userUrl is out for.
LEMMA FreshCommand ==
    ASSUME NEW p \in Calls, Prepared(p), Fresh(CommandOf[p])
    PROVE  CommandOf[p] \notin Used
    BY DEF Fresh, Prepared, Used

LEMMA CallWritesStay ==
    ASSUME OneConnection, IInv, [Next]_vars, NEW c \in Command, Fresh(c), c \in Used,
           NEW X, X = CallWrites(c), ~Has(X)
    PROVE  ~Has(X)'
<1>1. X \in Kinds
    BY DEF Kinds
<1>2. PushStep => ~Comes(X)
    BY WriteComes, FreshCommand
<1> QED
    BY <1>1, <1>2, StepKinds, TurnKeeps, PopKeeps, PushKept, SameOrder, NoOrder DEF Kept

\* The row of c holds a payload that it did not hold before.
LEMMA HoldsStays ==
    ASSUME OneConnection, IInv, [Next]_vars, NEW c \in Command, NEW p \in Calls,
           rows'[c] # NoRow, rows'[c].payload = p
    PROVE  \/ Holds(c, p) /\ rows'[c] = rows[c]
           \/ \E i \in Runnable : /\ UpdateRow(i) \/ InsertRow(i)
                                  /\ i = 1 /\ 1 \in DOMAIN db /\ db[1] \in WritesFor(c)
                                  /\ rows'[c].tx = db[1].patch.tx
                                  /\ \/ db[1].patch.payload = p
                                     \/ db[1].patch.payload = "keep" /\ Holds(c, p)
<1>1. CASE rows'[c] = rows[c]
    BY <1>1 DEF Holds
<1>2. CASE rows'[c] # rows[c]
  <2>1. PICK i \in Runnable : UpdateRow(i) \/ InsertRow(i)
    BY <1>2, RowsChange
  <2>2. PICK d : d = db[i].cmd
    OBVIOUS
  <2>3. /\ i = 1 /\ 1 \in DOMAIN db /\ d \in Command /\ db[1].cmd = d
        /\ db[1] \in WritesFor(d) /\ db[1].patch \in Patch
    BY <2>1, <2>2, WriteRan
  <2>4. d = c
    BY <1>2, <2>1, <2>2, WriteRan
  <2>5. CASE UpdateRow(i)
    <3>1. rows[c] \in Row
      BY <2>3, <2>4, <2>5, GoodMember DEF UpdateRow, GoodStmt
    <3>2. rows'[c] = Updated(rows[c], db[1].patch)
      BY <2>3, <2>4, <2>5 DEF UpdateRow, IInv, Types
    <3>3. \/ db[1].patch.payload = p
          \/ db[1].patch.payload = "keep" /\ Holds(c, p)
      BY <3>1, <3>2, RowAssumption DEF Updated, Holds
    <3>4. rows'[c].tx = db[1].patch.tx
      BY <3>2 DEF Updated
    <3> QED
      BY <2>1, <2>3, <2>4, <3>3, <3>4
  <2>6. CASE InsertRow(i)
    <3>1. rows'[c] = Inserted(db[1].patch)
      BY <2>3, <2>4, <2>6 DEF InsertRow, IInv, Types
    <3>2. db[1].patch.payload = p /\ rows'[c].tx = db[1].patch.tx
      BY <3>1, RowAssumption DEF Inserted
    <3> QED
      BY <2>1, <2>3, <2>4, <3>2
  <2> QED
    BY <2>1, <2>5, <2>6
<1> QED
    BY <1>1, <1>2

LEMMA NoNewHolds ==
    ASSUME OneConnection, IInv, [Next]_vars, NEW c \in Command, NEW p \in Calls,
           rows'[c] # NoRow, rows'[c].payload = p, ~Has(CallWrites(c))
    PROVE  Holds(c, p)
<1>1. ASSUME 1 \in DOMAIN db, db[1] \in WritesFor(c), db[1].patch.payload = p
      PROVE  FALSE
    BY <1>1 DEF Has, CallWrites
<1> QED
    BY <1>1, HoldsStays

\* The read of page t's transaction.
LEMMA LoadIsFirst ==
    ASSUME OneConnection, IInv, NEW t \in Tabs, PageLoads(t)
    PROVE  /\ 1 \in DOMAIN db /\ db[1] \in TurnsOf(t, {"txForPage"}) /\ Rounds(db[1]) = 1
           /\ Has(TurnsOf(t, {"txForPage"}))
           /\ AtMostOne(TurnsOf(t, {"txForPage"}))
           /\ ~Has(TurnsOf(t, {"txForPage"}))'
           /\ rows' = rows
           /\ tab[t].at # "closed" /\ tab[t].cmd \in Command /\ tab'[t].status # ""
<1>1. PICK i \in Runnable : TxForPage(i) /\ db[i].by = t
    BY DEF PageLoads
<1>2. i = 1 /\ 1 \in DOMAIN db /\ db[1] \in Stmt /\ Rounds(db[1]) = 1
    BY <1>1, PopKeeps DEF PopStep
<1>3. db[1] \in TurnsOf(t, {"txForPage"})
    BY <1>1, <1>2, KindOfWrite DEF TxForPage, Wants
<1>4. AtMostOne(TurnsOf(t, {"txForPage"}))
    BY DEF AtMostOne, TurnsOf, IInv, Alone, SameTurn, PageReads
<1>5. ~Has(TurnsOf(t, {"txForPage"}))'
    BY <1>1, <1>3, <1>4, PopKeeps DEF PopStep
<1>6. tab[t].at # "closed" /\ tab[t].cmd \in Command
    BY <1>1, TurnOfPage DEF TxForPage, PageReads, IInv, Pages, GoodTab
<1>7. rows' = rows
    BY <1>1 DEF TxForPage
<1>8. tab'[t].status # ""
    BY <1>6 DEF PageLoads, IInv, Types, Row
<1> QED
    BY <1>2, <1>3, <1>4, <1>5, <1>6, <1>7, <1>8 DEF Has

LEMMA StatusMoves ==
    ASSUME OneConnection, IInv, [Next]_vars, NEW t \in Tabs
    PROVE  tab'[t].status = tab[t].status \/ PageLoads(t) \/ PageFinishes(t)
    BY PageFields DEF SameBut, Fields, PageOpens, PageKnowsParty, PageApproves, PageSigns,
       PageSigned, PageStops, PageExecutes, PageSubmits

LEMMA NewPage ==
    ASSUME IInv, NEW t \in Tabs, NEW p \in Calls, OpenPage(t, p)
    PROVE  /\ tab[t] = Closed /\ tab[t].status = "" /\ tab'[t].status = ""
           /\ tab'[t].cmd = CommandOf[p]
<1>1. tab \in [Tabs -> Page] /\ tab[t] \in Page
    BY DEF IInv, Types
<1>2. tab[t] = Closed
    BY DEF OpenPage, IInv, Pages, GoodTab
<1>3. SameBut(t, {"at", "cmd"}) /\ tab'[t].cmd = CommandOf[p]
    BY <1>1 DEF OpenPage, SameBut, Fields, Page
<1>4. tab'[t].status = tab[t].status
    BY <1>3 DEF SameBut, Fields
<1>5. tab[t].status = ""
  <2>1. Closed.status = ""
    BY DEF Closed
  <2> QED
    BY <1>2, <2>1
<1> QED
    BY <1>2, <1>3, <1>4, <1>5

\* A page of which the party is known has loaded; so has one that signs or executes.
LEMMA SubmittedIsLoaded ==
    ASSUME IInv, Loading, NEW t \in Tabs, tab[t].at \in {"atDriver", "signed", "recording", "answered", "executing", "submitted"}
    PROVE  tab[t].as # NoWallet /\ tab[t].party # NoWallet /\ tab[t].status # ""
    BY DEF IInv, Pages, GoodTab, Loading

LEMMA LoadingKeeps ==
    ASSUME OneConnection, IInv, Origins, Loading, [Next]_vars
    PROVE  Loading'
<1> SUFFICES ASSUME NEW t \in Tabs, NEW X, NEW Y,
                    X = TurnsOf(t, {"txForPage"}), Y = TurnsOf(t, {"walletsForPage"})
             PROVE  /\ tab'[t].party # NoWallet => tab'[t].status # ""
                    /\ Has(X)' => tab'[t].status = ""
                    /\ tab'[t].status = "" => EachAfter(X, Y)'
                    /\ \A c \in Command : OpenAt(t, c)' /\ Fresh(c) =>
                         IF tab'[t].status = "" THEN AllBefore(CallWrites(c), X)'
                                                ELSE ~Has(CallWrites(c))'
    BY DEF Loading, Fresh
<1>1. /\ tab[t].party # NoWallet => tab[t].status # ""
      /\ Has(X) => tab[t].status = ""
      /\ tab[t].status = "" => EachAfter(X, Y)
      /\ \A c \in Command : OpenAt(t, c) /\ Fresh(c) =>
            IF tab[t].status = "" THEN AllBefore(CallWrites(c), X) ELSE ~Has(CallWrites(c))
    BY DEF Loading
<1>2. X \in Kinds /\ Y \in Kinds /\ \A c \in Command : CallWrites(c) \in Kinds
    BY DEF Kinds
<1>3. PageFinishes(t) => tab[t].status # "" /\ tab'[t].status # ""
    BY SubmittedIsLoaded DEF PageFinishes
<1>4. PageLoads(t) => tab[t].status = "" /\ tab'[t].status # "" /\ ~Has(X)' /\ ~PushStep
    <2>1. PageLoads(t) => Has(X) /\ tab'[t].status # "" /\ ~Has(X)'
      BY LoadIsFirst
    <2>2. PageLoads(t) => Has(X)'  \/ ~PushStep
      BY <2>1, PushKept
    <2> QED
      BY <1>1, <2>1, <2>2
<1>5. tab[t].status # "" => tab'[t].status # ""
    BY <1>3, <1>4, StatusMoves
<1>6. ASSUME tab'[t].party # NoWallet
      PROVE  tab'[t].status # ""
  <2>1. CASE tab[t].party # NoWallet
    BY <1>1, <1>5, <2>1
  <2>2. CASE PageKnowsParty(t)
    <3>1. PICK i \in Runnable : WalletsForPage(i) /\ db[i].by = t
      BY <2>2 DEF PageKnowsParty
    <3>2. i = 1 /\ 1 \in DOMAIN db /\ db[1] \in Stmt /\ Rounds(db[1]) = 1
      BY <3>1, PopKeeps DEF PopStep
    <3>3. db[1] \in Y
      BY <3>1, <3>2, KindOfWrite DEF WalletsForPage, Wants
    <3>4. ~EachAfter(X, Y)
      BY <3>2, <3>3, LastRound DEF IInv, Statements
    <3> QED
      BY <1>1, <1>5, <3>4
  <2>3. tab'[t].party = tab[t].party \/ PageKnowsParty(t)
    BY PageFields DEF SameBut, Fields, PageOpens, PageLoads, PageApproves, PageSigns,
       PageSigned, PageStops, PageExecutes, PageSubmits, PageFinishes
  <2> QED
    BY <1>6, <2>1, <2>2, <2>3
<1>7. ASSUME Has(X)'
      PROVE  tab'[t].status = ""
  <2>1. CASE \E p \in Calls : OpenPage(t, p)
    BY <2>1, NewPage
  <2>2. CASE ~(\E p \in Calls : OpenPage(t, p))
    <3>1. PushStep => ~Comes(X)
      BY <2>2, TurnComes DEF Reads, PageReads, Steps
    <3>2. Has(X)
      BY <1>2, <1>7, <3>1, StepKinds, TurnKeeps, PopKeeps, PushKept, SameOrder, NoOrder DEF Kept
    <3> QED
      BY <1>1, <1>3, <1>4, <1>7, <3>2, StatusMoves
  <2> QED
    BY <2>1, <2>2
<1>8. ASSUME tab'[t].status = ""
      PROVE  EachAfter(X, Y)'
  <2>1. tab[t].status = "" /\ EachAfter(X, Y)
    BY <1>1, <1>5, <1>8
  <2>2. CASE \E i \in Runnable : PopStep(i)
    <3>1. PICK i \in Runnable : PopStep(i)
      BY <2>2
    <3>2. db[1] \notin X
      <4>1. SUFFICES ASSUME db[1] \in X
                     PROVE  FALSE
        OBVIOUS
      <4>2. i = 1 /\ db[1].by = t /\ Wants(db[1]) = "txForPage"
        BY <3>1, <4>1, PopKeeps DEF TurnsOf
      <4>3. db[1].op = "txForPage" /\ TxForPage(i)
        BY <3>1, <4>2 DEF Wants, PopStep, UpdateRow, InsertRow, WalletForCall, TxForPage,
           WalletsForPage, WalletToSign, TxToExecute, TxToSign
      <4>4. tab[t].at # "closed" /\ tab[t].cmd \in Command /\ tab[t] \in Page
        BY <4>2, <4>3, TurnOfPage DEF PageReads, IInv, Pages, GoodTab, Types
      <4>5. tab'[t].status # ""
        <5>1. CASE rows[tab[t].cmd] = NoRow
          <6>1. tab' = [tab EXCEPT ![t].status = "missing"] /\ tab \in [Tabs -> Page]
            BY <4>2, <4>3, <5>1 DEF TxForPage, IInv, Types
          <6> QED
            BY <4>4, <6>1 DEF Page
        <5>2. CASE rows[tab[t].cmd] # NoRow
          <6>1. PICK row \in Row : row = rows[tab[t].cmd]
            BY <4>4, <5>2 DEF IInv, Types
          <6>2. tab' = [tab EXCEPT ![t].tx = row.tx, ![t].status = row.status]
            BY <4>2, <4>3, <5>2, <6>1 DEF TxForPage
          <6>3. tab'[t].status = row.status
            BY <4>4, <6>2 DEF IInv, Types, Page
          <6> QED
            BY <6>3 DEF Row
        <5> QED
          BY <5>1, <5>2
      <4> QED
        BY <1>8, <4>5
    <3> QED
      BY <2>1, <3>1, <3>2, PopKeeps
  <2>3. CASE \E p \in Calls : OpenPage(t, p)
    <3>1. PICK r, s : /\ NewRequest(r, t, "txForPage") /\ NewRequest(s, t, "walletsForPage")
                      /\ Issue(<<r, s>>)
      BY <2>3, PagePushes
    <3>2. r \in Stmt /\ s \in Stmt /\ Rounds(r) <= Rounds(s) /\ r \in X /\ r \notin Y
      BY <3>1 DEF NewRequest
    <3> QED
      BY <2>1, <3>1, <3>2, PushTwoOrder DEF IInv, Statements
  <2>4. CASE PushStep /\ ~(\E p \in Calls : OpenPage(t, p))
    <3>1. ~Comes(Y)
      BY <2>4, TurnComes DEF Reads, PageReads, Steps
    <3> QED
      BY <2>1, <2>4, <3>1, PushKept
  <2> QED
    BY <1>2, <2>1, <2>2, <2>3, <2>4, StepKinds, TurnKeeps, SameOrder, NoOrder DEF Kept
<1>9. ASSUME NEW c \in Command, OpenAt(t, c)', Fresh(c), tab'[t].status = ""
      PROVE  AllBefore(CallWrites(c), X)'
  <2>1. PICK Z : Z = CallWrites(c)
    OBVIOUS
  <2>2. CASE \E p \in Calls : OpenPage(t, p)
    <3>1. ~Has(X)
      BY <2>2, GoodMember DEF OpenPage, Has, TurnsOf, GoodStmt, PageReads
    <3>2. AllBefore(Z, X)
      BY <3>1, NoneAfter
    <3>3. PICK r, s : /\ NewRequest(r, t, "txForPage") /\ NewRequest(s, t, "walletsForPage")
                      /\ Issue(<<r, s>>)
      BY <2>2, PagePushes
    <3>4. /\ r \in Stmt /\ s \in Stmt /\ Rounds(r) = 2 /\ Rounds(s) = 2
          /\ s \notin X /\ r \notin Z /\ s \notin Z
      BY <2>1, <3>3 DEF NewRequest
    <3>5. \A j \in DOMAIN db : db[j] \in Z => Rounds(db[j]) <= 2
      BY <2>1 DEF CallWrites, WritesFor, Writes, Rounds
    <3>6. AllBefore(Z, X)'
      BY <3>2, <3>3, <3>4, <3>5, PushTwoOrder DEF IInv, Statements
    <3> QED
      BY <2>1, <3>6
  <2>3. CASE ~(\E p \in Calls : OpenPage(t, p))
    <3>1. OpenAt(t, c) /\ AllBefore(Z, X)
      BY <1>1, <1>5, <1>9, <2>1, <2>3, OpenStays
    <3>2. PushStep => ~Comes(X)
      BY <2>3, TurnComes DEF Reads, PageReads, Steps
    <3>3. PushStep => ~Comes(Z)
      BY <1>9, <2>1, <3>1, WriteComes, FreshCommand DEF Origins
    <3>4. AllBefore(Z, X)'
      BY <1>2, <2>1, <3>1, <3>2, <3>3, StepKinds, TurnKeeps, PopKeeps, PushKept, SameOrder, NoOrder
      DEF Kept
    <3> QED
      BY <2>1, <3>4
  <2> QED
    BY <2>2, <2>3
<1>10. ASSUME NEW c \in Command, OpenAt(t, c)', Fresh(c), tab'[t].status # ""
       PROVE  ~Has(CallWrites(c))'
  <2>1. PICK Z : Z = CallWrites(c)
    OBVIOUS
  <2>2. OpenAt(t, c)
    <3>1. ASSUME NEW p \in Calls, OpenPage(t, p)
          PROVE  FALSE
      BY <1>10, <3>1, NewPage
    <3> QED
      BY <1>10, <3>1, OpenStays
  <2>3. ~Has(Z)
    <3>1. CASE tab[t].status # ""
      BY <1>1, <1>10, <2>1, <2>2, <3>1
    <3>2. CASE tab[t].status = ""
      <4>1. PageLoads(t)
        BY <1>3, <1>10, <3>2, StatusMoves
      <4>2. 1 \in DOMAIN db /\ db[1] \in X /\ Rounds(db[1]) = 1
        BY <4>1, LoadIsFirst
      <4>3. AllBefore(Z, X)
        BY <1>1, <1>10, <2>1, <2>2, <3>2
      <4> QED
        BY <4>2, <4>3, LastRound DEF IInv, Statements
    <3> QED
      BY <3>1, <3>2
  <2>4. ~Has(Z)'
    BY <1>10, <2>1, <2>2, <2>3, CallWritesStay DEF Origins
  <2> QED
    BY <2>1, <2>4
<1> QED
    BY <1>6, <1>7, <1>8, <1>9, <1>10

LEMMA HeldPayload ==
    ASSUME OneConnection, IInv, Origins, Faithful, [Next]_vars, NEW c \in Command, NEW p \in Calls,
           rows'[c] # NoRow, rows'[c].payload = p
    PROVE  rows'[c].tx = p /\ CommandOf[p] = c
<1>1. CASE Holds(c, p) /\ rows'[c] = rows[c]
    BY <1>1 DEF Faithful
<1>2. ASSUME 1 \in DOMAIN db, db[1] \in WritesFor(c), rows'[c].tx = db[1].patch.tx,
             \/ db[1].patch.payload = p
             \/ db[1].patch.payload = "keep" /\ Holds(c, p)
      PROVE  rows'[c].tx = p /\ CommandOf[p] = c
  <2>1. db[1].op \in Writes /\ db[1].cmd = c
    BY <1>2 DEF WritesFor
  <2>2. CASE db[1].patch.payload = p
    <3>1. db[1].patch.tx = p /\ c = CommandOf[p]
      BY <1>2, <2>1, <2>2 DEF Origins, Origin
    <3> QED
      BY <1>2, <3>1
  <2>3. CASE db[1].patch.payload = "keep" /\ Holds(c, p)
    <3>1. db[1].patch.tx = p
      BY <1>2, <2>1, <2>3 DEF Faithful, Matches
    <3>2. CommandOf[p] = c
      BY <2>3 DEF Faithful
    <3> QED
      BY <1>2, <3>1, <3>2
  <2> QED
    BY <1>2, <2>2, <2>3
<1> QED
    BY <1>1, <1>2, HoldsStays

\* Once page t has loaded, the payload of its command's row is that of the transaction it shows.
LEMMA LoadedShows ==
    ASSUME FreshIds, IInv, Loading, Faithful, NEW t \in Tabs, NEW c \in Command, OpenAt(t, c),
           tab[t].status # ""
    PROVE  ~Has(CallWrites(c)) /\ \A p \in Calls : Holds(c, p) => tab[t].tx = p
    BY DEF FreshIds, Loading, Faithful

LEMMA MatchesKeep ==
    ASSUME OneConnection, IInv, Origins, FreshIds, Loading, Faithful, [Next]_vars,
           NEW k \in DOMAIN db'
    PROVE  Matches(db[k])'
<1>1. PICK s : s = db'[k]
    OBVIOUS
<1> SUFFICES ASSUME s.op \in Writes, s.patch.payload = "keep"
             PROVE  /\ ~Has(CallWrites(s.cmd))'
                    /\ \A p \in Calls : rows'[s.cmd] # NoRow /\ rows'[s.cmd].payload = p => s.patch.tx = p
    BY <1>1 DEF Matches, Holds
<1>2. ASSUME s.cmd \in Used, ~Has(CallWrites(s.cmd)), \A p \in Calls : Holds(s.cmd, p) => s.patch.tx = p
      PROVE  /\ ~Has(CallWrites(s.cmd))'
             /\ \A p \in Calls : rows'[s.cmd] # NoRow /\ rows'[s.cmd].payload = p => s.patch.tx = p
  <2>1. PICK c \in Command : c = s.cmd
    BY <1>2, LifecycleAssumption DEF Used
  <2>2. \A X : X = CallWrites(c) => ~Has(X)'
    BY <1>2, <2>1, CallWritesStay DEF FreshIds
  <2>3. \A p \in Calls : rows'[c] # NoRow /\ rows'[c].payload = p => Holds(c, p)
    BY <1>2, <2>1, NoNewHolds
  <2> QED
    BY <1>2, <2>1, <2>2, <2>3
<1>3. ASSUME NEW r, r.op \in Writes, r.cmd = s.cmd, r.patch = s.patch, Origin(r), Matches(r)
      PROVE  s.cmd \in Used /\ ~Has(CallWrites(s.cmd)) /\ \A p \in Calls : Holds(s.cmd, p) => s.patch.tx = p
    BY <1>3 DEF Origin, Matches
<1>4. ASSUME NEW j \in DOMAIN db, s.cmd = db[j].cmd, s.patch = db[j].patch, db[j].op \in Writes
      PROVE  s.cmd \in Used /\ ~Has(CallWrites(s.cmd)) /\ \A p \in Calls : Holds(s.cmd, p) => s.patch.tx = p
    BY <1>3, <1>4 DEF Origins, Faithful
<1>5. ASSUME NEW t \in Tabs, NEW c \in Command, c = tab[t].cmd, RecordSigned(t),
             NewWrite(s, c, [status |-> "signed", tx |-> tab[t].sig, payload |-> "keep"])
      PROVE  s.cmd \in Used /\ ~Has(CallWrites(s.cmd)) /\ \A p \in Calls : Holds(s.cmd, p) => s.patch.tx = p
  <2>1. s.cmd = c /\ s.patch.tx = tab[t].sig
    BY <1>5 DEF NewWrite
  <2>2. OpenAt(t, c) /\ tab[t].at = "recording" /\ tab[t].sig = tab[t].sent
    BY <1>5 DEF RecordSigned, OpenAt, IInv, Pages, GoodTab
  <2>3. tab[t].as # NoWallet /\ tab[t].status # ""
    BY <2>2, SubmittedIsLoaded
  <2>4. tab[t].sent = tab[t].tx
    BY <2>3 DEF Faithful
  <2> QED
    BY <2>1, <2>2, <2>3, <2>4, LoadedShows DEF Origins
<1>6. ASSUME NEW p \in Calls, NEW c,
             NewWrite(s, c, [status |-> "pending", tx |-> p, payload |-> p])
      PROVE  FALSE
    BY <1>6, RowAssumption DEF NewWrite
<1>7. ASSUME NEW c, NEW x, NewWrite(s, c, [status |-> "executed", tx |-> x, payload |-> "result"])
      PROVE  FALSE
    BY <1>7 DEF NewWrite
<1> QED
    BY <1>1, <1>2, <1>4, <1>5, <1>6, <1>7, NewStatement

LEMMA ShownKeeps ==
    ASSUME OneConnection, IInv, Origins, FreshIds, Loading, Faithful, [Next]_vars,
           NEW t \in Tabs, NEW c \in Command, NEW p \in Calls,
           OpenAt(t, c)', tab'[t].status # "", rows'[c] # NoRow, rows'[c].payload = p
    PROVE  tab'[t].tx = p
<1>1. OpenAt(t, c)
    BY OpenStays, NewPage
<1>2. PageFinishes(t) => tab[t].status # ""
    BY SubmittedIsLoaded DEF PageFinishes
<1>3. CASE tab[t].status = ""
  <2>1. PageLoads(t)
    BY <1>2, <1>3, StatusMoves
  <2>2. rows' = rows
    BY <2>1, LoadIsFirst
  <2>3. tab[t].cmd = c
    BY <1>1 DEF OpenAt
  <2>4. tab'[t].tx = rows[c].tx /\ Holds(c, p)
    BY <2>1, <2>2, <2>3 DEF PageLoads, Holds
  <2> QED
    BY <2>4 DEF Faithful
<1>4. CASE tab[t].status # ""
  <2>1. ~Has(CallWrites(c)) /\ \A q \in Calls : Holds(c, q) => tab[t].tx = q
    BY <1>1, <1>4, LoadedShows
  <2>2. tab[t].tx = p
    BY <2>1, NoNewHolds
  <2>3. ~PageLoads(t)
    BY <1>4, LoadIsFirst DEF Loading
  <2>4. tab'[t].tx = tab[t].tx
    BY <2>3, PageFields DEF SameBut, Fields, PageOpens, PageKnowsParty, PageApproves, PageSigns,
       PageSigned, PageStops, PageExecutes, PageSubmits, PageFinishes
  <2> QED
    BY <2>2, <2>4
<1> QED
    BY <1>3, <1>4

LEMMA SentKeeps ==
    ASSUME OneConnection, IInv, Loading, Faithful, [Next]_vars, NEW t \in Tabs, tab'[t].as # NoWallet
    PROVE  tab'[t].sent = tab'[t].tx /\ tab'[t].status # ""
<1>1. CASE PageApproves(t)
  <2>1. tab[t].party # NoWallet /\ tab'[t].sent = tab[t].tx /\ tab'[t].tx = tab[t].tx
        /\ tab'[t].status = tab[t].status
    BY <1>1 DEF PageApproves, SameBut, Fields
  <2> QED
    BY <2>1 DEF Loading
<1>2. CASE ~PageApproves(t)
  <2>1. tab'[t].as = tab[t].as /\ tab'[t].sent = tab[t].sent
    BY <1>2, PageFields DEF SameBut, Fields, PageOpens, PageLoads, PageKnowsParty, PageSigns,
       PageSigned, PageStops, PageExecutes, PageSubmits, PageFinishes
  <2>2. tab[t].sent = tab[t].tx /\ tab[t].status # ""
    BY <2>1 DEF Faithful
  <2>3. ~PageLoads(t)
    BY <2>2, LoadIsFirst DEF Loading
  <2>4. tab'[t].tx = tab[t].tx
    BY <2>3, PageFields DEF SameBut, Fields, PageOpens, PageKnowsParty, PageApproves, PageSigns,
       PageSigned, PageStops, PageExecutes, PageSubmits, PageFinishes
  <2>5. tab'[t].status # ""
    BY <2>2, <2>3, StatusMoves DEF PageFinishes
  <2> QED
    BY <2>1, <2>2, <2>4, <2>5
<1> QED
    BY <1>1, <1>2

LEMMA WholeKeeps ==
    ASSUME IInv, Faithful, [Next]_vars, NEW t \in Tabs, tab'[t].at = "submitted"
    PROVE  Whole(tab'[t].held)
<1>1. CASE PageSubmits(t)
  <2>1. PICK c : c = tab[t].cmd
    OBVIOUS
  <2>2. c \in Command /\ tab'[t].held = rows[c]
    BY <1>1, <2>1 DEF PageSubmits, IInv, Pages, GoodTab
  <2> QED
    BY <2>2 DEF Faithful, Holds, Whole
<1>2. CASE ~PageSubmits(t)
  <2>1. tab[t].at = "submitted" /\ tab'[t].held = tab[t].held
    BY <1>2, PageFields DEF SameBut, Fields, PageOpens, PageLoads, PageKnowsParty, PageApproves,
       PageSigns, PageSigned, PageStops, PageExecutes, PageFinishes
  <2> QED
    BY <2>1 DEF Faithful
<1> QED
    BY <1>1, <1>2

LEMMA FaithfulKeeps ==
    ASSUME OneConnection, IInv, Origins, FreshIds, Loading, Faithful, [Next]_vars
    PROVE  Faithful'
<1>1. \A c \in Command, p \in Calls : Holds(c, p)' => rows'[c].tx = p /\ CommandOf[p] = c
    BY HeldPayload DEF Holds
<1>2. \A k \in DOMAIN db' : Matches(db[k])'
    BY MatchesKeep
<1>3. ASSUME NEW t \in Tabs
      PROVE  \A c \in Command, p \in Calls :
                OpenAt(t, c)' /\ tab'[t].status # "" /\ Holds(c, p)' => tab'[t].tx = p
    BY ShownKeeps DEF Holds
<1>4. \A t \in Tabs : tab'[t].as # NoWallet => tab'[t].sent = tab'[t].tx /\ tab'[t].status # ""
    BY SentKeeps
<1>5. \A t \in Tabs : tab'[t].at = "submitted" => Whole(tab'[t].held)
    BY WholeKeeps
<1> QED
    BY <1>1, <1>2, <1>3, <1>4, <1>5 DEF Faithful, Whole

LEMMA FaithfulInit == Init => Loading /\ Faithful
<1> SUFFICES ASSUME Init
             PROVE  Loading /\ Faithful
    OBVIOUS
<1>1. \A t \in Tabs : /\ tab[t].at = "closed" /\ tab[t].status = ""
                      /\ tab[t].party = NoWallet /\ tab[t].as = NoWallet
    BY DEF Init, Closed
<1>2. db = <<>> /\ \A c \in Command : rows[c] = NoRow
    BY DEF Init
<1>3. Loading
    BY <1>1, NothingIssued DEF Loading, OpenAt
<1>4. Faithful
  <2>1. \A k \in DOMAIN db : Matches(db[k])
    BY <1>2
  <2>2. \A c \in Command, p \in Calls : ~Holds(c, p)
    BY <1>2 DEF Holds
  <2> QED
    BY <1>1, <2>1, <2>2 DEF Faithful
<1> QED
    BY <1>3, <1>4

\* What a page submits, whichever way it is executed, is the transaction the row names.
LEMMA SubmitsWhole ==
    ASSUME IInv, Faithful
    PROVE  HeldIsExecuted
<1>1. ASSUME NEW t \in Tabs, tab[t].at = "submitted", ParticipantTakes(t) \/ SignatureHolds(t)
      PROVE  Executes(t) = tab[t].held.tx
  <2>1. tab[t].held \in Row /\ Whole(tab[t].held)
    BY <1>1 DEF IInv, Pages, GoodTab, Faithful
  <2>2. Custody[tab[t].by] = "participant" => tab[t].held.payload \in Calls
    BY <1>1 DEF ParticipantTakes, SignatureHolds
  <2> QED
    BY <2>1, <2>2, RowAssumption DEF Whole, Executes
<1> QED
    BY <1>1 DEF HeldIsExecuted

LEMMA FreshRecords == OneConnection /\ FreshIds /\ Spec => []RInv
<1>1. CASE OneConnection /\ FreshIds
  <2> DEFINE Inv == IInv /\ Origins /\ Loading /\ Faithful /\ RInv
  <2>1. Init => Inv
    BY InitIInv, FindsInit, FaithfulInit, RecordsInit
  <2>2. Inv /\ [Next]_vars => Inv'
    BY <1>1, NextKeeps, StutterKeeps, OriginsKeep, LoadingKeeps, FaithfulKeeps, SubmitsWhole, RecordsKept
  <2> QED
    BY <2>1, <2>2, PTL DEF Spec
<1>2. CASE ~(OneConnection /\ FreshIds)
    BY <1>2, PTL
<1> QED
    BY <1>1, <1>2

\* SQLite, any number of pages and wallets of either custody, restarts and lost answers: if
\* no two calls share a command id, what a row or an event calls executed is on the ledger,
\* and the row names the transaction that was committed.
THEOREM FreshExecutedIsCommitted == OneConnection /\ FreshIds /\ Spec => []ExecutedIsCommitted
    BY FreshRecords, RecordsImply, PTL

-----------------------------------------------------------------------------
(* Writes and the page take turns *)

LEMMA OnePageWas ==
    ASSUME IInv, [Next]_vars, NEW c, OnePageAt(c)'
    PROVE  OnePageAt(c)
    BY OpenStays DEF OnePageAt

LEMMA UnusedIsClear ==
    ASSUME Origins, NEW c, c \notin Used
    PROVE  ~Has(WritesFor(c)) /\ ~Has(CallWrites(c))
<1>1. ~Has(WritesFor(c))
    BY DEF Origins, Origin, Has, WritesFor
<1> QED
    BY <1>1 DEF Has, CallWrites

\* Where a write of a command with an id of its own comes from.
LEMMA FreshWriteComes ==
    ASSUME IInv, Origins, PushStep, NEW c, Fresh(c), Comes(WritesFor(c))
    PROVE  \/ (\E p \in Calls : Prepared(p) /\ c = CommandOf[p]) /\ c \notin Used
           \/ \E t \in Tabs : (RecordSigned(t) \/ Executed(t)) /\ OpenAt(t, c)
    BY WriteComes, FreshCommand

\* A page that waits for a signature or for the ledger, or whose signature is about to be
\* recorded, has no statement under way.
LEMMA BusyPage ==
    ASSUME IInv, Loading, NEW t \in Tabs, tab[t].at \in {"atDriver", "recording", "submitted"}
    PROVE  ~Has(TurnsOf(t, PageReads \cup Steps))
<1> SUFFICES ASSUME NEW k \in DOMAIN db, db[k] \in TurnsOf(t, PageReads \cup Steps)
             PROVE  FALSE
    BY DEF Has
<1>1. db[k] \in Stmt /\ GoodStmt(db[k]) /\ db[k].by = t /\ Wants(db[k]) \in PageReads \cup Steps
    BY GoodMember DEF TurnsOf
<1>2. tab[t].party # NoWallet /\ tab[t].status # ""
    BY SubmittedIsLoaded
<1>3. Wants(db[k]) = "txForPage"
    BY <1>1, <1>2 DEF GoodStmt, PageReads, Steps
<1>4. Has(TurnsOf(t, {"txForPage"}))
    BY <1>1, <1>3 DEF Has, TurnsOf
<1> QED
    BY <1>2, <1>4 DEF Loading

\* A step issues one write at most.
LEMMA OneWriteComes ==
    ASSUME IInv, PushStep, NEW c, NEW X, X \in {WritesFor(c), CallWrites(c)}, ~Has(X)
    PROVE  AtMostOne(X)'
<1>0. db \in Seq(Stmt) /\ AtMostOne(X)
    BY DEF IInv, Statements, Has, AtMostOne
<1>1. ASSUME NEW s \in Stmt, Issue(<<s>>)
      PROVE  AtMostOne(X)'
    BY <1>0, <1>1, PushOrder
<1>2. ASSUME NEW r \in Stmt, NEW s \in Stmt, NEW u, NEW op, NewRequest(s, u, op),
             Rounds(r) <= Rounds(s), Issue(<<r, s>>)
      PROVE  AtMostOne(X)'
  <2>1. s \notin X
    BY <1>2 DEF NewRequest
  <2> QED
    BY <1>0, <1>2, <2>1, PushTwoOrder
<1>3. ASSUME NEW p \in Calls, PrepareExecute(p) \/ Prepared(p)
      PROVE  AtMostOne(X)'
    BY <1>1, <1>3, CallPushes DEF NewRequest, NewWrite
<1>4. ASSUME NEW t \in Tabs,
             Approve(t) \/ SignNow(t) \/ RecordSigned(t) \/ AskToExecute(t) \/ Executed(t)
      PROVE  AtMostOne(X)'
  <2>1. PICK s : Issue(<<s>>) /\ \/ \E op : NewRequest(s, t, op)
                                 \/ \E d, patch : NewWrite(s, d, patch)
    BY <1>4, PagePushes
  <2> QED
    BY <1>1, <2>1 DEF NewRequest, NewWrite
<1>6. ASSUME NEW t \in Tabs, NEW p \in Calls, OpenPage(t, p)
      PROVE  AtMostOne(X)'
  <2>1. PICK r, s : /\ NewRequest(r, t, "txForPage") /\ NewRequest(s, t, "walletsForPage")
                    /\ Issue(<<r, s>>)
    BY <1>6, PagePushes
  <2>2. r \in Stmt /\ s \in Stmt /\ Rounds(r) <= Rounds(s)
    BY <2>1 DEF NewRequest
  <2> QED
    BY <1>2, <2>1, <2>2
<1> QED
    BY <1>3, <1>4, <1>6 DEF PushStep

\* A page that goes to the driver or to the ledger does so with its last statement.
LEMMA BusyStarts ==
    ASSUME OneConnection, IInv, NEW t \in Tabs, PageSigns(t) \/ PageSubmits(t)
    PROVE  /\ 1 \in DOMAIN db /\ Rounds(db[1]) = 1
           /\ db[1] \in TurnsOf(t, PageReads \cup Steps)
           /\ \A X : Has(X)' => Has(X)
<1>1. PICK i \in Runnable : (WalletToSign(i) \/ TxToExecute(i)) /\ db[i].by = t
    BY DEF PageSigns, PageSubmits
<1>2. i = 1 /\ 1 \in DOMAIN db /\ db[1] \in Stmt /\ Rounds(db[1]) = 1
    BY <1>1, PopKeeps DEF PopStep
<1>3. Wants(db[1]) \in Steps
    BY <1>1, <1>2 DEF WalletToSign, TxToExecute, Wants, Steps
<1>4. db[1] \in TurnsOf(t, PageReads \cup Steps)
    BY <1>1, <1>2, <1>3, KindOfWrite
<1>5. \A X : Has(X)' => Has(X)
    BY <1>1, PopKeeps DEF PopStep
<1> QED
    BY <1>2, <1>4, <1>5

LEMMA BusyOrStarts ==
    ASSUME IInv, [Next]_vars, NEW t \in Tabs,
           tab'[t].at \in {"atDriver", "signed", "recording", "submitted"}
    PROVE  \/ PageSigns(t) \/ PageSubmits(t)
           \/ /\ tab[t].at \in {"atDriver", "signed", "recording", "submitted"}
              /\ ~RecordSigned(t) /\ ~Executed(t)
<1>1. tab \in [Tabs -> Page]
    BY DEF IInv, Types
<1>2. RecordSigned(t) => tab'[t].at = "answered"
    BY <1>1 DEF RecordSigned, Page
<1>3. Executed(t) => tab'[t].at = "done"
    BY <1>1 DEF Executed, Page
<1>4. \/ PageSigns(t) \/ PageSubmits(t)
      \/ tab[t].at \in {"atDriver", "signed", "recording", "submitted"}
    BY PageFields DEF SameBut, Fields, PageOpens, PageLoads, PageKnowsParty, PageApproves,
       PageSigned, PageStops, PageExecutes, PageFinishes
<1> QED
    BY <1>2, <1>3, <1>4

\* A command's writes before what its page goes on with, when statements are issued.
LEMMA TurnsPushed ==
    ASSUME IInv, Origins, Loading, PushStep, NEW c \in Command, Fresh(c), OnePageAt(c),
           NEW t \in Tabs, OpenAt(t, c), NEW X, X = WritesFor(c),
           NEW Y, Y = TurnsOf(t, PageReads \cup Steps), AllBefore(X, Y),
           tab[t].at = "atDriver" => ~Has(X)
    PROVE  AllBefore(X, Y)'
<1>0. db \in Seq(Stmt)
    BY DEF IInv, Statements
<1>1. \A j \in DOMAIN db : db[j] \in X => Rounds(db[j]) <= 2
    BY DEF WritesFor, Writes, Rounds
<1>2. CASE RecordSigned(t)
  <2>1. PICK s, d, patch : NewWrite(s, d, patch) /\ Issue(<<s>>)
    BY <1>2, PagePushes
  <2>2. ~Has(Y)
    BY <1>2, BusyPage DEF RecordSigned
  <2>3. s \in Stmt /\ s \notin Y
    BY <2>1 DEF NewWrite, Reads
  <2> QED
    BY <1>0, <2>1, <2>2, <2>3, PushOrder
<1>3. CASE Executed(t)
  <2>1. PICK s, d, patch : NewWrite(s, d, patch) /\ Issue(<<s>>)
    BY <1>3, PagePushes
  <2>2. ~Has(Y)
    BY <1>3, BusyPage DEF Executed
  <2>3. s \in Stmt /\ s \notin Y
    BY <2>1 DEF NewWrite, Reads
  <2> QED
    BY <1>0, <2>1, <2>2, <2>3, PushOrder
<1>4. CASE ~RecordSigned(t) /\ ~Executed(t)
  <2>1. ~Comes(X)
    <3>1. c \in Used
      BY DEF Origins
    <3>2. \A u \in Tabs : OpenAt(u, c) => u = t
      BY DEF OnePageAt
    <3> QED
      BY <1>4, <3>1, <3>2, FreshWriteComes
  <2>2. ASSUME NEW s \in Stmt, NEW op, NewRequest(s, t, op), Rounds(s) >= 2, Issue(<<s>>)
        PROVE  AllBefore(X, Y)'
    <3>1. s \notin X
      BY <2>2 DEF NewRequest
    <3>2. \A j \in DOMAIN db : db[j] \in X => Rounds(db[j]) <= Rounds(s)
      BY <1>1, <2>2, RoundsType
    <3> QED
      BY <1>0, <2>2, <3>1, <3>2, PushOrder
  <2>3. ASSUME Approve(t) \/ AskToExecute(t)
        PROVE  AllBefore(X, Y)'
    <3>1. PICK s : /\ NewRequest(s, t, "walletToSign") \/ NewRequest(s, t, "primaryToExecute")
                   /\ Issue(<<s>>)
      BY <2>3, PagePushes
    <3>2. s \in Stmt /\ Rounds(s) >= 2
      BY <3>1 DEF NewRequest
    <3> QED
      BY <2>2, <3>1, <3>2
  <2>5. ASSUME SignNow(t)
        PROVE  AllBefore(X, Y)'
    <3>1. ~Has(X)'
      BY <2>1, <2>5, PushKept DEF SignNow
    <3> QED
      BY <3>1 DEF Has, AllBefore
  <2>4. CASE Comes(Y)
    <3>1. ~(\E p \in Calls : OpenPage(t, p))
      BY DEF OpenPage, OpenAt
    <3>2. PageReads \cup Steps \subseteq Reads /\ "primaryForCall" \notin PageReads \cup Steps
      BY DEF Reads, PageReads, Steps
    <3>3. PICK W : W = PageReads \cup Steps
      OBVIOUS
    <3>4. Comes(TurnsOf(t, W)) /\ W \subseteq Reads /\ "primaryForCall" \notin W
      BY <2>4, <3>2, <3>3
    <3>5. Approve(t) \/ AskToExecute(t) \/ SignNow(t)
      BY <3>1, <3>4, TurnComes
    <3> QED
      BY <2>3, <2>5, <3>5
  <2> QED
    BY <2>1, <2>4, PushKept DEF Kept
<1> QED
    BY <1>2, <1>3, <1>4

LEMMA TurnsKeep ==
    ASSUME OneConnection, IInv, Origins, Loading, [Next]_vars, NEW c \in Command, Fresh(c),
           OnePageAt(c), Turns(c)
    PROVE  Turns(c)'
<1> SUFFICES ASSUME NEW t \in Tabs, OpenAt(t, c)', NEW X, X = WritesFor(c),
                    NEW Y, Y = TurnsOf(t, PageReads \cup Steps)
             PROVE  /\ AllBefore(X, Y)'
                    /\ tab'[t].at \in {"atDriver", "signed", "recording", "submitted"} =>
                            ~Has(X)'
    BY DEF Turns
<1>1. X \in Kinds /\ Y \in Kinds
    BY DEF Kinds
<1>2. CASE \E p \in Calls : OpenPage(t, p)
  <2>1. ~Has(Y)
    BY <1>2, GoodMember DEF OpenPage, Has, TurnsOf, GoodStmt
  <2>2. PICK r, s : /\ NewRequest(r, t, "txForPage") /\ NewRequest(s, t, "walletsForPage")
                    /\ Issue(<<r, s>>)
    BY <1>2, PagePushes
  <2>3. /\ r \in Stmt /\ s \in Stmt /\ Rounds(r) = 2 /\ Rounds(s) = 2
        /\ r \notin X /\ s \notin X
    BY <2>2 DEF NewRequest
  <2>4. Rounds(r) <= Rounds(s) /\ \A j \in DOMAIN db : db[j] \in X => Rounds(db[j]) <= 2
    BY <2>3 DEF WritesFor, Writes, Rounds
  <2>5. AllBefore(X, Y)
    BY <2>1, NoneAfter
  <2>6. AllBefore(X, Y)'
    BY <2>2, <2>3, <2>4, <2>5, PushTwoOrder DEF IInv, Statements
  <2>7. tab'[t].at = "open"
    <3>1. tab \in [Tabs -> Page] /\ tab[t] \in Page
      BY DEF IInv, Types
    <3>2. PICK p \in Calls : OpenPage(t, p)
      BY <1>2
    <3>3. tab' = [tab EXCEPT ![t].at = "open", ![t].cmd = CommandOf[p]]
      BY <3>2 DEF OpenPage
    <3> QED
      BY <3>1, <3>3 DEF Page
  <2> QED
    BY <2>6, <2>7
<1>3. CASE ~(\E p \in Calls : OpenPage(t, p))
  <2>1. OpenAt(t, c)
    BY <1>3, OpenStays
  <2>2. /\ AllBefore(X, Y)
        /\ tab[t].at \in {"atDriver", "signed", "recording", "submitted"} => ~Has(X)
    BY <2>1 DEF Turns
  <2>3. AllBefore(X, Y)'
    <3>1. PushStep => AllBefore(X, Y)'
      BY <2>1, <2>2, TurnsPushed
    <3> QED
      BY <1>1, <2>2, <3>1, StepKinds, TurnKeeps, PopKeeps, SameOrder, NoOrder DEF Kept
  <2>4. ASSUME tab'[t].at \in {"atDriver", "signed", "recording", "submitted"}
        PROVE  ~Has(X)'
    <3>1. CASE PageSigns(t) \/ PageSubmits(t)
      <4>1. ~Has(X)
        BY <2>2, <3>1, BusyStarts, LastRound DEF IInv, Statements
      <4> QED
        BY <3>1, <4>1, BusyStarts
    <3>2. CASE /\ tab[t].at \in {"atDriver", "signed", "recording", "submitted"}
               /\ ~RecordSigned(t) /\ ~Executed(t)
      <4>1. ~Has(X)
        BY <2>2, <3>2
      <4>2. c \in Used /\ \A u \in Tabs : OpenAt(u, c) => u = t
        BY <2>1 DEF Origins, OnePageAt
      <4>3. PushStep => ~Comes(X)
        BY <3>2, <4>2, FreshWriteComes
      <4> QED
        BY <1>1, <4>1, <4>3, StepKinds, TurnKeeps, PopKeeps, PushKept, SameOrder, NoOrder DEF Kept
    <3> QED
      BY <2>4, <3>1, <3>2, BusyOrStarts
  <2> QED
    BY <2>3, <2>4
<1> QED
    BY <1>2, <1>3

\* The writes of a command are issued when there is none.
LEMMA WritesComeOne ==
    ASSUME IInv, Origins, PushStep, NEW c \in Command, Fresh(c), OnePageAt(c), Turns(c),
           Comes(WritesFor(c))
    PROVE  ~Has(WritesFor(c))
<1>1. CASE c \notin Used
    BY <1>1, UnusedIsClear
<1>2. ASSUME NEW t \in Tabs, RecordSigned(t) \/ Executed(t), OpenAt(t, c)
      PROVE  ~Has(WritesFor(c))
    BY <1>2 DEF RecordSigned, Executed, Turns
<1> QED
    BY <1>1, <1>2, FreshWriteComes

LEMMA AlternateKeeps ==
    ASSUME OneConnection, IInv, Origins, Loading, Alternate, [Next]_vars
    PROVE  Alternate'
<1> SUFFICES ASSUME NEW c \in Command, Fresh(c), OnePageAt(c)', NEW X, X = WritesFor(c)
             PROVE  Turns(c)' /\ AtMostOne(X)'
    BY DEF Alternate, Fresh
<1>1. OnePageAt(c)
    BY OnePageWas
<1>2. Turns(c) /\ AtMostOne(X)
    BY <1>1 DEF Alternate
<1>3. Turns(c)'
    BY <1>1, <1>2, TurnsKeep
<1>4. X \in Kinds
    BY DEF Kinds
<1>5. PushStep => AtMostOne(X)'
  <2>1. CASE PushStep /\ Comes(X)
    <3>1. ~Has(X)
      BY <1>1, <1>2, <2>1, WritesComeOne
    <3> QED
      BY <2>1, <3>1, OneWriteComes
  <2>2. CASE PushStep /\ ~Comes(X)
    BY <1>2, <2>2, PushKept DEF Kept
  <2> QED
    BY <2>1, <2>2
<1>6. AtMostOne(X)'
    BY <1>2, <1>4, <1>5, StepKinds, TurnKeeps, PopKeeps, SameOrder, NoOrder DEF Kept
<1> QED
    BY <1>3, <1>6

LEMMA OneCallWriteKeeps ==
    ASSUME OneConnection, IInv, Origins, OneCallWrite, [Next]_vars
    PROVE  OneCallWrite'
<1> SUFFICES ASSUME NEW c \in Command, Fresh(c), NEW X, X = CallWrites(c)
             PROVE  AtMostOne(X)'
    BY DEF OneCallWrite, Fresh
<1>1. AtMostOne(X) /\ X \in Kinds
    BY DEF OneCallWrite, Kinds
<1>2. PushStep => AtMostOne(X)'
  <2>1. CASE PushStep /\ Comes(X)
    <3>1. ~Has(X)
      BY <2>1, WriteComes, FreshCommand, UnusedIsClear
    <3> QED
      BY <2>1, <3>1, OneWriteComes
  <2>2. CASE PushStep /\ ~Comes(X)
    BY <1>1, <2>2, PushKept DEF Kept
  <2> QED
    BY <2>1, <2>2
<1> QED
    BY <1>1, <1>2, StepKinds, TurnKeeps, PopKeeps, SameOrder, NoOrder DEF Kept

-----------------------------------------------------------------------------
(* Inserts *)

LEMMA RowsThereKeeps ==
    ASSUME OneConnection, IInv, Origins, Finds, Loading, RowsThere, [Next]_vars
    PROVE  RowsThere'
<1> SUFFICES ASSUME restarts' = 0, NEW k \in DOMAIN db', NEW s, s = db'[k], s.op \in Writes,
                    s.patch.payload \notin Calls, Fresh(s.cmd)
             PROVE  rows'[s.cmd] # NoRow
    BY DEF RowsThere, Fresh
<1>1. restarts = 0
    BY RestartsCounted DEF Origins, Restart
<1>2. ASSUME NEW j \in DOMAIN db, s.cmd = db[j].cmd, s.patch = db[j].patch, db[j].op \in Writes
      PROVE  rows'[s.cmd] # NoRow
  <2>1. s.cmd \in Command
    BY <1>2, GoodMember DEF GoodStmt
  <2>2. rows[s.cmd] # NoRow
    BY <1>1, <1>2 DEF RowsThere
  <2> QED
    BY <2>1, <2>2, RowStays
<1>3. ASSUME NEW t \in Tabs, NEW c \in Command, c = tab[t].cmd, c = s.cmd, RecordSigned(t) \/ Executed(t)
      PROVE  rows'[s.cmd] # NoRow
  <2>1. OpenAt(t, c) /\ tab[t].at \in {"recording", "submitted"}
    BY <1>3 DEF RecordSigned, Executed, OpenAt
  <2>2. ~Has(CallWrites(c))
    BY <1>3, <2>1, SubmittedIsLoaded DEF Loading
  <2>3. ~crashed
    <3>1. tab'[t].at # tab[t].at
      BY <1>3, <2>1, BusyOrStarts DEF PageSigns, PageSubmits
    <3>2. tab' # tab
      BY <3>1
    <3> QED
      BY <3>2 DEF Next, vars
  <2>4. rows[c] # NoRow \/ Has(WritesFor(c))
    BY <1>1, <2>1, <2>3 DEF Finds, Origins
  <2>5. ASSUME NEW j \in DOMAIN db, db[j] \in WritesFor(c)
        PROVE  rows[c] # NoRow
    <3>1. db[j].patch.payload \notin Calls
      BY <2>2, <2>5 DEF Has, CallWrites
    <3> QED
      BY <1>1, <1>3, <2>5, <3>1 DEF RowsThere, WritesFor
  <2>6. rows[c] # NoRow
    BY <2>4, <2>5 DEF Has
  <2> QED
    BY <1>3, <2>6, RowStays
<1>4. ASSUME NEW p \in Calls, NEW c, NewWrite(s, c, [status |-> "pending", tx |-> p, payload |-> p])
      PROVE  FALSE
    BY <1>4 DEF NewWrite
<1>5. ASSUME NEW c, NEW patch, NewWrite(s, c, patch)
      PROVE  s.cmd = c
    BY <1>5 DEF NewWrite
<1> QED
    BY <1>2, <1>3, <1>4, <1>5, NewStatement

\* A row that is not there has one write to come.
LEMMA NewRowOnce ==
    ASSUME Alternate, OneCallWrite, RowsThere, NEW c \in Command, Fresh(c),
           OnePageAt(c) \/ restarts = 0, rows[c] = NoRow
    PROVE  AtMostOne(WritesFor(c))
<1>1. CASE OnePageAt(c)
    BY <1>1 DEF Alternate
<1>2. CASE restarts = 0
  <2>1. \A k \in DOMAIN db : db[k] \in WritesFor(c) => db[k] \in CallWrites(c)
    BY <1>2 DEF RowsThere, WritesFor, CallWrites
  <2> QED
    BY <2>1 DEF OneCallWrite, AtMostOne
<1> QED
    BY <1>1, <1>2

LEMMA InsertsKeep ==
    ASSUME OneConnection, IInv, Origins, Alternate, OneCallWrite, RowsThere, Inserts, [Next]_vars
    PROVE  Inserts'
<1> SUFFICES ASSUME NEW c \in Command, Fresh(c), OnePageAt(c)' \/ restarts' = 0, NEW X, X = WritesFor(c),
                    NEW k \in DOMAIN db', NEW s, s = db'[k], s \in X, s.op = "insert"
             PROVE  rows'[c] = NoRow
    BY DEF Inserts, InsertsNew, Fresh
<1>1. OnePageAt(c) \/ restarts = 0
    BY OnePageWas, RestartsCounted DEF Origins, Restart
<1>2. \A j \in DOMAIN db : s = db[j] => rows[c] = NoRow
    BY <1>1 DEF Inserts, InsertsNew
<1>3. CASE rows'[c] = rows[c]
  <2>1. s.op \in Writes /\ s.cmd = c
    BY DEF WritesFor
  <2>2. ASSUME NEW i \in DOMAIN db, LookAtRow(i), rows[s.cmd] = NoRow
        PROVE  rows'[c] = NoRow
    BY <1>3, <2>1, <2>2
  <2>3. ASSUME NEW d, NEW patch, NewWrite(s, d, patch)
        PROVE  FALSE
    BY <2>3 DEF NewWrite
  <2> QED
    BY <1>2, <1>3, <2>1, <2>2, <2>3, NewStatement
<1>4. CASE rows'[c] # rows[c]
  <2>1. PICK i \in Runnable : UpdateRow(i) \/ InsertRow(i)
    BY <1>4, RowsChange
  <2>2. PopStep(i)
    BY <2>1 DEF PopStep
  <2>3. db[1] \in X
    BY <1>4, <2>1, WriteRan
  <2>4. Has(X)'
    BY DEF Has
  <2>5. rows[c] # NoRow
    BY <1>1, <2>2, <2>3, <2>4, NewRowOnce, PopKeeps
  <2>6. \E j \in DOMAIN db : s = db[j]
    <3>1. PICK Z : Z = {s}
      OBVIOUS
    <3>2. Has(Z)' => Has(Z)
      BY <2>2, PopKeeps
    <3> QED
      BY <3>1, <3>2 DEF Has
  <2> QED
    BY <1>2, <2>5, <2>6
<1> QED
    BY <1>3, <1>4

\* What no two calls, and no two pages after a restart, can bring about.
NoConflict == FreshIds /\ (OnePage \/ restarts = 0) => ~crashed

LEMMA CrashChange ==
    ASSUME [Next]_vars
    PROVE  crashed' = crashed \/ \E i \in Runnable : InsertConflicts(i)
<1>1. ASSUME NEW i \in Runnable,
             \/ SessionRead(i) \/ LookAtRow(i) \/ UpdateRow(i) \/ InsertRow(i)
             \/ TxForPage(i) \/ WalletsForPage(i) \/ WalletToSign(i) \/ PrimaryToExecute(i)
             \/ TxToExecute(i) \/ TxToSign(i) \/ WalletForCall(i)
      PROVE  crashed' = crashed
    BY <1>1 DEF SessionRead, LookAtRow, UpdateRow, InsertRow, TxForPage,
       WalletsForPage, WalletToSign, PrimaryToExecute, TxToExecute, TxToSign, WalletForCall
<1>2. ASSUME NEW p \in Calls, PrepareExecute(p) \/ Answered(p)
      PROVE  crashed' = crashed
    BY <1>2 DEF PrepareExecute, Answered, Prepared, PrepareFails
<1>3. ASSUME NEW t \in Tabs, \/ \E p \in Calls : OpenPage(t, p)
                             \/ Approve(t) \/ Signs(t) \/ AskToExecute(t) \/ Unheard(t)
                             \/ Executing(t)
      PROVE  crashed' = crashed
    BY <1>3 DEF OpenPage, Approve, Signs, SignLater, SignNow, RecordSigned, SignFails,
       AskToExecute, Unheard, Executing, Executed, Refused, AnswerLost
<1>4. ASSUME (\E w \in Wallet : SwitchPrimary(w)) \/ Restart \/ UNCHANGED vars
      PROVE  crashed' = crashed
    BY <1>4 DEF SwitchPrimary, Restart, vars
<1> QED
    BY <1>1, <1>2, <1>3, <1>4 DEF Next, RunStatement

LEMMA NoConflictKeeps ==
    ASSUME OneConnection, IInv, Origins, Inserts, NoConflict, [Next]_vars
    PROVE  NoConflict'
<1> SUFFICES ASSUME FreshIds, OnePage' \/ restarts' = 0
             PROVE  ~crashed'
    BY DEF NoConflict, FreshIds, Fresh
<1>1. OnePage \/ restarts = 0
    BY OnePageWas, RestartsCounted DEF OnePage, Origins, Restart
<1>2. ASSUME NEW i \in Runnable, InsertConflicts(i)
      PROVE  FALSE
  <2>1. i = 1 /\ 1 \in DOMAIN db
    BY OneRunnable
  <2>2. PICK c : c = db[1].cmd
    OBVIOUS
  <2>3. c \in Command /\ db[1] \in WritesFor(c) /\ db[1].op = "insert" /\ rows[c] # NoRow
    BY <1>2, <2>1, <2>2, GoodMember DEF InsertConflicts, GoodStmt, Writes, WritesFor
  <2>4. InsertsNew(c)
    BY <1>1, <2>3 DEF Inserts, FreshIds, OnePage
  <2> QED
    BY <2>1, <2>3, <2>4 DEF InsertsNew
<1> QED
    BY <1>1, <1>2, CrashChange DEF NoConflict

-----------------------------------------------------------------------------
(* What is executed stays so *)

LEMMA FinishedStays ==
    ASSUME IInv, [Next]_vars, NEW t \in Tabs, NEW c
    PROVE  /\ FinishedBy(t, c) => FinishedBy(t, c)'
           /\ FinishedBy(t, c)' => /\ FinishedBy(t, c) \/ (Executed(t) /\ tab[t].cmd = c)
                                   /\ OpenAt(t, c) /\ ~RecordSigned(t)
<1>0. tab \in [Tabs -> Page] /\ tab[t] \in Page
    BY DEF IInv, Types
<1>1. RecordSigned(t) => tab'[t].at = "answered"
    BY <1>0 DEF RecordSigned, Page
<1>2. PageOpens(t) => tab[t].at # "done" /\ tab'[t].at # "done"
    BY DEF PageOpens
<1>3. PageApproves(t) => tab[t].at # "done" /\ tab'[t].at # "done"
    BY DEF PageApproves, Approve
<1>4. PageSigns(t) \/ PageSigned(t) \/ PageStops(t) => tab[t].at # "done" /\ tab'[t].at # "done"
    BY DEF PageSigns, PageSigned, PageStops
<1>5. PageSubmits(t) => tab[t].at # "done" /\ tab'[t].at # "done"
    BY DEF PageSubmits
<1>6. PageFinishes(t) => /\ tab[t].at # "done" /\ tab[t].at # "closed" /\ tab'[t].cmd = tab[t].cmd
                         /\ Executed(t)
    BY DEF PageFinishes, SameBut, Fields
<1>7. SameBut(t, {}) \/ PageLoads(t) \/ PageKnowsParty(t) \/ PageExecutes(t) =>
            tab'[t].at = tab[t].at /\ tab'[t].cmd = tab[t].cmd
    BY DEF SameBut, Fields, PageLoads, PageKnowsParty, PageExecutes
<1> QED
    BY <1>1, <1>2, <1>3, <1>4, <1>5, <1>6, <1>7, PageFields DEF FinishedBy, OpenAt

LEMMA RowTakes ==
    ASSUME OneConnection, IInv, NEW i \in Runnable, UpdateRow(i) \/ InsertRow(i),
           NEW c, c = db[i].cmd
    PROVE  rows'[c].status = db[1].patch.status /\ rows'[c].tx = db[1].patch.tx
<1>1. i = 1 /\ 1 \in DOMAIN db /\ c \in Command /\ db[1].patch \in Patch
    BY WriteRan
<1>2. CASE UpdateRow(i)
  <2>1. rows[c] \in Row
    BY <1>1, <1>2, GoodMember DEF UpdateRow, GoodStmt
  <2>2. rows'[c] = Updated(rows[c], db[1].patch)
    BY <1>1, <1>2 DEF UpdateRow, IInv, Types
  <2> QED
    BY <1>1, <2>1, <2>2, UpdatedType
<1>3. CASE InsertRow(i)
  <2>1. rows'[c] = Inserted(db[1].patch)
    BY <1>1, <1>3 DEF InsertRow, IInv, Types
  <2> QED
    BY <1>1, <2>1, InsertedType
<1> QED
    BY <1>2, <1>3

\* The row of c changes as the first statement says.
LEMMA RowWritten ==
    ASSUME OneConnection, IInv, [Next]_vars, NEW c \in Command, rows'[c] # rows[c]
    PROVE  /\ 1 \in DOMAIN db /\ db[1] \in WritesFor(c)
           /\ rows'[c] # NoRow /\ rows'[c].status = db[1].patch.status
           /\ \A d \in Command : d # c => rows'[d] = rows[d]
           /\ \E i \in Runnable : UpdateRow(i) \/ InsertRow(i)
<1>1. PICK i \in Runnable : UpdateRow(i) \/ InsertRow(i)
    BY RowsChange
<1>2. PICK d : d = db[i].cmd
    OBVIOUS
<1>3. d = c
    BY <1>1, <1>2, WriteRan
<1> QED
    BY <1>1, <1>2, <1>3, WriteRan, RowTakes

LEMMA SettledWrites ==
    ASSUME OneConnection, IInv, Origins, [Next]_vars, NEW c \in Command, Fresh(c), OnePageAt(c),
           Turns(c), Settled(c), NEW k \in DOMAIN db', NEW s, s = db'[k], s \in WritesFor(c)
    PROVE  /\ s.patch.status = "executed" => \E t \in Tabs : FinishedBy(t, c)'
           /\ \A t \in Tabs : FinishedBy(t, c)' => s.patch.status = "executed"
<1>0. s.op \in Writes /\ s.cmd = c
    BY DEF WritesFor
<1>1. ASSUME NEW j \in DOMAIN db, s.cmd = db[j].cmd, s.patch = db[j].patch, db[j].op \in Writes
      PROVE  /\ s.patch.status = "executed" => \E t \in Tabs : FinishedBy(t, c)'
             /\ \A t \in Tabs : FinishedBy(t, c)' => s.patch.status = "executed"
  <2>1. db[j] \in WritesFor(c)
    BY <1>0, <1>1, GoodMember DEF WritesFor
  <2>2. Has(WritesFor(c))
    BY <2>1 DEF Has
  <2>3. ASSUME NEW t \in Tabs, FinishedBy(t, c)'
        PROVE  FinishedBy(t, c)
    <3>1. Executed(t) => tab[t].at = "submitted"
      BY DEF Executed
    <3>2. OpenAt(t, c) /\ (FinishedBy(t, c) \/ Executed(t))
      BY <2>3, FinishedStays
    <3> QED
      BY <2>2, <3>1, <3>2 DEF Turns
  <2> QED
    BY <1>1, <2>1, <2>3, FinishedStays DEF Settled
<1>2. ASSUME NEW p \in Calls, Prepared(p), c = CommandOf[p], NEW t \in Tabs, FinishedBy(t, c)'
      PROVE  FALSE
  <2>1. OpenAt(t, c)
    BY <1>2, FinishedStays
  <2> QED
    BY <1>2, <2>1, FreshCommand DEF Origins
<1>3. ASSUME NEW u \in Tabs, RecordSigned(u), c = tab[u].cmd, NEW t \in Tabs, FinishedBy(t, c)'
      PROVE  FALSE
  <2>1. OpenAt(t, c) /\ ~RecordSigned(t)
    BY <1>3, FinishedStays
  <2>2. OpenAt(u, c)
    BY <1>3 DEF RecordSigned, OpenAt
  <2> QED
    BY <1>3, <2>1, <2>2 DEF OnePageAt
<1>4. ASSUME NEW u \in Tabs, Executed(u), c = tab[u].cmd
      PROVE  FinishedBy(u, c)'
  <2>1. tab \in [Tabs -> Page] /\ tab[u] \in Page
    BY DEF IInv, Types
  <2>2. tab'[u].at = "done" /\ tab'[u].cmd = tab[u].cmd
    BY <1>4, <2>1 DEF Executed, Page
  <2> QED
    BY <1>4, <2>2 DEF FinishedBy
<1>5. ASSUME NEW d, NEW patch, NewWrite(s, d, patch)
      PROVE  d = c /\ s.patch = patch
    BY <1>0, <1>5 DEF NewWrite
<1>6. CASE \E p \in Calls :
            /\ Prepared(p)
            /\ NewWrite(s, CommandOf[p], [status |-> "pending", tx |-> p, payload |-> p])
  <2>1. PICK p \in Calls :
            /\ Prepared(p)
            /\ NewWrite(s, CommandOf[p], [status |-> "pending", tx |-> p, payload |-> p])
    BY <1>6
  <2>2. c = CommandOf[p] /\ s.patch.status = "pending"
    BY <1>5, <2>1
  <2> QED
    BY <1>2, <2>1, <2>2
<1>7. CASE \E t \in Tabs, d \in Command :
            /\ d = tab[t].cmd /\ RecordSigned(t)
            /\ NewWrite(s, d, [status |-> "signed", tx |-> tab[t].sig, payload |-> "keep"])
  <2>1. PICK t \in Tabs, d \in Command :
            /\ d = tab[t].cmd /\ RecordSigned(t)
            /\ NewWrite(s, d, [status |-> "signed", tx |-> tab[t].sig, payload |-> "keep"])
    BY <1>7
  <2>2. c = d /\ s.patch.status = "signed"
    BY <1>5, <2>1
  <2> QED
    BY <1>3, <2>1, <2>2
<1>8. CASE \E t \in Tabs, d \in Command :
            /\ d = tab[t].cmd /\ Executed(t)
            /\ NewWrite(s, d, [status |-> "executed", tx |-> tab[t].held.tx, payload |-> "result"])
  <2>1. PICK t \in Tabs, d \in Command :
            /\ d = tab[t].cmd /\ Executed(t)
            /\ NewWrite(s, d, [status |-> "executed", tx |-> tab[t].held.tx, payload |-> "result"])
    BY <1>8
  <2>2. c = d /\ s.patch.status = "executed"
    BY <1>5, <2>1
  <2> QED
    BY <1>4, <2>1, <2>2
<1> QED
    BY <1>0, <1>1, <1>6, <1>7, <1>8, NewStatement

LEMMA SettlesKeep ==
    ASSUME OneConnection, IInv, Origins, Alternate, Settles, [Next]_vars
    PROVE  Settles'
<1> SUFFICES ASSUME NEW c \in Command, Fresh(c), OnePageAt(c)'
             PROVE  Settled(c)'
    BY DEF Settles, Fresh
<1>1. OnePageAt(c)
    BY OnePageWas
<1>2. Turns(c) /\ Settled(c)
    BY <1>1 DEF Alternate, Settles
<1>3. ASSUME rows'[c] # NoRow, rows'[c].status = "executed"
      PROVE  \E t \in Tabs : FinishedBy(t, c)'
  <2>1. \E t \in Tabs : FinishedBy(t, c)
    BY <1>2, <1>3, RowWritten DEF Settled
  <2> QED
    BY <2>1, FinishedStays
<1>4. ASSUME NEW k \in DOMAIN db', db'[k] \in WritesFor(c)
      PROVE  /\ db'[k].patch.status = "executed" => \E t \in Tabs : FinishedBy(t, c)'
             /\ \A t \in Tabs : FinishedBy(t, c)' => db'[k].patch.status = "executed"
    BY <1>1, <1>2, <1>4, SettledWrites
<1>5. PICK X : X = WritesFor(c)
    OBVIOUS
<1>6. \A k \in DOMAIN db' :
            /\ db'[k] \in X /\ db'[k].patch.status = "executed" => \E t \in Tabs : FinishedBy(t, c)'
            /\ \A t \in Tabs : db'[k] \in X /\ FinishedBy(t, c)' => db'[k].patch.status = "executed"
    BY <1>4, <1>5
<1> QED
    BY <1>3, <1>5, <1>6 DEF Settled

\* A row that says executed, of a command with an id of its own and one page.
LEMMA SettledSticks ==
    ASSUME OneConnection, IInv, Settles, [Next]_vars, NEW c \in Command, Fresh(c), OnePageAt(c),
           rows[c] # NoRow, rows[c].status = "executed"
    PROVE  rows'[c].status = "executed"
<1>1. CASE rows'[c] = rows[c]
    BY <1>1
<1>2. CASE rows'[c] # rows[c]
    BY <1>2, RowWritten DEF Settles, Settled
<1> QED
    BY <1>1, <1>2

OInv == Origins /\ Finds /\ Loading /\ Alternate /\ OneCallWrite /\ RowsThere /\ Inserts
            /\ NoConflict /\ Settles

LEMMA OrderInit == Init => OInv
<1> SUFFICES ASSUME Init
             PROVE  OInv
    OBVIOUS
<1>1. Origins /\ Finds /\ Loading
    BY FindsInit, FaithfulInit
<1>2. db = <<>> /\ ~crashed /\ \A c \in Command : rows[c] = NoRow
    BY DEF Init
<1>3. \A t \in Tabs : tab[t].at = "closed"
    BY DEF Init, Closed
<1>4. Alternate /\ OneCallWrite
    BY <1>3, NothingIssued DEF Alternate, Turns, OneCallWrite, OpenAt
<1>5. RowsThere /\ Inserts /\ NoConflict /\ Settles
    BY <1>2 DEF RowsThere, Inserts, InsertsNew, NoConflict, Settles, Settled
<1> QED
    BY <1>1, <1>4, <1>5 DEF OInv

LEMMA OrderHolds == OneConnection /\ Spec => [](IInv /\ OInv)
<1>1. CASE OneConnection
  <2>1. Init => IInv /\ OInv
    BY InitIInv, OrderInit
  <2>2. ASSUME IInv, OInv, [Next]_vars
        PROVE  OInv'
    BY <1>1, <2>2, OriginsKeep, FindsKeep, LoadingKeeps, AlternateKeeps, OneCallWriteKeeps,
       RowsThereKeeps, InsertsKeep, NoConflictKeeps, SettlesKeep DEF OInv
  <2>3. IInv /\ OInv /\ [Next]_vars => IInv' /\ OInv'
    BY <2>2, NextKeeps, StutterKeeps
  <2> QED
    BY <2>1, <2>3, PTL DEF Spec
<1>2. CASE ~OneConnection
    BY <1>2, PTL
<1> QED
    BY <1>1, <1>2

\* SQLite and no shared command ids: setTransaction, which reads the row and then inserts or
\* updates it in another statement, never inserts a row that is there.  As long as the
\* gateway has not restarted, that is so for any number of pages; after a restart, which
\* may lose a row, as long as no two pages are open at one userUrl.
THEOREM InsertsNeverConflict ==
    OneConnection /\ FreshIds /\ Spec => [](OnePage \/ restarts = 0 => StoreNeverConflicts)
<1>1. CASE FreshIds
  <2>1. OInv => (OnePage \/ restarts = 0 => StoreNeverConflicts)
    BY <1>1 DEF OInv, NoConflict, StoreNeverConflicts
  <2> QED
    BY <2>1, OrderHolds, PTL
<1>2. CASE ~FreshIds
    BY <1>2, PTL
<1> QED
    BY <1>1, <1>2

\* SQLite, no shared command ids and one page for each userUrl: once a row says executed it
\* goes on saying so, although the statements that wrote it were awaited by nobody.
THEOREM ExecutedRowsStick == OneConnection /\ FreshIds /\ Spec /\ []OnePage => ExecutedSticks
<1>1. CASE OneConnection /\ FreshIds
  <2>1. IInv /\ OInv /\ OnePage /\ [Next]_vars =>
            [\A c \in Command :
                rows[c] # NoRow /\ rows[c].status = "executed" =>
                    rows'[c].status = "executed"]_vars
    BY <1>1, SettledSticks DEF OInv, OnePage, FreshIds
  <2> QED
    BY <1>1, <2>1, OrderHolds, PTL DEF Spec, ExecutedSticks
<1>2. CASE ~(OneConnection /\ FreshIds)
    BY <1>2, PTL
<1> QED
    BY <1>1, <1>2

-----------------------------------------------------------------------------
(* The gateway implements what it promises *)

Shown == [c \in Command |-> IF rows[c] # NoRow /\ rows[c].status = "executed" THEN rows[c].tx
                            ELSE NoCall]
Told == {c \in Command : "executed" \in announced[c]}

\* No step of the promise, but perhaps a new write of the row, or a status other than executed
\* announced.
LEMMA QuietStep ==
    ASSUME IInv, [Next]_vars, ~(\E t \in Tabs : Approve(t) \/ Executed(t) \/ AnswerLost(t))
    PROVE  approved' = approved /\ committed' = committed /\ Told' = Told
<1>1. ASSUME NEW i \in Runnable,
             \/ SessionRead(i) \/ LookAtRow(i) \/ UpdateRow(i) \/ InsertRow(i)
             \/ TxForPage(i) \/ WalletsForPage(i) \/ WalletToSign(i) \/ PrimaryToExecute(i)
             \/ TxToExecute(i) \/ TxToSign(i) \/ InsertConflicts(i)
      PROVE  outside' = outside
    BY <1>1 DEF SessionRead, LookAtRow, UpdateRow, InsertRow, TxForPage, InsertConflicts,
       WalletsForPage, WalletToSign, PrimaryToExecute, TxToExecute, TxToSign
<1>2. ASSUME NEW p \in Calls, PrepareExecute(p) \/ Answered(p)
      PROVE  outside' = outside
    BY <1>2 DEF PrepareExecute, Answered, Prepared, PrepareFails
<1>3. ASSUME NEW t \in Tabs, \/ \E p \in Calls : OpenPage(t, p)
                             \/ SignLater(t) \/ SignNow(t) \/ SignFails(t)
                             \/ AskToExecute(t) \/ Unheard(t) \/ Refused(t)
      PROVE  outside' = outside
    BY <1>3 DEF OpenPage, SignLater, SignNow, SignFails, AskToExecute, Unheard, Refused
<1>4. ASSUME (\E w \in Wallet : SwitchPrimary(w)) \/ Restart \/ UNCHANGED vars
      PROVE  outside' = outside
    BY <1>4 DEF SwitchPrimary, Restart, vars
<1>5. ASSUME NEW c, NEW status, status # "executed", Announce(c, status)
      PROVE  Told' = Told
  <2>1. announced \in [Command -> SUBSET {"pending", "signed", "executed"}]
    BY DEF IInv, Types
  <2>2. \A d \in Command : "executed" \in announced'[d] <=> "executed" \in announced[d]
    BY <1>5, <2>1 DEF Announce
  <2> QED
    BY <2>2 DEF Told
<1>6. ASSUME NEW i \in Runnable, WalletForCall(i)
      PROVE  approved' = approved /\ committed' = committed /\ Told' = Told
    BY <1>5, <1>6 DEF WalletForCall
<1>7. ASSUME NEW t \in Tabs, RecordSigned(t)
      PROVE  approved' = approved /\ committed' = committed /\ Told' = Told
    BY <1>5, <1>7 DEF RecordSigned
<1>8. outside' = outside => approved' = approved /\ committed' = committed /\ Told' = Told
    BY DEF outside, Told
<1>9. ASSUME RunStatement
      PROVE  approved' = approved /\ committed' = committed /\ Told' = Told
    BY <1>1, <1>6, <1>8, <1>9 DEF RunStatement
<1> QED
    BY <1>2, <1>3, <1>4, <1>7, <1>8, <1>9 DEF Next, Signs, Executing

\* A step of the gateway that approves.
LEMMA ApproveMaps ==
    ASSUME IInv, NEW t \in Tabs, Approve(t)
    PROVE  /\ \E a \in [tx : Calls \cup {NoCall}, party : Wallet \cup {NoWallet}] :
                    approved' = approved \cup {a}
           /\ committed' = committed /\ Shown' = Shown /\ Told' = Told
<1>1. tab[t] \in Page
    BY DEF IInv, Types
<1> QED
    BY <1>1 DEF Approve, Page, Shown, Told

\* A step of the gateway that executes, with the answer of the ledger or without.
LEMMA CommitMaps ==
    ASSUME IInv, IInv', NEW t \in Tabs, Executed(t) \/ AnswerLost(t)
    PROVE  \E k \in [cmd : Command, tx : Calls, party : Wallet] :
                /\ \A j \in committed : j.cmd # k.cmd \/ j.party # k.party
                /\ Custody[k.party] = "external" => [tx |-> k.tx, party |-> k.party] \in approved
                /\ committed' = committed \cup {k}
                /\ Told' \in {Told, Told \cup {k.cmd}}
                /\ approved' = approved /\ Shown' = Shown
<1>1. PICK k : k = [cmd |-> tab[t].cmd, tx |-> Executes(t), party |-> tab[t].party]
    OBVIOUS
<1>2. /\ \A j \in committed : j.cmd # k.cmd \/ j.party # k.party
      /\ committed' = committed \cup {k} /\ approved' = approved /\ rows' = rows
    BY <1>1 DEF Executed, AnswerLost, Commits, ExecuteThrows, store
<1>3. k \in [cmd : Command, tx : Calls, party : Wallet]
    BY <1>2 DEF IInv, Types
<1>4. Custody[k.party] = "external" => [tx |-> k.tx, party |-> k.party] \in approved
    BY <1>2 DEF IInv, CommittedWasApproved
<1>5. Shown' = Shown
    BY <1>2 DEF Shown
<1>6. CASE Executed(t)
  <2>1. announced \in [Command -> SUBSET {"pending", "signed", "executed"}] /\ k.cmd = tab[t].cmd
    BY <1>1 DEF IInv, Types
  <2>2. announced' = [announced EXCEPT ![k.cmd] = @ \cup {"executed"}]
    BY <1>6, <2>1 DEF Executed, Announce
  <2>3. \A d \in Command : "executed" \in announced'[d] <=> "executed" \in announced[d] \/ d = k.cmd
    BY <2>1, <2>2
  <2>4. Told' = Told \cup {k.cmd}
    BY <1>3, <2>3 DEF Told
  <2> QED
    BY <1>2, <1>3, <1>4, <1>5, <2>4
<1>7. CASE AnswerLost(t)
  <2>1. Told' = Told
    BY <1>7 DEF AnswerLost, Told
  <2> QED
    BY <1>2, <1>3, <1>4, <1>5, <2>1
<1> QED
    BY <1>6, <1>7

\* A write of a row: it records what is committed, or leaves what is shown alone, or takes the
\* row of a command whose rows do not stick.
LEMMA WriteMaps ==
    ASSUME OneConnection, IInv, IInv', RInv', [Next]_vars, committed' = committed, Shown' # Shown
    PROVE  \E c \in Command :
              /\ rows'[c] # rows[c]
              /\ \/ \E k \in committed : k.cmd = c /\ Shown' = [Shown EXCEPT ![c] = k.tx]
                 \/ /\ Shown' = [Shown EXCEPT ![c] = NoCall]
                    /\ rows[c] # NoRow /\ rows[c].status = "executed" /\ rows'[c].status # "executed"
<1>1. PICK c \in Command : rows'[c] # rows[c]
    BY DEF Shown
<1>2. rows'[c] # NoRow /\ \A d \in Command : d # c => rows'[d] = rows[d]
    BY <1>1, RowWritten
<1>3. Shown' = [Shown EXCEPT ![c] = Shown'[c]]
    BY <1>2 DEF Shown
<1>4. CASE rows'[c].status = "executed"
  <2>1. Shown'[c] = rows'[c].tx
    BY <1>2, <1>4 DEF Shown
  <2>2. PICK k \in committed : k.cmd = c /\ k.tx = rows'[c].tx
    BY <1>2, <1>4 DEF RInv, OnLedger
  <2> QED
    BY <1>1, <1>3, <2>1, <2>2
<1>5. CASE rows'[c].status # "executed"
  <2>1. Shown'[c] = NoCall
    BY <1>5 DEF Shown
  <2>2. Shown[c] # NoCall
    BY <1>3, <2>1 DEF Shown
  <2>3. rows[c] # NoRow /\ rows[c].status = "executed"
    BY <2>2 DEF Shown
  <2> QED
    BY <1>1, <1>3, <1>5, <2>1, <2>3
<1> QED
    BY <1>4, <1>5

\* Command ids that one call has are open on one page.
OwnPages == \A c \in Command : Fresh(c) => OnePageAt(c)

LEMMA RowMaps ==
    ASSUME OneConnection, IInv, IInv', RInv', Settles, OwnPages, [Next]_vars,
           approved' = approved, committed' = committed, Told' = Told
    PROVE  [Approval!Next]_(Approval!approvalVars)
<1>1. CASE Shown' = Shown
  <2>1. UNCHANGED Approval!approvalVars
    BY <1>1 DEF Approval!approvalVars, Shown, Told
  <2> QED
    BY <2>1
<1>2. CASE Shown' # Shown
  <2>1. PICK c \in Command :
              /\ rows'[c] # rows[c]
              /\ \/ \E k \in committed : k.cmd = c /\ Shown' = [Shown EXCEPT ![c] = k.tx]
                 \/ /\ Shown' = [Shown EXCEPT ![c] = NoCall]
                    /\ rows[c] # NoRow /\ rows[c].status = "executed" /\ rows'[c].status # "executed"
    BY <1>2, WriteMaps
  <2>2. ASSUME NEW k \in committed, k.cmd = c, Shown' = [Shown EXCEPT ![c] = k.tx]
        PROVE  Approval!Next
    <3>1. k \in [cmd : Command, tx : Calls, party : Wallet]
      BY DEF IInv, Types
    <3>2. Approval!Record(k)
      BY <2>2 DEF Approval!Record, Shown, Told
    <3> QED
      BY <3>1, <3>2 DEF Approval!Next
  <2>3. ASSUME Shown' = [Shown EXCEPT ![c] = NoCall],
               rows[c] # NoRow, rows[c].status = "executed", rows'[c].status # "executed"
        PROVE  Approval!Next
    <3>1. ~Fresh(c)
      BY <2>3, SettledSticks DEF OwnPages
    <3>2. Approval!Reuse(c)
      BY <2>3 DEF Approval!Reuse, Shown, Told
    <3>3. c \in {d \in Command : \E p, q \in Calls : p # q /\ CommandOf[p] = d /\ CommandOf[q] = d}
      BY <3>1 DEF Fresh
    <3> QED
      BY <3>2, <3>3 DEF Approval!Next
  <2> QED
    BY <2>1, <2>2, <2>3
<1> QED
    BY <1>1, <1>2

LEMMA StepMaps ==
    ASSUME OneConnection, IInv, IInv', RInv', Settles, OwnPages, [Next]_vars
    PROVE  [Approval!Next]_(Approval!approvalVars)
<1>1. ASSUME NEW t \in Tabs, Approve(t)
      PROVE  Approval!Next
  <2>1. PICK a \in [tx : Calls \cup {NoCall}, party : Wallet \cup {NoWallet}] :
            approved' = approved \cup {a} /\ committed' = committed /\ Shown' = Shown /\ Told' = Told
    BY <1>1, ApproveMaps
  <2>2. Approval!Approve(a)
    BY <2>1 DEF Approval!Approve, Shown, Told
  <2> QED
    BY <2>2 DEF Approval!Next
<1>2. ASSUME NEW t \in Tabs, Executed(t) \/ AnswerLost(t)
      PROVE  Approval!Next
  <2>1. PICK k \in [cmd : Command, tx : Calls, party : Wallet] :
                /\ \A j \in committed : j.cmd # k.cmd \/ j.party # k.party
                /\ Custody[k.party] = "external" => [tx |-> k.tx, party |-> k.party] \in approved
                /\ committed' = committed \cup {k}
                /\ Told' \in {Told, Told \cup {k.cmd}}
                /\ approved' = approved /\ Shown' = Shown
    BY <1>2, CommitMaps
  <2>2. Approval!Commit(k)
    BY <2>1 DEF Approval!Commit, Shown, Told
  <2> QED
    BY <2>2 DEF Approval!Next
<1>3. ASSUME ~(\E t \in Tabs : Approve(t) \/ Executed(t) \/ AnswerLost(t))
      PROVE  [Approval!Next]_(Approval!approvalVars)
    BY <1>3, QuietStep, RowMaps
<1> QED
    BY <1>1, <1>2, <1>3

LEMMA InitMaps == Init => Approval!Init
<1> SUFFICES ASSUME Init
             PROVE  Approval!Init
    OBVIOUS
<1>1. Shown = [c \in Command |-> NoCall] /\ Told = {}
    BY DEF Init, Shown, Told
<1> QED
    BY <1>1 DEF Init, Approval!Init, Shown, Told

\* SQLite, and parties that hold their own keys or no shared command ids: pages, sign and
\* execute requests, statements in flight, lost answers and restarts come to no more than
\* TxApproval, if a userUrl whose command id no other call has is open on one page only.
THEOREM GatewayImplementsApproval ==
    OneConnection /\ (AllExternal \/ FreshIds) /\ Spec /\ []OwnPages => ImplementsApproval
<1>1. CASE OneConnection /\ (AllExternal \/ FreshIds)
  <2>1. Spec => []RInv
    BY <1>1, ExternalRecords, FreshRecords
  <2>2. IInv /\ IInv' /\ RInv' /\ OInv /\ OwnPages /\ [Next]_vars =>
            [Approval!Next]_(Approval!approvalVars)
    BY <1>1, StepMaps DEF OInv
  <2> QED
    BY <1>1, <2>1, <2>2, InitMaps, OrderHolds, PTL DEF Spec, ImplementsApproval, Approval!Spec
<1>2. CASE ~(OneConnection /\ (AllExternal \/ FreshIds))
    BY <1>2, PTL
<1> QED
    BY <1>1, <1>2
=============================================================================
