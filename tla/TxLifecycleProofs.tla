------------------------- MODULE TxLifecycleProofs -------------------------
(***************************************************************************)
(* Theorems about TxLifecycle, for all sets of calls, pages, commands and  *)
(* wallets, and any bounds.                                                *)
(***************************************************************************)
EXTENDS TxLifecycle, SequenceTheorems, TLAPS

Writes == {"look", "update", "insert"}
Steps == {"walletToSign", "txToSign", "primaryToExecute", "txToExecute"}
PageReads == {"txForPage", "walletsForPage"}
Reads == {"primaryForCall"} \cup PageReads \cup Steps
Ops == {"session"} \cup Reads \cup Writes

By == Calls \cup Tabs \cup {NoRow}
Stmt == [op : Ops, by : By, cmd : Command \cup Ops \cup {NoRow}, patch : Patch]

\* What a request reads once its session is read.
Wants(s) == IF s.op = "session" THEN s.cmd ELSE s.op

(***************************************************************************)
(* The inductive invariant of every database.  A page has at most one      *)
(* request for its wallets, which are not loaded yet, and at most one step *)
(* of sign and execute under way, which its state names: so the party that *)
(* was shown at the click is the party of the page ever after.             *)
(***************************************************************************)
GoodStmt(s) ==
    /\ s.op \in Writes => s.cmd \in Command
    /\ s.op = "update" => rows[s.cmd] \in Row
    /\ s.op = "session" => s.cmd \in Reads
    /\ Wants(s) = "primaryForCall" => s.by \in Calls
    /\ Wants(s) \in PageReads \cup Steps => s.by \in Tabs /\ tab[s.by].at # "closed"
    /\ Wants(s) = "walletsForPage" => tab[s.by].party = NoWallet
    /\ Wants(s) = "walletToSign" => tab[s.by].at = "signing"
    /\ Wants(s) = "txToSign" => tab[s.by].at = "signed"
    /\ Wants(s) \in {"primaryToExecute", "txToExecute"} => tab[s.by].at = "executing"

Statements == db \in Seq(Stmt) /\ \A k \in DOMAIN db : GoodStmt(db[k])

\* Two statements for one page that may not be under way together.
SameTurn(r, s) ==
    /\ r.by = s.by
    /\ \/ Wants(r) \in Steps /\ Wants(s) \in Steps
       \/ Wants(r) \in PageReads /\ Wants(s) = Wants(r)

Alone == \A j, k \in DOMAIN db : SameTurn(db[j], db[k]) => j = k

GoodTab(x) ==
    /\ x.at = "closed" => x = Closed
    /\ x.at # "closed" => x.cmd \in Command
    /\ x.as # NoWallet => x.as = x.party /\ [tx |-> x.sent, party |-> x.as] \in approved
    /\ x.at \in {"atDriver", "signed", "recording", "answered", "executing", "submitted"} =>
          x.as # NoWallet
    /\ x.at \in {"signed", "recording", "answered", "executing", "submitted"} =>
          x.sig \in {x.sent, NoCall}
    /\ x.at \in {"signed", "recording"} => x.sig = x.sent
    /\ x.at = "submitted" => x.held \in Row

Types ==
    /\ rows \in [Command -> Row \cup {NoRow}]
    /\ primary \in Wallet
    /\ call \in [Calls -> {"idle", "wallet", "preparing", "returned", "failed"}]
    /\ preparedFor \in [Calls -> Wallet \cup {NoWallet}]
    /\ tab \in [Tabs -> Page]
    /\ committed \subseteq [cmd : Command, tx : Calls, party : Wallet]
    /\ announced \in [Command -> SUBSET {"pending", "signed", "executed"}]
    /\ approved \subseteq [tx : Calls \cup {NoCall}, party : Wallet \cup {NoWallet}]
    /\ crashed \in BOOLEAN

Pages == \A t \in Tabs : GoodTab(tab[t])

IInv == Types /\ Statements /\ Alone /\ Pages /\ CommittedWasApproved

-----------------------------------------------------------------------------
(* Sequences and statements *)

\* Names for what RunAndIssue and Issue do.
Without(q, i, more) == RemoveAt(q, i) \o more
With(q, more) == q \o more

\* r is q without its i-th element, then more.
IsWithout(r, S, q, i, more) ==
    /\ r \in Seq(S)
    /\ Len(r) = Len(q) - 1 + Len(more)
    /\ \A k \in 1..(i - 1) : r[k] = q[k]
    /\ \A k \in i..(Len(q) - 1) : r[k] = q[k + 1]
    /\ \A k \in 1..Len(more) : r[Len(q) - 1 + k] = more[k]

LEMMA WithoutElement ==
    ASSUME NEW S, NEW q \in Seq(S), NEW i \in DOMAIN q, NEW more \in Seq(S)
    PROVE  IsWithout(Without(q, i, more), S, q, i, more)
<1>1. /\ Len(q) \in Nat /\ i \in 1..Len(q) /\ Len(more) \in Nat
      /\ \A k \in 1..Len(q) : q[k] \in S
    BY LenProperties, ElementOfSeq
<1> DEFINE a == SubSeq(q, 1, i-1)
           b == SubSeq(q, i+1, Len(q))
<1>2. /\ a \in Seq(S) /\ Len(a) = i - 1
      /\ \A k \in 1..(i-1) : a[k] = q[k]
    <2>1. \A k \in 1..(i-1) : q[k] \in S
        BY <1>1
    <2>2. /\ a \in Seq(S)
          /\ Len(a) = IF 1 <= i-1 THEN i-1-1+1 ELSE 0
          /\ \A k \in 1..(i-1-1+1) : a[k] = q[1+k-1]
        BY <1>1, <2>1, SubSeqProperties
    <2> HIDE DEF a
    <2> QED BY <1>1, <2>2
<1>3. /\ b \in Seq(S) /\ Len(b) = Len(q) - i
      /\ \A k \in 1..(Len(q) - i) : b[k] = q[i + k]
    <2>1. \A k \in (i+1)..Len(q) : q[k] \in S
        BY <1>1
    <2>2. /\ b \in Seq(S)
          /\ Len(b) = IF i+1 <= Len(q) THEN Len(q)-(i+1)+1 ELSE 0
          /\ \A k \in 1..(Len(q)-(i+1)+1) : b[k] = q[i+1+k-1]
        BY <1>1, <2>1, SubSeqProperties
    <2> HIDE DEF b
    <2> QED BY <1>1, <2>2
<1>4. RemoveAt(q, i) = a \o b
    BY DEF RemoveAt
<1> HIDE DEF a, b
<1> DEFINE ab == a \o b
<1>6. RemoveAt(q, i) \o more = ab \o more
    BY <1>4
<1>7. /\ ab \in Seq(S) /\ Len(ab) = Len(a) + Len(b)
      /\ \A k \in 1..(Len(a) + Len(b)) :
            ab[k] = IF k <= Len(a) THEN a[k] ELSE b[k - Len(a)]
    BY <1>2, <1>3, ConcatProperties
<1> HIDE DEF ab
<1>8. Len(ab) = Len(q) - 1
    BY <1>1, <1>2, <1>3, <1>7
<1>9. ASSUME NEW k \in 1..(Len(q) - 1)
      PROVE  ab[k] = q[IF k < i THEN k ELSE k + 1]
  <2>0. k \in 1..(Len(a) + Len(b)) /\ Len(a) = i - 1
    BY <1>1, <1>2, <1>3
  <2>3. ab[k] = IF k <= i - 1 THEN a[k] ELSE b[k - (i - 1)]
    BY <1>7, <2>0
  <2>1. CASE k < i
    <3>1. k \in 1..(i-1) /\ k <= i - 1
      BY <1>1, <2>1
    <3> QED BY <1>2, <2>1, <2>3, <3>1
  <2>2. CASE ~(k < i)
    <3>1. k - (i - 1) \in 1..(Len(q) - i) /\ i + (k - (i - 1)) = k + 1
      BY <1>1, <2>2
    <3>2. ab[k] = b[k - (i - 1)]
      BY <1>1, <2>2, <2>3
    <3>3. b[k - (i - 1)] = q[k + 1]
      BY <1>3, <3>1
    <3> QED BY <2>2, <3>2, <3>3
  <2> QED BY <2>1, <2>2
<1>10. /\ ab \o more \in Seq(S)
       /\ Len(ab \o more) = Len(ab) + Len(more)
       /\ \A k \in 1..(Len(ab) + Len(more)) :
            (ab \o more)[k] = IF k <= Len(ab) THEN ab[k] ELSE more[k - Len(ab)]
  <2>1. ab \in Seq(S)
    BY <1>7
  <2> QED BY <2>1, ConcatProperties
<1> DEFINE r == ab \o more
<1>12. Without(q, i, more) = r
    BY <1>6 DEF Without
<1>11. /\ r \in Seq(S)
       /\ Len(r) = Len(ab) + Len(more)
       /\ \A k \in 1..(Len(ab) + Len(more)) : r[k] = IF k <= Len(ab) THEN ab[k] ELSE more[k - Len(ab)]
    BY <1>10
<1> HIDE DEF r
<1>13. \A k \in 1..(Len(q) - 1) : r[k] = q[IF k < i THEN k ELSE k + 1]
  <2> TAKE k \in 1..(Len(q) - 1)
  <2>1. k \in 1..(Len(ab) + Len(more)) /\ k <= Len(ab)
    BY <1>1, <1>8
  <2>2. r[k] = ab[k]
    BY <1>11, <2>1
  <2> QED BY <1>9, <2>2
<1>14. \A k \in 1..Len(more) : r[Len(q) - 1 + k] = more[k]
  <2> TAKE k \in 1..Len(more)
  <2>1. /\ Len(ab) + k \in 1..(Len(ab) + Len(more)) /\ ~(Len(ab) + k <= Len(ab))
        /\ Len(ab) + k - Len(ab) = k
    BY <1>1, <1>8
  <2>2. r[Len(ab) + k] = more[k]
    BY <1>11, <2>1
  <2> QED BY <1>8, <2>2
<1>15. \A k \in 1..(i - 1) : r[k] = q[k]
  <2> TAKE k \in 1..(i - 1)
  <2>1. k \in 1..(Len(q) - 1) /\ k < i
    BY <1>1
  <2> QED BY <1>13, <2>1
<1>16. \A k \in i..(Len(q) - 1) : r[k] = q[k + 1]
  <2> TAKE k \in i..(Len(q) - 1)
  <2>1. k \in 1..(Len(q) - 1) /\ ~(k < i)
    BY <1>1
  <2> QED BY <1>13, <2>1
<1> QED BY <1>8, <1>11, <1>12, <1>14, <1>15, <1>16 DEF IsWithout

\* r is q with more at its end.
IsWith(r, S, q, more) ==
    /\ r \in Seq(S)
    /\ Len(r) = Len(q) + Len(more)
    /\ \A k \in 1..Len(q) : r[k] = q[k]
    /\ \A k \in 1..Len(more) : r[Len(q) + k] = more[k]

LEMMA WithElements ==
    ASSUME NEW S, NEW q \in Seq(S), NEW more \in Seq(S)
    PROVE  IsWith(With(q, more), S, q, more)
<1> DEFINE r == q \o more
<1>1. With(q, more) = r
    BY DEF With
<1>2. /\ r \in Seq(S) /\ Len(r) = Len(q) + Len(more)
      /\ \A k \in 1..(Len(q) + Len(more)) : r[k] = IF k <= Len(q) THEN q[k] ELSE more[k - Len(q)]
    BY ConcatProperties
<1>3. Len(q) \in Nat /\ Len(more) \in Nat
    BY LenProperties
<1> HIDE DEF r
<1>4. ASSUME NEW k \in 1..Len(q)
      PROVE  r[k] = q[k]
  <2>1. k \in 1..(Len(q) + Len(more)) /\ k <= Len(q)
    BY <1>3
  <2> QED
    BY <1>2, <2>1
<1>5. ASSUME NEW k \in 1..Len(more)
      PROVE  r[Len(q) + k] = more[k]
  <2>1. /\ Len(q) + k \in 1..(Len(q) + Len(more)) /\ ~(Len(q) + k <= Len(q))
        /\ Len(q) + k - Len(q) = k
    BY <1>3
  <2> QED
    BY <1>2, <2>1
<1> QED
    BY <1>1, <1>2, <1>4, <1>5 DEF IsWith

\* A statement runs.
LEMMA Ran ==
    ASSUME db \in Seq(Stmt), NEW i \in DOMAIN db, NEW more \in Seq(Stmt), RunAndIssue(i, more)
    PROVE  IsWithout(db', Stmt, db, i, more)
<1>1. PICK q \in Seq(Stmt) : q = db
    OBVIOUS
<1>2. db' = Without(q, i, more)
    BY <1>1 DEF RunAndIssue, Without
<1> QED
    BY <1>1, <1>2, WithoutElement

\* Statements are issued.
LEMMA Issued ==
    ASSUME db \in Seq(Stmt), NEW more \in Seq(Stmt), Issue(more)
    PROVE  IsWith(db', Stmt, db, more)
<1>1. PICK q \in Seq(Stmt) : q = db
    OBVIOUS
<1>2. db' = With(q, more)
    BY <1>1 DEF Issue, With
<1> QED
    BY <1>1, <1>2, WithElements

\* A statement runs and issues none.
LEMMA RanLast ==
    ASSUME db \in Seq(Stmt), NEW i \in DOMAIN db, RunAndIssue(i, <<>>)
    PROVE  /\ db' \in Seq(Stmt)
           /\ \A k \in DOMAIN db' : \E j \in DOMAIN db : j # i /\ db'[k] = db[j]
           /\ Alone => Alone'
<1>1. IsWithout(db', Stmt, db, i, <<>>)
  <2>1. <<>> \in Seq(Stmt)
    OBVIOUS
  <2> QED
    BY <2>1, Ran
<1>2. /\ Len(db) \in Nat /\ DOMAIN db = 1..Len(db)
      /\ db' \in Seq(Stmt) /\ Len(db') = Len(db) - 1 /\ DOMAIN db' = 1..(Len(db) - 1)
    BY <1>1 DEF IsWithout
<1>3. /\ \A k \in 1..(i - 1) : db'[k] = db[k]
      /\ \A k \in i..(Len(db) - 1) : db'[k] = db[k + 1]
    BY <1>1 DEF IsWithout
<1>4. ASSUME NEW k \in DOMAIN db'
      PROVE  \/ k < i /\ db'[k] = db[k] /\ k \in DOMAIN db
             \/ k >= i /\ db'[k] = db[k + 1] /\ k + 1 \in DOMAIN db
  <2>1. CASE k < i
    <3>1. k \in 1..(i - 1) /\ k \in DOMAIN db
      BY <1>2, <2>1
    <3> QED
      BY <1>3, <2>1, <3>1
  <2>2. CASE ~(k < i)
    <3>1. k \in i..(Len(db) - 1) /\ k + 1 \in DOMAIN db
      BY <1>2, <2>2
    <3> QED
      BY <1>3, <2>2, <3>1
  <2> QED
    BY <2>1, <2>2
<1>5. \A k \in DOMAIN db' : \E j \in DOMAIN db : j # i /\ db'[k] = db[j]
    BY <1>2, <1>4
<1>6. ASSUME Alone
      PROVE  Alone'
  <2> SUFFICES ASSUME NEW k \in DOMAIN db', NEW m \in DOMAIN db', SameTurn(db'[k], db'[m])
               PROVE  k = m
    BY DEF Alone
  <2>1. \A a, b \in DOMAIN db : SameTurn(db[a], db[b]) => a = b
    BY <1>6 DEF Alone
  <2> QED
    BY <1>2, <1>4, <2>1
<1> QED
    BY <1>2, <1>5, <1>6

\* A statement runs and issues another one of its turn.
LEMMA RanOn ==
    ASSUME db \in Seq(Stmt), NEW i \in DOMAIN db, NEW s \in Stmt, RunAndIssue(i, <<s>>)
    PROVE  /\ db' \in Seq(Stmt)
           /\ \A k \in DOMAIN db' :
                \/ db'[k] = s
                \/ \E j \in DOMAIN db : j # i /\ db'[k] = db[j]
           /\ Alone /\ (\A r \in Stmt : SameTurn(r, s) \/ SameTurn(s, r) => SameTurn(r, db[i]))
                => Alone'
<1>1. IsWithout(db', Stmt, db, i, <<s>>)
  <2>1. <<s>> \in Seq(Stmt)
    OBVIOUS
  <2> QED
    BY <2>1, Ran
<1>2. /\ Len(db) \in Nat /\ DOMAIN db = 1..Len(db)
      /\ db' \in Seq(Stmt) /\ Len(db') = Len(db) /\ DOMAIN db' = 1..Len(db)
      /\ \A k \in DOMAIN db : db[k] \in Stmt
    BY <1>1 DEF IsWithout
<1>3. /\ \A k \in 1..(i - 1) : db'[k] = db[k]
      /\ \A k \in i..(Len(db) - 1) : db'[k] = db[k + 1]
    BY <1>1 DEF IsWithout
<1>4. db'[Len(db)] = s
    BY <1>1, <1>2 DEF IsWithout
<1>5. ASSUME NEW k \in DOMAIN db'
      PROVE  \/ k < i /\ db'[k] = db[k] /\ k \in DOMAIN db
             \/ k >= i /\ db'[k] = db[k + 1] /\ k + 1 \in DOMAIN db
             \/ k = Len(db) /\ db'[k] = s
  <2>1. CASE k < i
    <3>1. k \in 1..(i - 1) /\ k \in DOMAIN db
      BY <1>2, <2>1
    <3> QED
      BY <1>3, <2>1, <3>1
  <2>2. CASE ~(k < i) /\ k # Len(db)
    <3>1. k \in i..(Len(db) - 1) /\ k + 1 \in DOMAIN db
      BY <1>2, <2>2
    <3> QED
      BY <1>3, <2>2, <3>1
  <2> QED
    BY <1>2, <1>4, <2>1, <2>2
<1>6. \A k \in DOMAIN db' : db'[k] = s \/ \E j \in DOMAIN db : j # i /\ db'[k] = db[j]
    BY <1>2, <1>5
<1>7. ASSUME Alone, \A r \in Stmt : SameTurn(r, s) \/ SameTurn(s, r) => SameTurn(r, db[i])
      PROVE  Alone'
  <2> SUFFICES ASSUME NEW k \in DOMAIN db', NEW m \in DOMAIN db', SameTurn(db'[k], db'[m])
               PROVE  k = m
    BY DEF Alone
  <2>1. \A a, b \in DOMAIN db : SameTurn(db[a], db[b]) => a = b
    BY <1>7 DEF Alone
  <2>2. \A a \in DOMAIN db : a # i => ~SameTurn(db[a], s) /\ ~SameTurn(s, db[a])
    BY <1>2, <1>7, <2>1
  <2> QED
    BY <1>2, <1>5, <2>1, <2>2
<1> QED
    BY <1>2, <1>6, <1>7

\* A statement is issued.
LEMMA IssuedOne ==
    ASSUME db \in Seq(Stmt), NEW s \in Stmt, Issue(<<s>>)
    PROVE  /\ db' \in Seq(Stmt)
           /\ \A k \in DOMAIN db' : db'[k] = s \/ \E j \in DOMAIN db : db'[k] = db[j]
           /\ Alone /\ (\A j \in DOMAIN db : ~SameTurn(db[j], s) /\ ~SameTurn(s, db[j])) => Alone'
<1>1. IsWith(db', Stmt, db, <<s>>)
  <2>1. <<s>> \in Seq(Stmt)
    OBVIOUS
  <2> QED
    BY <2>1, Issued
<1>2. /\ Len(db) \in Nat /\ DOMAIN db = 1..Len(db)
      /\ db' \in Seq(Stmt) /\ Len(db') = Len(db) + 1 /\ DOMAIN db' = 1..(Len(db) + 1)
    BY <1>1 DEF IsWith
<1>3. \A k \in 1..Len(db) : db'[k] = db[k]
    BY <1>1 DEF IsWith
<1>4. db'[Len(db) + 1] = s
    BY <1>1, <1>2 DEF IsWith
<1>5. \A k \in DOMAIN db' : \/ k \in DOMAIN db /\ db'[k] = db[k]
                            \/ k = Len(db) + 1 /\ db'[k] = s
    BY <1>2, <1>3, <1>4
<1>6. ASSUME Alone, \A j \in DOMAIN db : ~SameTurn(db[j], s) /\ ~SameTurn(s, db[j])
      PROVE  Alone'
    BY <1>5, <1>6 DEF Alone
<1> QED
    BY <1>2, <1>5, <1>6

\* Two statements of different turns are issued.
LEMMA IssuedTwo ==
    ASSUME db \in Seq(Stmt), NEW r \in Stmt, NEW s \in Stmt, Issue(<<r, s>>)
    PROVE  /\ db' \in Seq(Stmt)
           /\ \A k \in DOMAIN db' : \/ db'[k] \in {r, s}
                                    \/ \E j \in DOMAIN db : db'[k] = db[j]
           /\ (/\ Alone /\ ~SameTurn(r, s) /\ ~SameTurn(s, r)
               /\ \A j \in DOMAIN db :
                    \A x \in {r, s} : ~SameTurn(db[j], x) /\ ~SameTurn(x, db[j]))
                => Alone'
<1>1. IsWith(db', Stmt, db, <<r, s>>)
  <2>1. <<r, s>> \in Seq(Stmt)
    OBVIOUS
  <2> QED
    BY <2>1, Issued
<1>2. /\ Len(db) \in Nat /\ DOMAIN db = 1..Len(db)
      /\ db' \in Seq(Stmt) /\ Len(db') = Len(db) + 2 /\ DOMAIN db' = 1..(Len(db) + 2)
    BY <1>1 DEF IsWith
<1>3. \A k \in 1..Len(db) : db'[k] = db[k]
    BY <1>1 DEF IsWith
<1>4. db'[Len(db) + 1] = r /\ db'[Len(db) + 2] = s
    BY <1>1, <1>2 DEF IsWith
<1>5. \A k \in DOMAIN db' : \/ k \in DOMAIN db /\ db'[k] = db[k]
                            \/ k = Len(db) + 1 /\ db'[k] = r
                            \/ k = Len(db) + 2 /\ db'[k] = s
    BY <1>2, <1>3, <1>4
<1>6. ASSUME Alone, ~SameTurn(r, s), ~SameTurn(s, r),
             \A j \in DOMAIN db : \A x \in {r, s} : ~SameTurn(db[j], x) /\ ~SameTurn(x, db[j])
      PROVE  Alone'
    BY <1>5, <1>6 DEF Alone
<1> QED
    BY <1>2, <1>5, <1>6


LEMMA QueryType ==
    ASSUME NEW op \in Reads, NEW by \in By
    PROVE  /\ Query(op, by) \in Stmt
           /\ Query(op, by).op = op /\ Query(op, by).by = by
    BY DEF Query, Stmt, Ops, NoPatch, Patch

LEMMA RequestType ==
    ASSUME NEW op \in Reads, NEW by \in By
    PROVE  /\ Request(op, by) \in Stmt
           /\ Request(op, by).op = "session" /\ Request(op, by).by = by
           /\ Request(op, by).cmd = op
    BY DEF Request, Query, Stmt, Ops, NoPatch, Patch

LEMMA WriteType ==
    ASSUME NEW op \in Writes, NEW c \in Command, NEW patch \in Patch
    PROVE  /\ Write(op, c, patch) \in Stmt
           /\ Write(op, c, patch).op = op /\ Write(op, c, patch).cmd = c
           /\ Write(op, c, patch).patch = patch
    BY DEF Write, Stmt, Ops, By

LEMMA UpdatedType ==
    ASSUME NEW row \in Row, NEW patch \in Patch
    PROVE  /\ Updated(row, patch) \in Row
           /\ Updated(row, patch).status = patch.status
           /\ Updated(row, patch).tx = patch.tx
    BY DEF Updated, Row, Patch

LEMMA InsertedType ==
    ASSUME NEW patch \in Patch
    PROVE  /\ Inserted(patch) \in Row
           /\ Inserted(patch).status = patch.status
           /\ Inserted(patch).tx = patch.tx
    BY DEF Inserted, Row, Patch

LEMMA WritesTakeNoTurn ==
    ASSUME NEW r \in Stmt, NEW s \in Stmt, s.op \in Writes
    PROVE  ~SameTurn(r, s) /\ ~SameTurn(s, r)
    BY DEF SameTurn, Wants, Writes, Steps, PageReads

LEMMA CallsTakeNoTurn ==
    ASSUME NEW r \in Stmt, NEW s \in Stmt, Wants(s) = "primaryForCall"
    PROVE  ~SameTurn(r, s) /\ ~SameTurn(s, r)
    BY DEF SameTurn, Wants, Steps, PageReads

\* Statements whose pages do not change stay good.
LEMMA SameGood ==
    ASSUME NEW s, GoodStmt(s), tab' = tab,
           \A c \in Command : rows[c] \in Row => rows'[c] \in Row
    PROVE  GoodStmt(s)'
    BY DEF GoodStmt, Writes

\* So do those whose page changes in what they do not rely on.
LEMMA StillGood ==
    ASSUME NEW s, GoodStmt(s), rows' = rows,
           Wants(s) \in PageReads \cup Steps => tab'[s.by].at # "closed",
           Wants(s) = "walletsForPage" => tab'[s.by].party = tab[s.by].party,
           Wants(s) \in Steps => tab'[s.by].at = tab[s.by].at
    PROVE  GoodStmt(s)'
    BY DEF GoodStmt, Writes, PageReads, Steps

LEMMA GoodMember ==
    ASSUME IInv, NEW j \in DOMAIN db
    PROVE  db[j] \in Stmt /\ GoodStmt(db[j])
<1>1. DOMAIN db = 1..Len(db)
    BY DEF IInv, Statements
<1> QED
    BY <1>1, ElementOfSeq DEF IInv, Statements

-----------------------------------------------------------------------------
(* The invariant of every database is kept *)

\* An action that changes neither pages nor what is approved and committed.
LEMMA PagesStay ==
    ASSUME IInv, tab' = tab, approved' = approved, committed' = committed
    PROVE  Pages' /\ CommittedWasApproved' /\ (tab \in [Tabs -> Page])'
    BY DEF IInv, Pages, GoodTab, CommittedWasApproved, Types

\* A page that goes on to another stage keeps the rest.
LEMMA PageGoesTo ==
    ASSUME NEW z \in Page, NEW y,
           NEW s \in {"error", "recording", "answered", "executing"},
           y = [z EXCEPT !.at = s]
    PROVE  /\ y \in Page /\ y.at = s /\ y.cmd = z.cmd
           /\ y.party = z.party /\ y.sent = z.sent /\ y.as = z.as
           /\ y.sig = z.sig
    BY DEF Page

\* An action of one page.
LEMMA PageMoves ==
    ASSUME IInv, NEW t \in Tabs, tab' \in [Tabs -> Page], GoodTab(tab[t])',
           \A u \in Tabs : u # t => tab'[u] = tab[u],
           approved \subseteq approved'
    PROVE  Pages'
    BY DEF IInv, Pages, GoodTab

LEMMA SameCommitted ==
    ASSUME IInv, committed' = committed, approved \subseteq approved'
    PROVE  CommittedWasApproved'
    BY DEF IInv, CommittedWasApproved

LEMMA LookAtRowKeeps ==
    ASSUME IInv, NEW i \in DOMAIN db, LookAtRow(i)
    PROVE  IInv'
<1> DEFINE s == WriteAfterLook(db[i].cmd, db[i].patch)
<1>1. db[i] \in Stmt /\ GoodStmt(db[i]) /\ db[i].cmd \in Command /\ db[i].patch \in Patch
    BY GoodMember DEF LookAtRow, GoodStmt, Writes, Stmt
<1>2. s \in Stmt /\ s.op \in Writes /\ s.cmd \in Command
    BY <1>1, WriteType DEF WriteAfterLook, Writes
<1>3. tab' = tab /\ rows' = rows /\ RunAndIssue(i, <<s>>)
    BY DEF LookAtRow
<1>9. s.op = "update" => rows[s.cmd] \in Row
    BY <1>1, WriteType DEF WriteAfterLook, Writes, IInv, Types
<1> HIDE DEF s
<1>4. \A r \in Stmt : ~SameTurn(r, s) /\ ~SameTurn(s, r)
    BY <1>2, WritesTakeNoTurn
<1>5. /\ db' \in Seq(Stmt) /\ Alone'
      /\ \A k \in DOMAIN db' : db'[k] = s \/ \E j \in DOMAIN db : db'[k] = db[j]
    BY <1>2, <1>3, <1>4, RanOn DEF IInv, Statements
<1>6. GoodStmt(s)
    BY <1>2, <1>9 DEF GoodStmt, Writes, Wants, PageReads, Steps
<1>7. Statements'
    BY <1>3, <1>5, <1>6, GoodMember, SameGood DEF Statements
<1>8. Types' /\ Pages' /\ CommittedWasApproved'
    BY PagesStay DEF LookAtRow, IInv, Types, outside
<1> QED
    BY <1>5, <1>7, <1>8 DEF IInv

LEMMA UpdateRowKeeps ==
    ASSUME IInv, NEW i \in DOMAIN db, UpdateRow(i)
    PROVE  IInv'
<1>1. /\ db[i] \in Stmt /\ GoodStmt(db[i]) /\ db[i].cmd \in Command /\ db[i].patch \in Patch
      /\ rows[db[i].cmd] \in Row
    BY GoodMember DEF UpdateRow, GoodStmt, Writes, Stmt
<1>2. Updated(rows[db[i].cmd], db[i].patch) \in Row
    BY <1>1, UpdatedType
<1>3. /\ rows \in [Command -> Row \cup {NoRow}]
      /\ rows' = [rows EXCEPT ![db[i].cmd] = Updated(rows[db[i].cmd], db[i].patch)]
    BY DEF UpdateRow, IInv, Types
<1>4. /\ rows' \in [Command -> Row \cup {NoRow}]
      /\ \A c \in Command : rows[c] \in Row => rows'[c] \in Row
    BY <1>1, <1>2, <1>3
<1>5. /\ db' \in Seq(Stmt) /\ Alone'
      /\ \A k \in DOMAIN db' : \E j \in DOMAIN db : j # i /\ db'[k] = db[j]
    BY RanLast DEF UpdateRow, IInv, Statements
<1>6. Statements'
    BY <1>4, <1>5, GoodMember, SameGood DEF Statements, UpdateRow
<1>7. Types' /\ Pages' /\ CommittedWasApproved'
    BY <1>4, PagesStay DEF UpdateRow, IInv, Types, outside
<1> QED
    BY <1>5, <1>6, <1>7 DEF IInv

LEMMA InsertRowKeeps ==
    ASSUME IInv, NEW i \in DOMAIN db, InsertRow(i)
    PROVE  IInv'
<1>1. db[i] \in Stmt /\ GoodStmt(db[i]) /\ db[i].cmd \in Command /\ db[i].patch \in Patch
    BY GoodMember DEF InsertRow, GoodStmt, Writes, Stmt
<1>2. Inserted(db[i].patch) \in Row
    BY <1>1, InsertedType
<1>3. /\ rows \in [Command -> Row \cup {NoRow}]
      /\ rows' = [rows EXCEPT ![db[i].cmd] = Inserted(db[i].patch)]
    BY DEF InsertRow, IInv, Types
<1>4. /\ rows' \in [Command -> Row \cup {NoRow}]
      /\ \A c \in Command : rows[c] \in Row => rows'[c] \in Row
    BY <1>1, <1>2, <1>3
<1>5. /\ db' \in Seq(Stmt) /\ Alone'
      /\ \A k \in DOMAIN db' : \E j \in DOMAIN db : j # i /\ db'[k] = db[j]
    BY RanLast DEF InsertRow, IInv, Statements
<1>6. Statements'
    BY <1>4, <1>5, GoodMember, SameGood DEF Statements, InsertRow
<1>7. Types' /\ Pages' /\ CommittedWasApproved'
    BY <1>4, PagesStay DEF InsertRow, IInv, Types, outside
<1> QED
    BY <1>5, <1>6, <1>7 DEF IInv

LEMMA NoStatements ==
    ASSUME db' = <<>>
    PROVE  Statements' /\ Alone'
<1>1. db' \in Seq(Stmt) /\ DOMAIN db' = {}
    OBVIOUS
<1> QED
    BY <1>1 DEF Statements, Alone

LEMMA InsertConflictsKeeps ==
    ASSUME IInv, NEW i \in DOMAIN db, InsertConflicts(i)
    PROVE  IInv'
<1>1. Types' /\ Pages' /\ CommittedWasApproved'
    BY PagesStay DEF InsertConflicts, IInv, Types, outside
<1> QED
    BY <1>1, NoStatements DEF IInv, InsertConflicts

LEMMA SessionReadKeeps ==
    ASSUME IInv, NEW i \in DOMAIN db, SessionRead(i)
    PROVE  IInv'
<1> DEFINE s == Query(db[i].cmd, db[i].by)
<1>1. db[i] \in Stmt /\ GoodStmt(db[i]) /\ db[i].cmd \in Reads /\ db[i].by \in By
    BY GoodMember DEF SessionRead, GoodStmt, Stmt
<1>2. s \in Stmt /\ s.op = db[i].cmd /\ s.by = db[i].by
    BY <1>1, QueryType
<1>3. tab' = tab /\ rows' = rows /\ RunAndIssue(i, <<s>>) /\ db[i].op = "session"
    BY DEF SessionRead
<1> HIDE DEF s
<1>4. Wants(s) = Wants(db[i]) /\ s.op \notin Writes /\ s.op # "session"
    BY <1>1, <1>2, <1>3 DEF Wants, Reads, PageReads, Steps, Writes
<1>5. \A r \in Stmt : SameTurn(r, s) \/ SameTurn(s, r) => SameTurn(r, db[i])
    BY <1>2, <1>4 DEF SameTurn
<1>6. /\ db' \in Seq(Stmt) /\ Alone'
      /\ \A k \in DOMAIN db' : db'[k] = s \/ \E j \in DOMAIN db : db'[k] = db[j]
    BY <1>2, <1>3, <1>5, RanOn DEF IInv, Statements
<1>7. GoodStmt(s)
    BY <1>1, <1>2, <1>4 DEF GoodStmt, Writes
<1>8. Statements'
    BY <1>3, <1>6, <1>7, GoodMember, SameGood DEF Statements
<1>9. Types' /\ Pages' /\ CommittedWasApproved'
    BY PagesStay DEF SessionRead, IInv, Types, outside
<1> QED
    BY <1>6, <1>8, <1>9 DEF IInv

LEMMA PrepareExecuteKeeps ==
    ASSUME IInv, NEW p \in Calls, PrepareExecute(p)
    PROVE  IInv'
<1> DEFINE s == Request("primaryForCall", p)
<1>1. s \in Stmt /\ s.op = "session" /\ s.by = p /\ s.cmd = "primaryForCall"
    BY RequestType DEF Reads, By
<1>2. tab' = tab /\ rows' = rows /\ Issue(<<s>>)
    BY DEF PrepareExecute
<1> HIDE DEF s
<1>3. Wants(s) = "primaryForCall" /\ GoodStmt(s)
    BY <1>1 DEF Wants, GoodStmt, Writes, PageReads, Steps, Reads
<1>4. \A r \in Stmt : ~SameTurn(r, s) /\ ~SameTurn(s, r)
    BY <1>1, <1>3, CallsTakeNoTurn
<1>5. /\ db' \in Seq(Stmt) /\ Alone'
      /\ \A k \in DOMAIN db' : db'[k] = s \/ \E j \in DOMAIN db : db'[k] = db[j]
    BY <1>1, <1>2, <1>4, GoodMember, IssuedOne DEF IInv, Statements
<1>6. Statements'
    BY <1>2, <1>3, <1>5, GoodMember, SameGood DEF Statements
<1>7. Types' /\ Pages' /\ CommittedWasApproved'
    BY PagesStay DEF PrepareExecute, IInv, Types, outside
<1> QED
    BY <1>5, <1>6, <1>7 DEF IInv

LEMMA WalletForCallKeeps ==
    ASSUME IInv, NEW i \in DOMAIN db, WalletForCall(i)
    PROVE  IInv'
<1>1. db[i] \in Stmt /\ GoodStmt(db[i]) /\ db[i].by \in Calls
    BY GoodMember DEF WalletForCall, GoodStmt, Wants
<1>2. /\ db' \in Seq(Stmt) /\ Alone'
      /\ \A k \in DOMAIN db' : \E j \in DOMAIN db : j # i /\ db'[k] = db[j]
    BY RanLast DEF WalletForCall, IInv, Statements
<1>3. Statements'
    BY <1>2, GoodMember, SameGood DEF Statements, WalletForCall
<1>4. CommandOf[db[i].by] \in Command
    BY <1>1, LifecycleAssumption
<1>5. Types' /\ Pages' /\ CommittedWasApproved'
    BY <1>1, <1>4, PagesStay DEF WalletForCall, IInv, Types, outside, Announce
<1> QED
    BY <1>2, <1>3, <1>5 DEF IInv

LEMMA PreparedKeeps ==
    ASSUME IInv, NEW p \in Calls, Prepared(p)
    PROVE  IInv'
<1> DEFINE patch == [status |-> "pending", tx |-> p, payload |-> p]
           s == Write("look", CommandOf[p], patch)
<1>1. CommandOf[p] \in Command /\ patch \in Patch
    BY LifecycleAssumption DEF Patch
<1>2. s \in Stmt /\ s.op = "look" /\ s.cmd \in Command
    BY <1>1, WriteType DEF Writes
<1>3. tab' = tab /\ rows' = rows /\ Issue(<<s>>)
    BY DEF Prepared
<1> HIDE DEF s
<1>4. \A r \in Stmt : ~SameTurn(r, s) /\ ~SameTurn(s, r)
    BY <1>2, WritesTakeNoTurn DEF Writes
<1>5. /\ db' \in Seq(Stmt) /\ Alone'
      /\ \A k \in DOMAIN db' : db'[k] = s \/ \E j \in DOMAIN db : db'[k] = db[j]
    BY <1>2, <1>3, <1>4, GoodMember, IssuedOne DEF IInv, Statements
<1>6. GoodStmt(s)
    BY <1>2 DEF GoodStmt, Writes, Wants, PageReads, Steps
<1>7. Statements'
    BY <1>3, <1>5, <1>6, GoodMember, SameGood DEF Statements
<1>8. Types' /\ Pages' /\ CommittedWasApproved'
    BY PagesStay DEF Prepared, IInv, Types, outside
<1> QED
    BY <1>5, <1>7, <1>8 DEF IInv

LEMMA PrepareFailsKeeps ==
    ASSUME IInv, NEW p \in Calls, PrepareFails(p)
    PROVE  IInv'
<1>1. Statements' /\ Alone'
    BY SameGood DEF PrepareFails, store, IInv, Statements, Alone
<1>2. Types' /\ Pages' /\ CommittedWasApproved'
    BY PagesStay DEF PrepareFails, IInv, Types, outside, store
<1> QED
    BY <1>1, <1>2 DEF IInv

LEMMA OpenPageKeeps ==
    ASSUME IInv, NEW t \in Tabs, NEW p \in Calls, OpenPage(t, p)
    PROVE  IInv'
<1> DEFINE r == Request("txForPage", t)
           s == Request("walletsForPage", t)
<1>1. /\ r \in Stmt /\ r.op = "session" /\ r.by = t /\ r.cmd = "txForPage"
      /\ s \in Stmt /\ s.op = "session" /\ s.by = t /\ s.cmd = "walletsForPage"
    BY RequestType DEF Reads, By, PageReads
<1>2. rows' = rows /\ approved' = approved /\ committed' = committed /\ Issue(<<r, s>>)
    BY DEF OpenPage, outside
<1> HIDE DEF r, s
<1>3. Wants(r) = "txForPage" /\ Wants(s) = "walletsForPage"
    BY <1>1 DEF Wants
<1>4. tab[t] = Closed /\ tab[t].at = "closed" /\ tab \in [Tabs -> Page]
    BY DEF OpenPage, IInv, Types, Pages, GoodTab
<1>5. CommandOf[p] \in Command
    BY LifecycleAssumption
<1>14. /\ tab'[t] = [tab[t] EXCEPT !.at = "open", !.cmd = CommandOf[p]]
       /\ \A u \in Tabs : u # t => tab'[u] = tab[u]
       /\ tab' = [u \in Tabs |-> tab'[u]]
    BY <1>4 DEF OpenPage
<1>6. /\ tab' \in [Tabs -> Page]
      /\ tab'[t].at = "open" /\ tab'[t].cmd = CommandOf[p]
      /\ tab'[t].party = NoWallet /\ tab'[t].as = NoWallet
      /\ \A u \in Tabs : u # t => tab'[u] = tab[u]
  <2>1. tab[t] \in Page
    BY <1>4
  <2>2. tab'[t] \in Page /\ tab'[t].at = "open" /\ tab'[t].cmd = CommandOf[p]
    BY <1>5, <1>14, <2>1 DEF Page
  <2>3. tab'[t].party = tab[t].party /\ tab'[t].as = tab[t].as
    BY <1>14, <2>1 DEF Page
  <2>4. tab[t].party = NoWallet /\ tab[t].as = NoWallet
    <3>1. Closed.party = NoWallet /\ Closed.as = NoWallet
      BY DEF Closed
    <3> QED
      BY <1>4, <3>1
  <2>5. tab' \in [Tabs -> Page]
    BY <1>4, <1>14, <2>2
  <2> QED
    BY <1>14, <2>2, <2>3, <2>4, <2>5
<1>7. \A j \in DOMAIN db : \A x \in {r, s} : ~SameTurn(db[j], x) /\ ~SameTurn(x, db[j])
    BY <1>1, <1>3, <1>4, GoodMember DEF SameTurn, GoodStmt, Steps, PageReads
<1>8. /\ db' \in Seq(Stmt) /\ Alone'
      /\ \A k \in DOMAIN db' : db'[k] \in {r, s} \/ \E j \in DOMAIN db : db'[k] = db[j]
  <2>1. ~SameTurn(r, s) /\ ~SameTurn(s, r)
    BY <1>3 DEF SameTurn, Steps, PageReads
  <2> QED
    BY <1>1, <1>2, <1>7, <2>1, IssuedTwo DEF IInv, Statements
<1>9. GoodStmt(r)' /\ GoodStmt(s)'
    BY <1>1, <1>3, <1>6 DEF GoodStmt, Writes, Wants, PageReads, Steps, Reads
<1>10. ASSUME NEW x, NEW j \in DOMAIN db, x = db[j]
       PROVE  GoodStmt(x)'
  <2>1. GoodStmt(x) /\ (Wants(x) \in PageReads \cup Steps => x.by \in Tabs /\ x.by # t)
    BY <1>4, <1>10, GoodMember DEF GoodStmt
  <2> QED
    BY <1>2, <1>6, <2>1, StillGood DEF GoodStmt, PageReads
<1>11. Statements'
    BY <1>8, <1>9, <1>10 DEF Statements
<1>12. GoodTab(tab[t])'
    BY <1>5, <1>6 DEF GoodTab
<1>13. Types' /\ Pages' /\ CommittedWasApproved'
    BY <1>2, <1>6, <1>12, PageMoves, SameCommitted DEF OpenPage, IInv, Types, outside
<1> QED
    BY <1>8, <1>11, <1>13 DEF IInv

LEMMA TxForPageKeeps ==
    ASSUME IInv, NEW i \in DOMAIN db, TxForPage(i)
    PROVE  IInv'
<1>11. PICK t \in Tabs : t = db[i].by
    BY GoodMember DEF TxForPage, GoodStmt, Wants, PageReads
<1>1. /\ db[i] \in Stmt /\ GoodStmt(db[i]) /\ tab[t].at # "closed"
      /\ tab \in [Tabs -> Page] /\ tab[t] \in Page /\ GoodTab(tab[t])
    BY <1>11, GoodMember DEF TxForPage, GoodStmt, Wants, PageReads, IInv, Types, Pages
<1>2. tab[t].cmd \in Command /\ rows[tab[t].cmd] \in Row \cup {NoRow}
    BY <1>1 DEF GoodTab, IInv, Types
<1>3. PICK x \in Calls \cup {NoCall}, y \in {"missing", "pending", "signed", "executed"} :
        tab' = [tab EXCEPT ![t].tx = x, ![t].status = y]
  <2>1. CASE rows[tab[t].cmd] # NoRow
    <3>1. rows[tab[t].cmd] \in Row
      BY <1>2, <2>1
    <3> QED
      BY <1>11, <2>1, <3>1 DEF TxForPage, Row
  <2>2. CASE rows[tab[t].cmd] = NoRow
    <3>1. tab' = [tab EXCEPT ![t].status = "missing"]
      BY <1>11, <2>2 DEF TxForPage
    <3>2. tab[t].tx \in Calls \cup {NoCall}
      BY <1>1 DEF Page
    <3>3. tab' = [tab EXCEPT ![t].tx = tab[t].tx, ![t].status = "missing"]
      BY <1>1, <3>1 DEF Page
    <3> QED
      BY <3>2, <3>3
  <2> QED
    BY <2>1, <2>2
<1>4. /\ tab'[t] = [tab[t] EXCEPT !.tx = x, !.status = y]
      /\ \A u \in Tabs : u # t => tab'[u] = tab[u]
      /\ tab' = [u \in Tabs |-> tab'[u]]
    BY <1>1, <1>3
<1>5. /\ tab'[t] \in Page
      /\ tab'[t].at = tab[t].at /\ tab'[t].cmd = tab[t].cmd /\ tab'[t].party = tab[t].party
      /\ tab'[t].sent = tab[t].sent /\ tab'[t].as = tab[t].as /\ tab'[t].sig = tab[t].sig
      /\ tab'[t].held = tab[t].held
  <2> DEFINE z == tab[t]
  <2>1. z \in Page
    BY <1>1
  <2>2. tab'[t] = [z EXCEPT !.tx = x, !.status = y]
    BY <1>4
  <2> HIDE DEF z
  <2>3. tab'[t] \in Page
    BY <2>1, <2>2 DEF Page
  <2>4. /\ tab'[t].at = z.at /\ tab'[t].cmd = z.cmd /\ tab'[t].party = z.party
        /\ tab'[t].sent = z.sent /\ tab'[t].as = z.as /\ tab'[t].sig = z.sig
        /\ tab'[t].held = z.held
    BY <2>1, <2>2 DEF Page
  <2> QED
    BY <2>3, <2>4 DEF z
<1>6. tab' \in [Tabs -> Page]
    BY <1>1, <1>4, <1>5
<1>7. /\ db' \in Seq(Stmt) /\ Alone'
      /\ \A k \in DOMAIN db' : \E j \in DOMAIN db : j # i /\ db'[k] = db[j]
    BY RanLast DEF TxForPage, IInv, Statements
<1>8. ASSUME NEW s, GoodStmt(s)
      PROVE  GoodStmt(s)'
  <2>1. Wants(s) \in PageReads \cup Steps => s.by \in Tabs /\ tab[s.by].at # "closed"
    BY <1>8 DEF GoodStmt
  <2>2. \A u \in Tabs : tab'[u].at = tab[u].at /\ tab'[u].party = tab[u].party
    BY <1>4, <1>5
  <2>3. rows' = rows
    BY DEF TxForPage
  <2> QED
    BY <1>8, <2>1, <2>2, <2>3, StillGood DEF PageReads
<1>9. Statements'
    BY <1>7, <1>8, GoodMember DEF Statements
<1>10. /\ rows' = rows /\ primary' = primary /\ call' = call /\ preparedFor' = preparedFor
       /\ committed' = committed /\ announced' = announced /\ approved' = approved
       /\ crashed' = crashed
    BY DEF TxForPage, outside
<1>12. GoodTab(tab[t])'
    BY <1>1, <1>5, <1>10 DEF GoodTab
<1>13. Types' /\ Pages' /\ CommittedWasApproved'
    BY <1>4, <1>6, <1>10, <1>12, PageMoves, SameCommitted DEF IInv, Types
<1> QED
    BY <1>7, <1>9, <1>13 DEF IInv

LEMMA WalletsForPageKeeps ==
    ASSUME IInv, NEW i \in DOMAIN db, WalletsForPage(i)
    PROVE  IInv'
<1>1. PICK t \in Tabs : t = db[i].by
    BY GoodMember DEF WalletsForPage, GoodStmt, Wants, PageReads
<1>2. /\ db[i] \in Stmt /\ GoodStmt(db[i]) /\ tab[t].at # "closed" /\ tab[t].party = NoWallet
      /\ tab \in [Tabs -> Page] /\ tab[t] \in Page /\ GoodTab(tab[t]) /\ primary \in Wallet
      /\ tab[t].as = NoWallet
    BY <1>1, GoodMember DEF WalletsForPage, GoodStmt, Wants, PageReads, IInv, Types, Pages, GoodTab
<1>3. /\ tab'[t] = [tab[t] EXCEPT !.party = primary]
      /\ \A u \in Tabs : u # t => tab'[u] = tab[u]
      /\ tab' = [u \in Tabs |-> tab'[u]]
    BY <1>1, <1>2 DEF WalletsForPage
<1>4. /\ tab'[t] \in Page
      /\ tab'[t].at = tab[t].at /\ tab'[t].cmd = tab[t].cmd
      /\ tab'[t].sent = tab[t].sent /\ tab'[t].as = tab[t].as /\ tab'[t].sig = tab[t].sig
    BY <1>2, <1>3 DEF Page
<1>5. tab' \in [Tabs -> Page]
    BY <1>2, <1>3, <1>4
<1>6. /\ db' \in Seq(Stmt) /\ Alone'
      /\ \A k \in DOMAIN db' : \E j \in DOMAIN db : j # i /\ db'[k] = db[j]
    BY RanLast DEF WalletsForPage, IInv, Statements
<1>7. ASSUME NEW s, NEW j \in DOMAIN db, j # i, s = db[j]
      PROVE  GoodStmt(s)'
  <2>1. /\ GoodStmt(s)
        /\ Wants(s) \in PageReads \cup Steps => s.by \in Tabs /\ tab[s.by].at # "closed"
    BY <1>7, GoodMember DEF GoodStmt
  <2>2. Wants(s) = "walletsForPage" => s.by # t
    BY <1>1, <1>7 DEF IInv, Alone, SameTurn, WalletsForPage, Wants, PageReads
  <2>3. rows' = rows /\ \A u \in Tabs : tab'[u].at = tab[u].at
    BY <1>3, <1>4 DEF WalletsForPage
  <2> QED
    BY <1>3, <2>1, <2>2, <2>3, StillGood DEF PageReads
<1>8. Statements'
    BY <1>6, <1>7 DEF Statements
<1>9. /\ rows' = rows /\ primary' = primary /\ call' = call /\ preparedFor' = preparedFor
      /\ committed' = committed /\ announced' = announced /\ approved' = approved
      /\ crashed' = crashed
    BY DEF WalletsForPage, outside
<1>10. GoodTab(tab[t])'
    BY <1>2, <1>4, <1>9 DEF GoodTab
<1>11. Types' /\ Pages' /\ CommittedWasApproved'
    BY <1>3, <1>5, <1>9, <1>10, PageMoves, SameCommitted DEF IInv, Types
<1> QED
    BY <1>6, <1>8, <1>11 DEF IInv

LEMMA ApproveKeeps ==
    ASSUME IInv, NEW t \in Tabs, Approve(t)
    PROVE  IInv'
<1> DEFINE s == Request("walletToSign", t)
           a == [tx |-> tab[t].tx, party |-> tab[t].party]
<1>1. s \in Stmt /\ s.op = "session" /\ s.by = t /\ s.cmd = "walletToSign" /\ Wants(s) = "walletToSign"
    BY RequestType DEF Reads, By, Steps, Wants
<1>2. Issue(<<s>>) /\ approved' = approved \cup {a}
    BY DEF Approve
<1> HIDE DEF s
<1>3. /\ tab \in [Tabs -> Page] /\ tab[t] \in Page /\ GoodTab(tab[t])
      /\ tab[t].at \in {"open", "error"}
    BY DEF Approve, IInv, Types, Pages
<1>4. /\ tab'[t] = [tab[t] EXCEPT !.at = "signing", !.sent = tab[t].tx, !.as = tab[t].party]
      /\ \A u \in Tabs : u # t => tab'[u] = tab[u]
      /\ tab' = [u \in Tabs |-> tab'[u]]
    BY <1>3 DEF Approve
<1>5. /\ tab'[t] \in Page /\ tab'[t].at = "signing" /\ tab'[t].cmd = tab[t].cmd
      /\ tab'[t].sent = tab[t].tx /\ tab'[t].as = tab[t].party /\ tab'[t].party = tab[t].party
    BY <1>3, <1>4 DEF Page
<1>6. tab' \in [Tabs -> Page]
    BY <1>3, <1>4, <1>5
<1>7. \A j \in DOMAIN db : ~SameTurn(db[j], s) /\ ~SameTurn(s, db[j])
    BY <1>1, <1>3, GoodMember DEF SameTurn, GoodStmt, Steps, PageReads
<1>8. /\ db' \in Seq(Stmt) /\ Alone'
      /\ \A k \in DOMAIN db' : db'[k] = s \/ \E j \in DOMAIN db : db'[k] = db[j]
    BY <1>1, <1>2, <1>7, IssuedOne DEF IInv, Statements
<1>9. GoodStmt(s)'
    BY <1>1, <1>5 DEF GoodStmt, Writes, PageReads, Steps, Reads
<1>10. ASSUME NEW x, NEW j \in DOMAIN db, x = db[j]
       PROVE  GoodStmt(x)'
  <2>1. /\ GoodStmt(x)
        /\ Wants(x) \in PageReads \cup Steps => x.by \in Tabs /\ tab[x.by].at # "closed"
        /\ Wants(x) \in Steps => x.by # t
    BY <1>3, <1>10, GoodMember DEF GoodStmt, Steps
  <2>2. /\ rows' = rows
        /\ \A u \in Tabs : /\ tab'[u].party = tab[u].party
                           /\ tab[u].at # "closed" => tab'[u].at # "closed"
    BY <1>3, <1>4, <1>5 DEF Approve
  <2> QED
    BY <1>4, <2>1, <2>2, StillGood DEF PageReads
<1>11. Statements'
    BY <1>8, <1>9, <1>10 DEF Statements
<1>12. /\ rows' = rows /\ primary' = primary /\ call' = call /\ preparedFor' = preparedFor
       /\ committed' = committed /\ announced' = announced /\ crashed' = crashed
    BY DEF Approve, outside
<1>13. GoodTab(tab[t])'
    BY <1>2, <1>3, <1>5 DEF GoodTab
<1>14. a \in [tx : Calls \cup {NoCall}, party : Wallet \cup {NoWallet}]
    BY <1>3 DEF Page
<1>15. Types' /\ Pages' /\ CommittedWasApproved'
    BY <1>2, <1>4, <1>6, <1>12, <1>13, <1>14, PageMoves, SameCommitted DEF IInv, Types
<1> QED
    BY <1>8, <1>11, <1>15 DEF IInv

\* The statements that stay when a step of page t has run.
LEMMA OthersGood ==
    ASSUME IInv, NEW i \in DOMAIN db, NEW t \in Tabs, db[i].by = t, Wants(db[i]) \in Steps,
           rows' = rows, tab'[t].at # "closed", tab'[t].party = tab[t].party,
           \A u \in Tabs : u # t => tab'[u] = tab[u],
           NEW s, NEW j \in DOMAIN db, j # i, s = db[j]
    PROVE  GoodStmt(s)'
<1>1. /\ GoodStmt(s)
      /\ Wants(s) \in PageReads \cup Steps => s.by \in Tabs /\ tab[s.by].at # "closed"
    BY GoodMember DEF GoodStmt
<1>2. Wants(s) \in Steps => s.by # t
    BY DEF IInv, Alone, SameTurn
<1> QED
    BY <1>1, <1>2, StillGood DEF PageReads

\* The statements that stay when page t has no step under way.
LEMMA AllGood ==
    ASSUME IInv, NEW t \in Tabs,
           tab[t].at \notin {"signing", "signed", "executing"},
           rows' = rows, tab'[t].at # "closed", tab'[t].party = tab[t].party,
           \A u \in Tabs : u # t => tab'[u] = tab[u],
           NEW s, NEW j \in DOMAIN db, s = db[j]
    PROVE  GoodStmt(s)'
<1>1. /\ GoodStmt(s)
      /\ Wants(s) \in PageReads \cup Steps => s.by \in Tabs /\ tab[s.by].at # "closed"
      /\ Wants(s) \in Steps => s.by # t
    BY GoodMember DEF GoodStmt, Steps
<1> QED
    BY <1>1, StillGood DEF PageReads

LEMMA NoTurn ==
    ASSUME IInv, NEW t \in Tabs, tab[t].at \notin {"signing", "signed", "executing"},
           NEW s \in Stmt, s.by = t, Wants(s) \in Steps, NEW j \in DOMAIN db
    PROVE  ~SameTurn(db[j], s) /\ ~SameTurn(s, db[j])
    BY GoodMember DEF SameTurn, GoodStmt, Steps, PageReads

LEMMA WalletToSignKeeps ==
    ASSUME IInv, NEW i \in DOMAIN db, WalletToSign(i)
    PROVE  IInv'
<1>1. PICK t \in Tabs : t = db[i].by
    BY GoodMember DEF WalletToSign, GoodStmt, Wants, Steps
<1> DEFINE z == tab[t]
<1>2. /\ Wants(db[i]) \in Steps /\ z.at = "signing"
      /\ tab \in [Tabs -> Page] /\ z \in Page /\ GoodTab(z)
    BY <1>1, GoodMember DEF WalletToSign, GoodStmt, Wants, Steps, IInv, Types, Pages
<1>3. PICK at \in {"error", "atDriver"} :
        /\ tab'[t] = [z EXCEPT !.at = at]
        /\ at = "atDriver" => z.as # NoWallet
        /\ \A u \in Tabs : u # t => tab'[u] = tab[u]
        /\ tab' = [u \in Tabs |-> tab'[u]]
  <2>1. CASE z.as = NoWallet
    BY <1>1, <1>2, <2>1 DEF WalletToSign
  <2>2. CASE z.as # NoWallet
    BY <1>1, <1>2, <2>2 DEF WalletToSign
  <2> QED
    BY <2>1, <2>2
<1> HIDE DEF z
<1>4. /\ tab'[t] \in Page /\ tab'[t].at = at /\ tab'[t].cmd = z.cmd /\ tab'[t].party = z.party
      /\ tab'[t].sent = z.sent /\ tab'[t].as = z.as /\ tab'[t].sig = z.sig
  <2>1. tab'[t] \in Page
    BY <1>2, <1>3 DEF Page
  <2>2. /\ tab'[t].at = at /\ tab'[t].cmd = z.cmd /\ tab'[t].party = z.party
        /\ tab'[t].sent = z.sent /\ tab'[t].as = z.as /\ tab'[t].sig = z.sig
    BY <1>2, <1>3 DEF Page
  <2> QED
    BY <2>1, <2>2
<1>5. tab' \in [Tabs -> Page]
    BY <1>2, <1>3, <1>4
<1>6. /\ db' \in Seq(Stmt) /\ Alone'
      /\ \A k \in DOMAIN db' : \E j \in DOMAIN db : j # i /\ db'[k] = db[j]
    BY RanLast DEF WalletToSign, IInv, Statements
<1>7. /\ rows' = rows /\ primary' = primary /\ call' = call /\ preparedFor' = preparedFor
      /\ committed' = committed /\ announced' = announced /\ approved' = approved
      /\ crashed' = crashed
    BY DEF WalletToSign, outside
<1>8. Statements'
    BY <1>1, <1>2, <1>3, <1>4, <1>6, <1>7, OthersGood DEF Statements, z
<1>9. GoodTab(tab[t])'
    BY <1>2, <1>3, <1>4, <1>7 DEF GoodTab
<1>10. Types' /\ Pages' /\ CommittedWasApproved'
    BY <1>3, <1>5, <1>7, <1>9, PageMoves, SameCommitted DEF IInv, Types
<1> QED
    BY <1>6, <1>8, <1>10 DEF IInv

LEMMA SignLaterKeeps ==
    ASSUME IInv, NEW t \in Tabs, SignLater(t)
    PROVE  IInv'
<1> DEFINE z == tab[t]
<1>1. tab \in [Tabs -> Page] /\ z \in Page /\ GoodTab(z) /\ z.at = "atDriver"
    BY DEF SignLater, IInv, Types, Pages
<1>2. /\ tab'[t] = [z EXCEPT !.at = "answered", !.sig = NoCall]
      /\ \A u \in Tabs : u # t => tab'[u] = tab[u]
      /\ tab' = [u \in Tabs |-> tab'[u]]
    BY <1>1 DEF SignLater
<1>3. /\ rows' = rows /\ primary' = primary /\ call' = call /\ preparedFor' = preparedFor
      /\ committed' = committed /\ announced' = announced /\ approved' = approved
      /\ crashed' = crashed /\ db' = db
    BY DEF SignLater, outside, store
<1> HIDE DEF z
<1>4. /\ tab'[t] \in Page /\ tab'[t].at = "answered" /\ tab'[t].cmd = z.cmd
      /\ tab'[t].party = z.party /\ tab'[t].sent = z.sent /\ tab'[t].as = z.as
      /\ tab'[t].sig = NoCall
    BY <1>1, <1>2 DEF Page
<1>5. tab' \in [Tabs -> Page]
    BY <1>1, <1>2, <1>4
<1>6. Statements' /\ Alone'
    BY <1>1, <1>2, <1>3, <1>4, AllGood DEF IInv, Statements, Alone, z
<1>7. GoodTab(tab[t])'
    BY <1>1, <1>3, <1>4 DEF GoodTab
<1>8. Types' /\ Pages' /\ CommittedWasApproved'
    BY <1>2, <1>3, <1>5, <1>7, PageMoves, SameCommitted DEF IInv, Types
<1> QED
    BY <1>6, <1>8 DEF IInv

LEMMA SignNowKeeps ==
    ASSUME IInv, NEW t \in Tabs, SignNow(t)
    PROVE  IInv'
<1> DEFINE s == Query("txToSign", t)
           z == tab[t]
<1>1. s \in Stmt /\ s.op = "txToSign" /\ s.by = t /\ Wants(s) = "txToSign"
    BY QueryType DEF Reads, By, Steps, Wants
<1>2. Issue(<<s>>)
    BY DEF SignNow
<1> HIDE DEF s
<1>3. tab \in [Tabs -> Page] /\ z \in Page /\ GoodTab(z) /\ z.at = "atDriver"
    BY DEF SignNow, IInv, Types, Pages
<1>4. /\ tab'[t] = [z EXCEPT !.at = "signed", !.sig = z.sent]
      /\ \A u \in Tabs : u # t => tab'[u] = tab[u]
      /\ tab' = [u \in Tabs |-> tab'[u]]
    BY <1>3 DEF SignNow, Signed
<1> HIDE DEF z
<1>5. /\ tab'[t] \in Page /\ tab'[t].at = "signed" /\ tab'[t].cmd = z.cmd
      /\ tab'[t].party = z.party /\ tab'[t].sent = z.sent /\ tab'[t].as = z.as
      /\ tab'[t].sig = z.sent
    BY <1>3, <1>4 DEF Page
<1>6. tab' \in [Tabs -> Page]
    BY <1>3, <1>4, <1>5
<1>7. \A j \in DOMAIN db : ~SameTurn(db[j], s) /\ ~SameTurn(s, db[j])
    BY <1>1, <1>3, NoTurn DEF Steps, z
<1>8. /\ db' \in Seq(Stmt) /\ Alone'
      /\ \A k \in DOMAIN db' : db'[k] = s \/ \E j \in DOMAIN db : db'[k] = db[j]
    BY <1>1, <1>2, <1>7, IssuedOne DEF IInv, Statements
<1>9. GoodStmt(s)'
    BY <1>1, <1>5 DEF GoodStmt, Writes, PageReads, Steps, Reads
<1>10. /\ rows' = rows /\ primary' = primary /\ call' = call /\ preparedFor' = preparedFor
       /\ committed' = committed /\ announced' = announced /\ approved' = approved
       /\ crashed' = crashed
    BY DEF SignNow, outside
<1>11. Statements'
    BY <1>3, <1>4, <1>5, <1>8, <1>9, <1>10, AllGood DEF Statements, z
<1>12. GoodTab(tab[t])'
    BY <1>3, <1>5, <1>10 DEF GoodTab
<1>13. Types' /\ Pages' /\ CommittedWasApproved'
    BY <1>4, <1>6, <1>10, <1>12, PageMoves, SameCommitted DEF IInv, Types
<1> QED
    BY <1>8, <1>11, <1>13 DEF IInv

LEMMA TxToSignKeeps ==
    ASSUME IInv, NEW i \in DOMAIN db, TxToSign(i)
    PROVE  IInv'
<1>1. PICK t \in Tabs : t = db[i].by
    BY GoodMember DEF TxToSign, GoodStmt, Wants, Steps
<1> DEFINE z == tab[t]
<1>2. /\ Wants(db[i]) \in Steps /\ z.at = "signed"
      /\ tab \in [Tabs -> Page] /\ z \in Page /\ GoodTab(z)
    BY <1>1, GoodMember DEF TxToSign, GoodStmt, Wants, Steps, IInv, Types, Pages
<1>3. /\ tab'[t] = [z EXCEPT !.at = "recording"]
      /\ \A u \in Tabs : u # t => tab'[u] = tab[u]
      /\ tab' = [u \in Tabs |-> tab'[u]]
    BY <1>1, <1>2 DEF TxToSign
<1> HIDE DEF z
<1>4. /\ tab'[t] \in Page /\ tab'[t].at = "recording" /\ tab'[t].cmd = z.cmd
      /\ tab'[t].party = z.party /\ tab'[t].sent = z.sent /\ tab'[t].as = z.as
      /\ tab'[t].sig = z.sig
    BY <1>2, <1>3, PageGoesTo, Zenon
<1>5. tab' \in [Tabs -> Page]
    BY <1>2, <1>3, <1>4
<1>6. /\ db' \in Seq(Stmt) /\ Alone'
      /\ \A k \in DOMAIN db' : \E j \in DOMAIN db : j # i /\ db'[k] = db[j]
    BY RanLast DEF TxToSign, IInv, Statements
<1>7. /\ rows' = rows /\ primary' = primary /\ call' = call /\ preparedFor' = preparedFor
      /\ committed' = committed /\ announced' = announced /\ approved' = approved
      /\ crashed' = crashed
    BY DEF TxToSign, outside
<1>8. Statements'
    BY <1>1, <1>2, <1>3, <1>4, <1>6, <1>7, OthersGood DEF Statements, z
<1>9. GoodTab(tab[t])'
    BY <1>2, <1>3, <1>4, <1>7 DEF GoodTab
<1>10. Types' /\ Pages' /\ CommittedWasApproved'
    BY <1>3, <1>5, <1>7, <1>9, PageMoves, SameCommitted DEF IInv, Types
<1> QED
    BY <1>6, <1>8, <1>10 DEF IInv

LEMMA RecordSignedKeeps ==
    ASSUME IInv, NEW t \in Tabs, RecordSigned(t)
    PROVE  IInv'
<1> DEFINE z == tab[t]
           patch == [status |-> "signed", tx |-> z.sig, payload |-> "keep"]
<1>1. tab \in [Tabs -> Page] /\ z \in Page /\ GoodTab(z) /\ z.at = "recording"
    BY DEF RecordSigned, IInv, Types, Pages
<1>2. z.cmd \in Command /\ patch \in Patch
    BY <1>1 DEF GoodTab, Page, Patch
<1>3. PICK s : s = Write("look", z.cmd, patch)
    OBVIOUS
<1>4. s \in Stmt /\ s.op = "look" /\ s.cmd \in Command
    BY <1>2, <1>3, WriteType DEF Writes
<1>5. Issue(<<s>>)
    BY <1>3 DEF RecordSigned
<1>6. /\ tab'[t] = [z EXCEPT !.at = "answered"]
      /\ \A u \in Tabs : u # t => tab'[u] = tab[u]
      /\ tab' = [u \in Tabs |-> tab'[u]]
    BY <1>1 DEF RecordSigned
<1>7. /\ rows' = rows /\ primary' = primary /\ call' = call /\ preparedFor' = preparedFor
      /\ committed' = committed /\ approved' = approved
      /\ crashed' = crashed
      /\ announced' = [announced EXCEPT ![z.cmd] = @ \cup {"signed"}]
    BY DEF RecordSigned, Announce
<1> HIDE DEF z, patch
<1>8. /\ tab'[t] \in Page /\ tab'[t].at = "answered" /\ tab'[t].cmd = z.cmd
      /\ tab'[t].party = z.party /\ tab'[t].sent = z.sent /\ tab'[t].as = z.as
      /\ tab'[t].sig = z.sig
    BY <1>1, <1>6, PageGoesTo, Zenon
<1>9. tab' \in [Tabs -> Page]
    BY <1>1, <1>6, <1>8
<1>10. \A j \in DOMAIN db : ~SameTurn(db[j], s) /\ ~SameTurn(s, db[j])
    BY <1>4, WritesTakeNoTurn, GoodMember DEF Writes
<1>11. /\ db' \in Seq(Stmt) /\ Alone'
       /\ \A k \in DOMAIN db' : db'[k] = s \/ \E j \in DOMAIN db : db'[k] = db[j]
    BY <1>4, <1>5, <1>10, IssuedOne DEF IInv, Statements
<1>12. GoodStmt(s)'
    BY <1>4 DEF GoodStmt, Writes, Wants, PageReads, Steps, Reads
<1>13. Statements'
    BY <1>1, <1>6, <1>7, <1>8, <1>11, <1>12, AllGood DEF Statements, z
<1>14. GoodTab(tab[t])'
    BY <1>1, <1>7, <1>8 DEF GoodTab
<1>15. Types' /\ Pages' /\ CommittedWasApproved'
    BY <1>2, <1>6, <1>7, <1>9, <1>14, PageMoves, SameCommitted DEF IInv, Types
<1> QED
    BY <1>11, <1>13, <1>15 DEF IInv

LEMMA SignFailsKeeps ==
    ASSUME IInv, NEW t \in Tabs, SignFails(t)
    PROVE  IInv'
<1> DEFINE z == tab[t]
<1>1. tab \in [Tabs -> Page] /\ z \in Page /\ GoodTab(z) /\ z.at = "atDriver"
    BY DEF SignFails, IInv, Types, Pages
<1>2. /\ tab'[t] = [z EXCEPT !.at = "error"]
      /\ \A u \in Tabs : u # t => tab'[u] = tab[u]
      /\ tab' = [u \in Tabs |-> tab'[u]]
    BY <1>1 DEF SignFails
<1>3. /\ rows' = rows /\ primary' = primary /\ call' = call /\ preparedFor' = preparedFor
      /\ committed' = committed /\ announced' = announced /\ approved' = approved
      /\ crashed' = crashed /\ db' = db
    BY DEF SignFails, outside, store
<1> HIDE DEF z
<1>4. /\ tab'[t] \in Page /\ tab'[t].at = "error" /\ tab'[t].cmd = z.cmd
      /\ tab'[t].party = z.party /\ tab'[t].sent = z.sent /\ tab'[t].as = z.as
      /\ tab'[t].sig = z.sig
    BY <1>1, <1>2, PageGoesTo, Zenon
<1>5. tab' \in [Tabs -> Page]
    BY <1>1, <1>2, <1>4
<1>6. Statements' /\ Alone'
    BY <1>1, <1>2, <1>3, <1>4, AllGood DEF IInv, Statements, Alone, z
<1>7. GoodTab(tab[t])'
    BY <1>1, <1>3, <1>4 DEF GoodTab
<1>8. Types' /\ Pages' /\ CommittedWasApproved'
    BY <1>2, <1>3, <1>5, <1>7, PageMoves, SameCommitted DEF IInv, Types
<1> QED
    BY <1>6, <1>8 DEF IInv

LEMMA AskToExecuteKeeps ==
    ASSUME IInv, NEW t \in Tabs, AskToExecute(t)
    PROVE  IInv'
<1> DEFINE s == Request("primaryToExecute", t)
           z == tab[t]
<1>1. s \in Stmt /\ s.op = "session" /\ s.by = t /\ s.cmd = "primaryToExecute"
      /\ Wants(s) = "primaryToExecute"
    BY RequestType DEF Reads, By, Steps, Wants
<1>2. Issue(<<s>>)
    BY DEF AskToExecute
<1> HIDE DEF s
<1>3. tab \in [Tabs -> Page] /\ z \in Page /\ GoodTab(z) /\ z.at = "answered"
    BY DEF AskToExecute, IInv, Types, Pages
<1>4. /\ tab'[t] = [z EXCEPT !.at = "executing"]
      /\ \A u \in Tabs : u # t => tab'[u] = tab[u]
      /\ tab' = [u \in Tabs |-> tab'[u]]
    BY <1>3 DEF AskToExecute
<1> HIDE DEF z
<1>5. /\ tab'[t] \in Page /\ tab'[t].at = "executing" /\ tab'[t].cmd = z.cmd
      /\ tab'[t].party = z.party /\ tab'[t].sent = z.sent /\ tab'[t].as = z.as
      /\ tab'[t].sig = z.sig
    BY <1>3, <1>4, PageGoesTo, Zenon
<1>6. tab' \in [Tabs -> Page]
    BY <1>3, <1>4, <1>5
<1>7. \A j \in DOMAIN db : ~SameTurn(db[j], s) /\ ~SameTurn(s, db[j])
    BY <1>1, <1>3, NoTurn DEF Steps, z
<1>8. /\ db' \in Seq(Stmt) /\ Alone'
      /\ \A k \in DOMAIN db' : db'[k] = s \/ \E j \in DOMAIN db : db'[k] = db[j]
    BY <1>1, <1>2, <1>7, IssuedOne DEF IInv, Statements
<1>9. GoodStmt(s)'
    BY <1>1, <1>5 DEF GoodStmt, Writes, PageReads, Steps, Reads
<1>10. /\ rows' = rows /\ primary' = primary /\ call' = call /\ preparedFor' = preparedFor
       /\ committed' = committed /\ announced' = announced /\ approved' = approved
       /\ crashed' = crashed
    BY DEF AskToExecute, outside
<1>11. Statements'
    BY <1>3, <1>4, <1>5, <1>8, <1>9, <1>10, AllGood DEF Statements, z
<1>12. GoodTab(tab[t])'
    BY <1>3, <1>5, <1>10 DEF GoodTab
<1>13. Types' /\ Pages' /\ CommittedWasApproved'
    BY <1>4, <1>6, <1>10, <1>12, PageMoves, SameCommitted DEF IInv, Types
<1> QED
    BY <1>8, <1>11, <1>13 DEF IInv

LEMMA UnheardKeeps ==
    ASSUME IInv, NEW t \in Tabs, Unheard(t)
    PROVE  IInv'
<1> DEFINE z == tab[t]
<1>1. tab \in [Tabs -> Page] /\ z \in Page /\ GoodTab(z) /\ z.at = "answered"
    BY DEF Unheard, IInv, Types, Pages
<1>2. /\ tab'[t] = [z EXCEPT !.at = "error"]
      /\ \A u \in Tabs : u # t => tab'[u] = tab[u]
      /\ tab' = [u \in Tabs |-> tab'[u]]
    BY <1>1 DEF Unheard
<1>3. /\ rows' = rows /\ primary' = primary /\ call' = call /\ preparedFor' = preparedFor
      /\ committed' = committed /\ announced' = announced /\ approved' = approved
      /\ crashed' = crashed /\ db' = db
    BY DEF Unheard, outside, store
<1> HIDE DEF z
<1>4. /\ tab'[t] \in Page /\ tab'[t].at = "error" /\ tab'[t].cmd = z.cmd
      /\ tab'[t].party = z.party /\ tab'[t].sent = z.sent /\ tab'[t].as = z.as
      /\ tab'[t].sig = z.sig
    BY <1>1, <1>2, PageGoesTo, Zenon
<1>5. tab' \in [Tabs -> Page]
    BY <1>1, <1>2, <1>4
<1>6. Statements' /\ Alone'
    BY <1>1, <1>2, <1>3, <1>4, AllGood DEF IInv, Statements, Alone, z
<1>7. GoodTab(tab[t])'
    BY <1>1, <1>3, <1>4 DEF GoodTab
<1>8. Types' /\ Pages' /\ CommittedWasApproved'
    BY <1>2, <1>3, <1>5, <1>7, PageMoves, SameCommitted DEF IInv, Types
<1> QED
    BY <1>6, <1>8 DEF IInv

LEMMA PrimaryToExecuteKeeps ==
    ASSUME IInv, NEW i \in DOMAIN db, PrimaryToExecute(i)
    PROVE  IInv'
<1>1. PICK t \in Tabs : t = db[i].by
    BY GoodMember DEF PrimaryToExecute, GoodStmt, Wants, Steps
<1> DEFINE z == tab[t]
           s == Query("txToExecute", t)
<1>2. /\ Wants(db[i]) = "primaryToExecute" /\ z.at = "executing"
      /\ tab \in [Tabs -> Page] /\ z \in Page /\ GoodTab(z) /\ primary \in Wallet
    BY <1>1, GoodMember DEF PrimaryToExecute, GoodStmt, Wants, Steps, IInv, Types, Pages
<1>3. /\ tab'[t] = [z EXCEPT !.by = primary]
      /\ \A u \in Tabs : u # t => tab'[u] = tab[u]
      /\ tab' = [u \in Tabs |-> tab'[u]]
    BY <1>1, <1>2 DEF PrimaryToExecute
<1>4. s \in Stmt /\ s.op = "txToExecute" /\ s.by = t /\ Wants(s) = "txToExecute"
    BY QueryType DEF Reads, By, Steps, Wants
<1>5. RunAndIssue(i, <<s>>)
    BY <1>1 DEF PrimaryToExecute
<1> HIDE DEF z, s
<1>6. /\ tab'[t] \in Page /\ tab'[t].at = z.at /\ tab'[t].cmd = z.cmd /\ tab'[t].party = z.party
      /\ tab'[t].sent = z.sent /\ tab'[t].as = z.as /\ tab'[t].sig = z.sig
  <2>1. tab'[t] \in Page
    BY <1>2, <1>3 DEF Page
  <2>2. /\ tab'[t].at = z.at /\ tab'[t].cmd = z.cmd /\ tab'[t].party = z.party
        /\ tab'[t].sent = z.sent /\ tab'[t].as = z.as /\ tab'[t].sig = z.sig
    BY <1>2, <1>3 DEF Page
  <2> QED
    BY <2>1, <2>2
<1>7. tab' \in [Tabs -> Page]
    BY <1>2, <1>3, <1>6
<1>8. \A r \in Stmt : SameTurn(r, s) \/ SameTurn(s, r) => SameTurn(r, db[i])
    BY <1>1, <1>2, <1>4 DEF SameTurn, Steps, PageReads
<1>9. /\ db' \in Seq(Stmt) /\ Alone'
      /\ \A k \in DOMAIN db' : db'[k] = s \/ \E j \in DOMAIN db : j # i /\ db'[k] = db[j]
    BY <1>4, <1>5, <1>8, RanOn DEF IInv, Statements
<1>10. GoodStmt(s)'
    BY <1>2, <1>4, <1>6 DEF GoodStmt, Writes, PageReads, Steps, Reads
<1>11. /\ rows' = rows /\ primary' = primary /\ call' = call /\ preparedFor' = preparedFor
       /\ committed' = committed /\ announced' = announced /\ approved' = approved
       /\ crashed' = crashed
    BY DEF PrimaryToExecute, outside
<1>12. Wants(db[i]) \in Steps /\ tab'[t].at # "closed" /\ tab'[t].party = tab[t].party
    BY <1>2, <1>6 DEF Steps, z
<1>13. Statements'
    BY <1>1, <1>3, <1>9, <1>10, <1>11, <1>12, OthersGood DEF Statements
<1>14. GoodTab(tab[t])'
    BY <1>2, <1>6, <1>11 DEF GoodTab
<1>15. Types' /\ Pages' /\ CommittedWasApproved'
    BY <1>3, <1>7, <1>11, <1>14, PageMoves, SameCommitted DEF IInv, Types
<1> QED
    BY <1>9, <1>13, <1>15 DEF IInv

LEMMA TxToExecuteKeeps ==
    ASSUME IInv, NEW i \in DOMAIN db, TxToExecute(i)
    PROVE  IInv'
<1>1. PICK t \in Tabs : t = db[i].by
    BY GoodMember DEF TxToExecute, GoodStmt, Wants, Steps
<1> DEFINE z == tab[t]
           row == rows[z.cmd]
<1>2. /\ Wants(db[i]) \in Steps /\ z.at = "executing"
      /\ tab \in [Tabs -> Page] /\ z \in Page /\ GoodTab(z)
    BY <1>1, GoodMember DEF TxToExecute, GoodStmt, Wants, Steps, IInv, Types, Pages
<1>3. row \in Row \cup {NoRow}
    BY <1>2 DEF IInv, Types, GoodTab
<1>4. PICK at \in {"error", "submitted"} :
        /\ tab'[t] = [z EXCEPT !.held = row, !.at = at]
        /\ at = "submitted" => row \in Row
        /\ \A u \in Tabs : u # t => tab'[u] = tab[u]
        /\ tab' = [u \in Tabs |-> tab'[u]]
  <2>1. CASE row = NoRow
    BY <1>1, <1>2, <2>1 DEF TxToExecute
  <2>2. CASE row # NoRow
    BY <1>1, <1>2, <1>3, <2>2 DEF TxToExecute
  <2> QED
    BY <2>1, <2>2
<1> HIDE DEF z, row
<1>5. /\ tab'[t] \in Page /\ tab'[t].at = at /\ tab'[t].cmd = z.cmd /\ tab'[t].party = z.party
      /\ tab'[t].sent = z.sent /\ tab'[t].as = z.as /\ tab'[t].sig = z.sig
      /\ tab'[t].held = row
  <2>1. tab'[t] \in Page
    BY <1>2, <1>3, <1>4 DEF Page
  <2>2. /\ tab'[t].held = row /\ tab'[t].at = at /\ tab'[t].cmd = z.cmd /\ tab'[t].party = z.party
        /\ tab'[t].sent = z.sent /\ tab'[t].as = z.as /\ tab'[t].sig = z.sig
    BY <1>2, <1>4 DEF Page
  <2> QED
    BY <2>1, <2>2
<1>6. tab' \in [Tabs -> Page]
    BY <1>2, <1>4, <1>5
<1>7. /\ db' \in Seq(Stmt) /\ Alone'
      /\ \A k \in DOMAIN db' : \E j \in DOMAIN db : j # i /\ db'[k] = db[j]
    BY RanLast DEF TxToExecute, IInv, Statements
<1>8. /\ rows' = rows /\ primary' = primary /\ call' = call /\ preparedFor' = preparedFor
      /\ committed' = committed /\ announced' = announced /\ approved' = approved
      /\ crashed' = crashed
    BY DEF TxToExecute, outside
<1>9. Statements'
    BY <1>1, <1>2, <1>4, <1>5, <1>7, <1>8, OthersGood DEF Statements, z
<1>10. GoodTab(tab[t])'
    BY <1>2, <1>4, <1>5, <1>8 DEF GoodTab
<1>11. Types' /\ Pages' /\ CommittedWasApproved'
    BY <1>4, <1>6, <1>8, <1>10, PageMoves, SameCommitted DEF IInv, Types
<1> QED
    BY <1>7, <1>9, <1>11 DEF IInv

\* What the ledger takes is the command of the page, for its party, and is signed by it
\* unless a participant holds its key.
LEMMA CommitsType ==
    ASSUME IInv, NEW t \in Tabs, tab[t].at = "submitted", Commits(t)
    PROVE  \E k \in [cmd : Command, tx : Calls, party : Wallet] :
              /\ committed' = committed \cup {k}
              /\ \A j \in committed : j.cmd # k.cmd \/ j.party # k.party
              /\ k.cmd = tab[t].cmd
              /\ Custody[k.party] = "external" => [tx |-> k.tx, party |-> k.party] \in approved
<1> DEFINE z == tab[t]
           k == [cmd |-> z.cmd, tx |-> Executes(t), party |-> z.party]
<1>1. /\ z \in Page /\ z.at = "submitted" /\ GoodTab(z)
    BY DEF IInv, Types, Pages
<1>2. z.cmd \in Command /\ z.party \in Wallet /\ z.as = z.party
    BY <1>1 DEF GoodTab, Page
<1>3. Executes(t) \in Calls
    BY DEF Commits, Executes, ParticipantTakes, SignatureHolds
<1>4. Custody[z.party] = "external" => [tx |-> Executes(t), party |-> z.party] \in approved
  <2> SUFFICES ASSUME Custody[z.party] = "external"
               PROVE  [tx |-> Executes(t), party |-> z.party] \in approved
    OBVIOUS
  <2>1. SignatureHolds(t)
    BY DEF Commits, ParticipantTakes
  <2>2. Executes(t) = z.held.tx /\ z.sig = z.held.tx /\ z.held.tx \in Calls
    BY <2>1 DEF Executes, SignatureHolds
  <2>3. z.sig = z.sent
    BY <1>1, <2>2, LifecycleAssumption DEF GoodTab
  <2>4. z.as # NoWallet
    BY <1>1 DEF GoodTab
  <2> QED
    BY <1>1, <1>2, <2>2, <2>3, <2>4 DEF GoodTab
<1>5. k \in [cmd : Command, tx : Calls, party : Wallet]
    BY <1>2, <1>3
<1>6. /\ committed' = committed \cup {k}
      /\ \A j \in committed : j.cmd # k.cmd \/ j.party # k.party
    BY DEF Commits
<1> QED
    BY <1>4, <1>5, <1>6

LEMMA CommitsApproved ==
    ASSUME IInv, NEW t \in Tabs, tab[t].at = "submitted", Commits(t), approved' = approved
    PROVE  /\ CommittedWasApproved'
           /\ committed' \subseteq [cmd : Command, tx : Calls, party : Wallet]
<1>1. PICK k \in [cmd : Command, tx : Calls, party : Wallet] :
          /\ committed' = committed \cup {k}
          /\ Custody[k.party] = "external" => [tx |-> k.tx, party |-> k.party] \in approved
    BY CommitsType
<1>2. \A j \in committed :
        Custody[j.party] = "external" => [tx |-> j.tx, party |-> j.party] \in approved
    BY DEF IInv, CommittedWasApproved
<1> QED
    BY <1>1, <1>2 DEF IInv, Types, CommittedWasApproved

LEMMA ExecutedKeeps ==
    ASSUME IInv, NEW t \in Tabs, Executed(t)
    PROVE  IInv'
<1> DEFINE z == tab[t]
           patch == Done(t)
           s == Write("look", z.cmd, patch)
<1>1. tab \in [Tabs -> Page] /\ z \in Page /\ GoodTab(z) /\ z.at = "submitted" /\ z.cmd \in Command
    BY DEF Executed, IInv, Types, Pages, GoodTab
<1>2. patch \in Patch
  <2>1. z.held.tx \in Calls \cup {NoCall}
    BY <1>1 DEF GoodTab, Row
  <2> QED
    BY <2>1 DEF Done, Patch
<1>3. s \in Stmt /\ s.op = "look" /\ s.cmd \in Command
    BY <1>1, <1>2, WriteType DEF Writes
<1>4. Issue(<<s>>)
    BY DEF Executed
<1>5. /\ tab'[t] = [z EXCEPT !.at = "done", !.status = "executed"]
      /\ \A u \in Tabs : u # t => tab'[u] = tab[u]
      /\ tab' = [u \in Tabs |-> tab'[u]]
    BY <1>1 DEF Executed
<1>6. /\ rows' = rows /\ primary' = primary /\ call' = call /\ preparedFor' = preparedFor
      /\ approved' = approved /\ crashed' = crashed
      /\ announced' = [announced EXCEPT ![z.cmd] = @ \cup {"executed"}]
    BY DEF Executed, Announce
<1> HIDE DEF z, patch, s
<1>7. /\ tab'[t] \in Page /\ tab'[t].at = "done" /\ tab'[t].cmd = z.cmd
      /\ tab'[t].party = z.party /\ tab'[t].sent = z.sent /\ tab'[t].as = z.as
  <2>1. tab'[t] \in Page
    BY <1>1, <1>5 DEF Page
  <2>2. /\ tab'[t].at = "done" /\ tab'[t].cmd = z.cmd
        /\ tab'[t].party = z.party /\ tab'[t].sent = z.sent /\ tab'[t].as = z.as
    BY <1>1, <1>5 DEF Page
  <2> QED
    BY <2>1, <2>2
<1>8. tab' \in [Tabs -> Page]
    BY <1>1, <1>5, <1>7
<1>9. \A r \in Stmt : ~SameTurn(r, s) /\ ~SameTurn(s, r)
    BY <1>3, WritesTakeNoTurn DEF Writes
<1>10. /\ db' \in Seq(Stmt) /\ Alone'
       /\ \A k \in DOMAIN db' : db'[k] = s \/ \E j \in DOMAIN db : db'[k] = db[j]
    BY <1>3, <1>4, <1>9, GoodMember, IssuedOne DEF IInv, Statements
<1>11. PICK s1 : s1 = s
    OBVIOUS
<1>12. GoodStmt(s1)'
    BY <1>3, <1>11 DEF GoodStmt, Writes, Wants, PageReads, Steps
<1>13. Statements'
    BY <1>1, <1>5, <1>6, <1>7, <1>10, <1>11, <1>12, AllGood DEF Statements, z
<1>14. GoodTab(tab[t])'
    BY <1>1, <1>6, <1>7 DEF GoodTab
<1>15. CommittedWasApproved' /\ committed' \subseteq [cmd : Command, tx : Calls, party : Wallet]
    BY <1>1, <1>6, CommitsApproved DEF Executed, z
<1>16. Types' /\ Pages'
    BY <1>1, <1>5, <1>6, <1>8, <1>14, <1>15, PageMoves DEF IInv, Types
<1> QED
    BY <1>10, <1>13, <1>15, <1>16 DEF IInv

\* The page gets an error, and the ledger may have committed.
LEMMA ThrowKeeps ==
    ASSUME IInv, NEW t \in Tabs, tab[t].at = "submitted", ExecuteThrows(t),
           UNCHANGED <<call, preparedFor, announced, approved, crashed>>,
           Commits(t) \/ committed' = committed
    PROVE  IInv'
<1> DEFINE z == tab[t]
<1>1. tab \in [Tabs -> Page] /\ z \in Page /\ GoodTab(z) /\ z.at = "submitted"
    BY DEF IInv, Types, Pages
<1>2. /\ tab'[t] = [z EXCEPT !.at = "error"]
      /\ \A u \in Tabs : u # t => tab'[u] = tab[u]
      /\ tab' = [u \in Tabs |-> tab'[u]]
    BY <1>1 DEF ExecuteThrows
<1>3. rows' = rows /\ primary' = primary /\ db' = db
    BY DEF ExecuteThrows, store
<1> HIDE DEF z
<1>4. /\ tab'[t] \in Page /\ tab'[t].at = "error" /\ tab'[t].cmd = z.cmd
      /\ tab'[t].party = z.party /\ tab'[t].sent = z.sent /\ tab'[t].as = z.as
      /\ tab'[t].sig = z.sig
    BY <1>1, <1>2, PageGoesTo, Zenon
<1>5. tab' \in [Tabs -> Page]
    BY <1>1, <1>2, <1>4
<1>6. Statements' /\ Alone'
    BY <1>1, <1>2, <1>3, <1>4, AllGood DEF IInv, Statements, Alone, z
<1>7. GoodTab(tab[t])'
    BY <1>1, <1>4 DEF GoodTab
<1>8. CommittedWasApproved' /\ committed' \subseteq [cmd : Command, tx : Calls, party : Wallet]
    BY CommitsApproved, SameCommitted DEF IInv, Types
<1>9. Types' /\ Pages'
    BY <1>2, <1>3, <1>5, <1>7, <1>8, PageMoves DEF IInv, Types
<1> QED
    BY <1>6, <1>8, <1>9 DEF IInv

LEMMA RefusedKeeps ==
    ASSUME IInv, NEW t \in Tabs, Refused(t)
    PROVE  IInv'
    BY ThrowKeeps DEF Refused, outside

LEMMA AnswerLostKeeps ==
    ASSUME IInv, NEW t \in Tabs, AnswerLost(t)
    PROVE  IInv'
    BY ThrowKeeps DEF AnswerLost

LEMMA SwitchPrimaryKeeps ==
    ASSUME IInv, NEW w \in Wallet, SwitchPrimary(w)
    PROVE  IInv'
<1>1. Statements' /\ Alone'
    BY SameGood DEF SwitchPrimary, IInv, Statements, Alone
<1>2. Types' /\ Pages' /\ CommittedWasApproved'
    BY PagesStay DEF SwitchPrimary, IInv, Types, outside
<1> QED
    BY <1>1, <1>2 DEF IInv

LEMMA RestartKeeps ==
    ASSUME IInv, Restart
    PROVE  IInv'
<1>1. Statements' /\ Alone'
    BY NoStatements DEF Restart
<1>2. /\ rows' = rows /\ primary' = primary /\ preparedFor' = preparedFor
      /\ committed' = committed /\ announced' = announced /\ approved' = approved
      /\ crashed' = crashed
    BY DEF Restart, outside
<1>3. call' \in [Calls -> {"idle", "wallet", "preparing", "returned", "failed"}]
    BY DEF Restart, IInv, Types
<1>4. ASSUME NEW t \in Tabs
      PROVE  tab'[t] \in Page /\ GoodTab(tab'[t])
  <2> DEFINE z == tab[t]
  <2>1. z \in Page /\ GoodTab(z)
    BY DEF IInv, Types, Pages
  <2>2. \/ tab'[t] = z
        \/ /\ z.at \in {"signing", "atDriver", "signed", "recording", "executing", "submitted"}
           /\ tab'[t] = [z EXCEPT !.at = "error"]
    BY DEF Restart
  <2> HIDE DEF z
  <2>3. CASE tab'[t] = z
    BY <2>1, <2>3
  <2>4. CASE /\ z.at \in {"signing", "atDriver", "signed", "recording", "executing", "submitted"}
             /\ tab'[t] = [z EXCEPT !.at = "error"]
    <3>1. /\ tab'[t] \in Page /\ tab'[t].at = "error" /\ tab'[t].cmd = z.cmd
          /\ tab'[t].party = z.party /\ tab'[t].sent = z.sent /\ tab'[t].as = z.as
      BY <2>1, <2>4, PageGoesTo, Zenon
    <3> QED
      BY <2>1, <2>4, <3>1 DEF GoodTab
  <2> QED
    BY <2>2, <2>3, <2>4
<1>5. tab' \in [Tabs -> Page]
    BY <1>4 DEF Restart
<1>6. Pages'
    BY <1>2, <1>4 DEF Pages, GoodTab
<1>7. Types' /\ CommittedWasApproved'
    BY <1>2, <1>3, <1>5, SameCommitted DEF IInv, Types
<1> QED
    BY <1>1, <1>6, <1>7 DEF IInv

LEMMA InitIInv == Init => IInv
<1> SUFFICES ASSUME Init
             PROVE  IInv
    OBVIOUS
<1>1. Closed \in Page
    BY DEF Closed, Page
<1>2. Closed.at = "closed" /\ Closed.as = NoWallet
    BY DEF Closed
<1>3. \A t \in Tabs : tab[t] = Closed
    BY DEF Init
<1>4. Types
    BY <1>1 DEF Init, Types
<1>5. Pages
    BY <1>2, <1>3 DEF Pages, GoodTab
<1>6. Statements /\ Alone
  <2>1. db \in Seq(Stmt) /\ DOMAIN db = {}
    BY DEF Init
  <2> QED
    BY <2>1 DEF Statements, Alone
<1>7. CommittedWasApproved
    BY DEF Init, CommittedWasApproved
<1> QED
    BY <1>4, <1>5, <1>6, <1>7 DEF IInv

LEMMA NextKeeps ==
    ASSUME IInv, Next
    PROVE  IInv'
<1>1. ASSUME RunStatement
      PROVE  IInv'
  <2>1. PICK i \in DOMAIN db :
            \/ SessionRead(i) \/ LookAtRow(i) \/ UpdateRow(i) \/ InsertRow(i)
            \/ InsertConflicts(i) \/ WalletForCall(i) \/ TxForPage(i) \/ WalletsForPage(i)
            \/ WalletToSign(i) \/ TxToSign(i) \/ PrimaryToExecute(i) \/ TxToExecute(i)
    BY <1>1, Zenon DEF RunStatement, Runnable
  <2> QED
    BY <2>1, SessionReadKeeps, LookAtRowKeeps, UpdateRowKeeps, InsertRowKeeps,
       InsertConflictsKeeps, WalletForCallKeeps, TxForPageKeeps, WalletsForPageKeeps,
       WalletToSignKeeps, TxToSignKeeps, PrimaryToExecuteKeeps, TxToExecuteKeeps
<1>2. ASSUME NEW p \in Calls, PrepareExecute(p) \/ Answered(p)
      PROVE  IInv'
    BY <1>2, PrepareExecuteKeeps, PreparedKeeps, PrepareFailsKeeps DEF Answered
<1>3. ASSUME NEW t \in Tabs, \/ \E p \in Calls : OpenPage(t, p)
                             \/ Approve(t) \/ Signs(t) \/ AskToExecute(t) \/ Unheard(t)
                             \/ Executing(t)
      PROVE  IInv'
    BY <1>3, OpenPageKeeps, ApproveKeeps, SignLaterKeeps, SignNowKeeps, RecordSignedKeeps, SignFailsKeeps,
       AskToExecuteKeeps, UnheardKeeps, ExecutedKeeps, RefusedKeeps, AnswerLostKeeps DEF Signs, Executing
<1>4. ASSUME NEW w \in Wallet, SwitchPrimary(w)
      PROVE  IInv'
    BY <1>4, SwitchPrimaryKeeps
<1>5. ASSUME Restart
      PROVE  IInv'
    BY <1>5, RestartKeeps
<1> QED
    BY <1>1, <1>2, <1>3, <1>4, <1>5 DEF Next

LEMMA StutterKeeps ==
    ASSUME IInv, UNCHANGED vars
    PROVE  IInv'
<1>1. Statements' /\ Alone'
    BY SameGood DEF vars, store, IInv, Statements, Alone
<1>2. Types' /\ Pages' /\ CommittedWasApproved'
    BY PagesStay DEF vars, store, outside, IInv, Types
<1> QED
    BY <1>1, <1>2 DEF IInv

LEMMA Invariance == Spec => []IInv
<1>1. IInv /\ [Next]_vars => IInv'
    BY NextKeeps, StutterKeeps
<1> QED
    BY InitIInv, <1>1, PTL DEF Spec

-----------------------------------------------------------------------------
(* Theorems for every database *)

\* Rows, pages, events and what the ledger holds keep their types, and a write
\* of setTransaction is for a command.
THEOREM TypeCorrect == Spec => []TypeOK
<1>1. IInv => TypeOK
  <2> SUFFICES ASSUME IInv
               PROVE  TypeOK
    OBVIOUS
  <2>1. \A i \in DOMAIN db : db[i].op \in {"look", "update", "insert"} =>
            db[i].cmd \in Command /\ db[i].patch \in Patch
    BY GoodMember DEF GoodStmt, Writes, Stmt
  <2> QED
    BY <2>1 DEF IInv, Types, TypeOK
<1> QED
    BY Invariance, <1>1, PTL

\* With either database, reused command ids, any number of pages and wallets, lost
\* answers and restarts: what the ledger commits for an external party is what a page
\* showed for that party when Approve was clicked.
THEOREM CommittedWasApprovedAlways == Spec => []CommittedWasApproved
<1>1. IInv => CommittedWasApproved
    BY DEF IInv
<1> QED
    BY Invariance, <1>1, PTL

-----------------------------------------------------------------------------
(* What is recorded *)

OnLedger(c, x) == \E k \in committed : k.cmd = c /\ k.tx = x

\* A write that says executed says so of what is on the ledger.
Backed(s) == s.op \in Writes /\ s.patch.status = "executed" => OnLedger(s.cmd, s.patch.tx)

RInv ==
    /\ \A k \in DOMAIN db : Backed(db[k])
    /\ \A c \in Command : rows[c] # NoRow /\ rows[c].status = "executed" => OnLedger(c, rows[c].tx)
    /\ \A c \in Command : "executed" \in announced[c] => \E k \in committed : k.cmd = c

\* What the ledger executes is what the row names that execute holds.
HeldIsExecuted ==
    \A t \in Tabs :
        tab[t].at = "submitted" /\ (ParticipantTakes(t) \/ SignatureHolds(t)) =>
            Executes(t) = tab[t].held.tx

OldWrites ==
    \A k \in DOMAIN db' : db'[k].op \in Writes => \E j \in DOMAIN db : db'[k] = db[j]

\* Statements only go, or requests come.
LEMMA PopWrites ==
    ASSUME IInv, NEW i \in DOMAIN db, RunAndIssue(i, <<>>)
    PROVE  OldWrites
<1> QED
    BY RanLast DEF OldWrites, IInv, Statements

LEMMA TurnWrites ==
    ASSUME IInv, NEW i \in DOMAIN db, NEW s \in Stmt, RunAndIssue(i, <<s>>), s.op \notin Writes
    PROVE  OldWrites
    BY RanOn DEF OldWrites, IInv, Statements

LEMMA IssueWrites ==
    ASSUME IInv, NEW s \in Stmt, Issue(<<s>>), s.op \notin Writes
    PROVE  OldWrites
    BY IssuedOne DEF OldWrites, IInv, Statements

LEMMA SameWrites ==
    ASSUME db' \in {db, <<>>}
    PROVE  OldWrites
    BY DEF OldWrites

\* The actions that add a write of setTransaction.
LEMMA WritesComeFrom ==
    ASSUME IInv, [Next]_vars
    PROVE  \/ \E i \in DOMAIN db : LookAtRow(i)
           \/ \E p \in Calls : Prepared(p)
           \/ \E t \in Tabs : RecordSigned(t) \/ Executed(t)
           \/ OldWrites
<1>1. ASSUME NEW i \in DOMAIN db, SessionRead(i)
      PROVE  OldWrites
  <2> DEFINE s == Query(db[i].cmd, db[i].by)
  <2>1. db[i].cmd \in Reads /\ db[i].by \in By
    BY <1>1, GoodMember DEF SessionRead, GoodStmt, Stmt
  <2>2. s \in Stmt /\ s.op \notin Writes
    BY <2>1, QueryType DEF Reads, Writes, PageReads, Steps
  <2>3. RunAndIssue(i, <<s>>)
    BY <1>1 DEF SessionRead
  <2> QED
    BY <2>2, <2>3, TurnWrites
<1>2. ASSUME NEW i \in DOMAIN db, PrimaryToExecute(i)
      PROVE  OldWrites
  <2> DEFINE s == Query("txToExecute", db[i].by)
  <2>1. db[i].by \in By
    BY GoodMember DEF Stmt
  <2>2. s \in Stmt /\ s.op \notin Writes
    BY <2>1, QueryType DEF Reads, Writes, PageReads, Steps
  <2>3. RunAndIssue(i, <<s>>)
    BY <1>2 DEF PrimaryToExecute
  <2> QED
    BY <2>2, <2>3, TurnWrites
<1>3. ASSUME NEW i \in DOMAIN db,
             \/ UpdateRow(i) \/ InsertRow(i) \/ WalletForCall(i) \/ TxForPage(i)
             \/ WalletsForPage(i) \/ WalletToSign(i) \/ TxToSign(i) \/ TxToExecute(i)
      PROVE  OldWrites
  <2>1. RunAndIssue(i, <<>>)
    BY <1>3, Zenon DEF UpdateRow, InsertRow, WalletForCall, TxForPage, WalletsForPage, WalletToSign,
       TxToSign, TxToExecute
  <2> QED
    BY <2>1, PopWrites
<1>4. ASSUME NEW i \in DOMAIN db, InsertConflicts(i)
      PROVE  OldWrites
    BY <1>4, SameWrites DEF InsertConflicts
<1>5. ASSUME NEW p \in Calls, PrepareExecute(p) \/ PrepareFails(p)
      PROVE  OldWrites
  <2> DEFINE s == Request("primaryForCall", p)
  <2>1. s \in Stmt /\ s.op \notin Writes
    BY RequestType DEF Reads, Writes, By
  <2> HIDE DEF s
  <2>2. Issue(<<s>>) \/ db' = db
    BY <1>5 DEF PrepareExecute, PrepareFails, store, s
  <2> QED
    BY <2>1, <2>2, IssueWrites, SameWrites
<1>6. ASSUME NEW t \in Tabs, NEW p \in Calls, OpenPage(t, p)
      PROVE  OldWrites
  <2> DEFINE r == Request("txForPage", t)
             s == Request("walletsForPage", t)
  <2>1. r \in Stmt /\ r.op \notin Writes /\ s \in Stmt /\ s.op \notin Writes
    BY RequestType DEF Reads, Writes, By, PageReads
  <2>2. Issue(<<r, s>>)
    BY <1>6 DEF OpenPage
  <2> HIDE DEF r, s
  <2> QED
    BY <2>1, <2>2, IssuedTwo DEF OldWrites, IInv, Statements
<1>7. ASSUME NEW t \in Tabs, Approve(t) \/ AskToExecute(t)
      PROVE  OldWrites
  <2>1. PICK op \in Steps : Issue(<<Request(op, t)>>)
    BY <1>7 DEF Approve, AskToExecute, Steps
  <2>2. Request(op, t) \in Stmt /\ Request(op, t).op \notin Writes
    BY RequestType DEF Reads, Writes, By
  <2> QED
    BY <2>1, <2>2, IssueWrites
<1>8. ASSUME NEW t \in Tabs, SignNow(t)
       PROVE  OldWrites
  <2> DEFINE s == Query("txToSign", t)
  <2>1. s \in Stmt /\ s.op \notin Writes
    BY QueryType DEF Reads, Writes, By, PageReads, Steps
  <2>2. Issue(<<s>>)
    BY <1>8 DEF SignNow
  <2> QED
    BY <2>1, <2>2, IssueWrites
<1>9. ASSUME NEW t \in Tabs, \/ SignLater(t) \/ SignFails(t) \/ Unheard(t)
                             \/ Refused(t) \/ AnswerLost(t)
      PROVE  OldWrites
  <2>1. db' = db
    BY <1>9 DEF SignLater, SignFails, Unheard, Refused, AnswerLost, ExecuteThrows, store
  <2> QED
    BY <2>1, SameWrites
<1>10. ASSUME (\E w \in Wallet : SwitchPrimary(w)) \/ Restart \/ UNCHANGED vars
      PROVE  OldWrites
  <2>1. db' \in {db, <<>>}
    BY <1>10 DEF SwitchPrimary, Restart, vars, store
  <2> QED
    BY <2>1, SameWrites
<1>11. ASSUME RunStatement
       PROVE  (\E i \in DOMAIN db : LookAtRow(i)) \/ OldWrites
  <2>1. PICK i \in DOMAIN db :
            \/ SessionRead(i) \/ LookAtRow(i) \/ UpdateRow(i) \/ InsertRow(i)
            \/ InsertConflicts(i) \/ WalletForCall(i) \/ TxForPage(i) \/ WalletsForPage(i)
            \/ WalletToSign(i) \/ TxToSign(i) \/ PrimaryToExecute(i) \/ TxToExecute(i)
    BY <1>11, Zenon DEF RunStatement, Runnable
  <2> QED
    BY <1>1, <1>2, <1>3, <1>4, <2>1
<1> QED
    BY <1>5, <1>6, <1>7, <1>9, <1>10, <1>11, <1>8 DEF Next, Answered, Signs, Executing

\* The actions that write a row, send an executed event or commit.
LEMMA RowsChange ==
    ASSUME [Next]_vars
    PROVE  rows' = rows \/ \E i \in Runnable : UpdateRow(i) \/ InsertRow(i)
<1>1. ASSUME NEW i \in Runnable,
             \/ SessionRead(i) \/ LookAtRow(i) \/ InsertConflicts(i) \/ WalletForCall(i)
             \/ TxForPage(i) \/ WalletsForPage(i) \/ WalletToSign(i) \/ PrimaryToExecute(i)
             \/ TxToSign(i) \/ TxToExecute(i)
      PROVE  rows' = rows
    BY <1>1 DEF SessionRead, LookAtRow, InsertConflicts, WalletForCall, TxForPage, WalletsForPage,
       WalletToSign, TxToSign, PrimaryToExecute, TxToExecute
<1>2. ASSUME NEW p \in Calls, PrepareExecute(p) \/ Answered(p)
      PROVE  rows' = rows
    BY <1>2 DEF PrepareExecute, Answered, Prepared, PrepareFails, store
<1>3. ASSUME NEW t \in Tabs, \/ \E p \in Calls : OpenPage(t, p)
                             \/ Approve(t) \/ Signs(t) \/ AskToExecute(t) \/ Unheard(t)
                             \/ Executing(t)
      PROVE  rows' = rows
    BY <1>3 DEF OpenPage, Approve, Signs, SignLater, SignNow, RecordSigned, SignFails, AskToExecute, Unheard,
       Executing, Executed, Refused, AnswerLost, ExecuteThrows, store
<1>4. ASSUME (\E w \in Wallet : SwitchPrimary(w)) \/ Restart \/ UNCHANGED vars
      PROVE  rows' = rows
    BY <1>4 DEF SwitchPrimary, Restart, vars, store
<1>5. ASSUME RunStatement
      PROVE  rows' = rows \/ \E i \in Runnable : UpdateRow(i) \/ InsertRow(i)
    BY <1>1, <1>5 DEF RunStatement
<1> QED
    BY <1>2, <1>3, <1>4, <1>5 DEF Next

LEMMA LedgerChange ==
    ASSUME [Next]_vars
    PROVE  \/ committed' = committed
           \/ \E t \in Tabs : Executed(t) \/ AnswerLost(t)
<1>1. ASSUME NEW i \in Runnable,
             \/ SessionRead(i) \/ LookAtRow(i) \/ InsertConflicts(i) \/ WalletForCall(i)
             \/ TxForPage(i) \/ WalletsForPage(i) \/ WalletToSign(i) \/ PrimaryToExecute(i)
             \/ TxToSign(i) \/ TxToExecute(i) \/ UpdateRow(i) \/ InsertRow(i)
      PROVE  committed' = committed
    BY <1>1 DEF SessionRead, LookAtRow, InsertConflicts, WalletForCall, TxForPage, WalletsForPage,
       WalletToSign, TxToSign, PrimaryToExecute, TxToExecute, UpdateRow, InsertRow, outside
<1>2. ASSUME NEW p \in Calls, PrepareExecute(p) \/ Answered(p)
      PROVE  committed' = committed
    BY <1>2 DEF PrepareExecute, Answered, Prepared, PrepareFails, outside
<1>3. ASSUME NEW t \in Tabs, \/ \E p \in Calls : OpenPage(t, p)
                             \/ Approve(t) \/ Signs(t) \/ AskToExecute(t) \/ Unheard(t)
                             \/ Refused(t)
      PROVE  committed' = committed
    BY <1>3 DEF OpenPage, Approve, Signs, SignLater, SignNow, RecordSigned, SignFails, AskToExecute, Unheard,
       Refused, outside
<1>4. ASSUME (\E w \in Wallet : SwitchPrimary(w)) \/ Restart \/ UNCHANGED vars
      PROVE  committed' = committed
    BY <1>4 DEF SwitchPrimary, Restart, vars, outside
<1> QED
    BY <1>1, <1>2, <1>3, <1>4 DEF Next, RunStatement, Executing

LEMMA LedgerGrows ==
    ASSUME [Next]_vars
    PROVE  committed \subseteq committed'
    BY LedgerChange DEF Executed, AnswerLost, Commits

LEMMA EventsChange ==
    ASSUME IInv, [Next]_vars
    PROVE  \/ \A c \in Command : "executed" \in announced'[c] => "executed" \in announced[c]
           \/ \E t \in Tabs : Executed(t)
<1>0. announced \in [Command -> SUBSET {"pending", "signed", "executed"}]
    BY DEF IInv, Types
<1>1. ASSUME NEW i \in Runnable,
             \/ SessionRead(i) \/ LookAtRow(i) \/ InsertConflicts(i)
             \/ TxForPage(i) \/ WalletsForPage(i) \/ WalletToSign(i) \/ PrimaryToExecute(i)
             \/ TxToSign(i) \/ TxToExecute(i) \/ UpdateRow(i) \/ InsertRow(i)
      PROVE  announced' = announced
    BY <1>1 DEF SessionRead, LookAtRow, InsertConflicts, TxForPage, WalletsForPage,
       WalletToSign, TxToSign, PrimaryToExecute, TxToExecute, UpdateRow, InsertRow, outside
<1>2. ASSUME NEW i \in Runnable, WalletForCall(i)
      PROVE  \A c \in Command : "executed" \in announced'[c] => "executed" \in announced[c]
    BY <1>0, <1>2 DEF WalletForCall, Announce
<1>3. ASSUME NEW p \in Calls, PrepareExecute(p) \/ Answered(p)
      PROVE  announced' = announced
    BY <1>3 DEF PrepareExecute, Answered, Prepared, PrepareFails, outside
<1>4. ASSUME NEW t \in Tabs, \/ \E p \in Calls : OpenPage(t, p)
                             \/ Approve(t) \/ SignLater(t) \/ SignNow(t) \/ SignFails(t)
                             \/ AskToExecute(t) \/ Unheard(t)
                             \/ Refused(t) \/ AnswerLost(t)
      PROVE  announced' = announced
    BY <1>4 DEF OpenPage, Approve, SignLater, SignNow, SignFails, AskToExecute, Unheard,
       Refused, AnswerLost, outside
<1>5. ASSUME NEW t \in Tabs, RecordSigned(t)
      PROVE  \A c \in Command : "executed" \in announced'[c] => "executed" \in announced[c]
    BY <1>0, <1>5 DEF RecordSigned, Announce
<1>6. ASSUME (\E w \in Wallet : SwitchPrimary(w)) \/ Restart \/ UNCHANGED vars
      PROVE  announced' = announced
    BY <1>6 DEF SwitchPrimary, Restart, vars, outside
<1> QED
    BY <1>1, <1>2, <1>3, <1>4, <1>5, <1>6 DEF Next, RunStatement, Signs, Executing

-----------------------------------------------------------------------------
(* What is executed is on the ledger *)

LEMMA BackedStays ==
    ASSUME [Next]_vars, NEW s, Backed(s)
    PROVE  Backed(s)'
    BY LedgerGrows DEF Backed, OnLedger

LEMMA RecordsInit == Init => RInv
    BY DEF Init, RInv

LEMMA RecordedRows ==
    ASSUME IInv, RInv, [Next]_vars, NEW c \in Command,
           rows'[c] # NoRow, rows'[c].status = "executed"
    PROVE  OnLedger(c, rows[c].tx)'
<1>1. committed \subseteq committed'
    BY LedgerGrows
<1>2. CASE rows'[c] = rows[c]
    BY <1>1, <1>2 DEF RInv, OnLedger
<1>3. CASE rows'[c] # rows[c]
  <2>1. PICK i \in Runnable : UpdateRow(i) \/ InsertRow(i)
    BY <1>3, RowsChange
  <2>2. i \in DOMAIN db
    BY DEF Runnable
  <2>3. /\ db[i] \in Stmt /\ GoodStmt(db[i]) /\ db[i].op \in Writes
        /\ db[i].cmd \in Command /\ db[i].patch \in Patch /\ Backed(db[i])
    BY <2>1, <2>2, GoodMember DEF UpdateRow, InsertRow, GoodStmt, Writes, Stmt, RInv
  <2>4. db[i].cmd = c /\ rows'[c].status = db[i].patch.status /\ rows'[c].tx = db[i].patch.tx
    <3>1. CASE UpdateRow(i)
      <4>1. rows[db[i].cmd] \in Row
        BY <2>3, <3>1 DEF UpdateRow, GoodStmt
      <4>2. rows' = [rows EXCEPT ![db[i].cmd] = Updated(rows[db[i].cmd], db[i].patch)]
        BY <2>3, <3>1 DEF UpdateRow, IInv, Types
      <4> QED
        BY <1>3, <2>3, <4>1, <4>2, UpdatedType DEF IInv, Types
    <3>2. CASE InsertRow(i)
      BY <1>3, <2>3, <3>2, InsertedType DEF InsertRow, IInv, Types
    <3> QED
      BY <2>1, <3>1, <3>2
  <2> QED
    BY <1>1, <2>3, <2>4 DEF Backed, OnLedger
<1> QED
    BY <1>2, <1>3

LEMMA ExecutedOnLedger ==
    ASSUME IInv, HeldIsExecuted, NEW t \in Tabs, Executed(t),
           NEW c, c = tab[t].cmd, NEW x, x = tab[t].held.tx
    PROVE  OnLedger(c, x)'
<1>1. ParticipantTakes(t) \/ SignatureHolds(t)
    BY DEF Executed, Commits
<1>2. Executes(t) = x
    BY <1>1 DEF HeldIsExecuted, Executed
<1>3. committed' = committed \cup {[cmd |-> c, tx |-> x, party |-> tab[t].party]}
    BY <1>2 DEF Executed, Commits
<1>4. PICK k : k = [cmd |-> c, tx |-> x, party |-> tab[t].party]
    OBVIOUS
<1>5. k \in committed' /\ k.cmd = c /\ k.tx = x
    BY <1>3, <1>4
<1> QED
    BY <1>5 DEF OnLedger

LEMMA RecordsKept ==
    ASSUME IInv, RInv, HeldIsExecuted, [Next]_vars
    PROVE  RInv'
<1>1. \A c \in Command : rows'[c] # NoRow /\ rows'[c].status = "executed" => OnLedger(c, rows[c].tx)'
    BY RecordedRows
<1>2. ASSUME NEW c \in Command, "executed" \in announced'[c]
      PROVE  \E k \in committed' : k.cmd = c
  <2>1. CASE "executed" \in announced[c]
    BY <2>1, LedgerGrows DEF RInv
  <2>2. CASE "executed" \notin announced[c]
    <3>1. PICK t \in Tabs : Executed(t)
      BY <1>2, <2>2, EventsChange
    <3>2. c = tab[t].cmd
      BY <1>2, <2>2, <3>1 DEF Executed, Announce, IInv, Types
    <3> QED
      BY <3>1, <3>2, ExecutedOnLedger DEF OnLedger
  <2> QED
    BY <2>1, <2>2
<1>3. ASSUME NEW k \in DOMAIN db'
      PROVE  Backed(db[k])'
  <2>1. PICK s : s = db'[k]
    OBVIOUS
  <2>2. (\E j \in DOMAIN db : s = db[j]) => Backed(s)'
    BY BackedStays DEF RInv
  <2>3. CASE \E i \in DOMAIN db : LookAtRow(i)
    <3>1. PICK i \in DOMAIN db : LookAtRow(i)
      BY <2>3
    <3> DEFINE w == WriteAfterLook(db[i].cmd, db[i].patch)
    <3>2. /\ db[i] \in Stmt /\ db[i].cmd \in Command /\ db[i].patch \in Patch
          /\ Backed(db[i]) /\ db[i].op \in Writes
      BY <3>1, GoodMember DEF LookAtRow, GoodStmt, Writes, Stmt, RInv
    <3>3. w \in Stmt /\ w.cmd = db[i].cmd /\ w.patch = db[i].patch
      BY <3>2, WriteType DEF WriteAfterLook, Writes
    <3>4. RunAndIssue(i, <<w>>)
      BY <3>1 DEF LookAtRow
    <3> HIDE DEF w
    <3>5. s = w \/ \E j \in DOMAIN db : s = db[j]
      BY <2>1, <3>3, <3>4, RanOn DEF IInv, Statements
    <3>6. Backed(w)
      BY <3>2, <3>3 DEF Backed
    <3>7. Backed(s)'
      BY <2>2, <3>5, <3>6, BackedStays
    <3> QED
      BY <2>1, <3>7 DEF Backed, OnLedger
  <2>4. CASE \E p \in Calls : Prepared(p)
    <3>1. PICK p \in Calls : Prepared(p)
      BY <2>4
    <3> DEFINE patch == [status |-> "pending", tx |-> p, payload |-> p]
               w == Write("look", CommandOf[p], patch)
    <3>2. w \in Stmt /\ w.patch.status = "pending"
      <4>1. CommandOf[p] \in Command /\ patch \in Patch
        BY LifecycleAssumption DEF Patch
      <4> QED
        BY <4>1, WriteType DEF Writes
    <3>3. Issue(<<w>>)
      BY <3>1 DEF Prepared
    <3> HIDE DEF w
    <3>4. s = w \/ \E j \in DOMAIN db : s = db[j]
      BY <2>1, <3>2, <3>3, IssuedOne DEF IInv, Statements
    <3>5. Backed(s)'
      BY <2>2, <3>2, <3>4 DEF Backed
    <3> QED
      BY <2>1, <3>5 DEF Backed, OnLedger
  <2>5. CASE \E t \in Tabs : RecordSigned(t)
    <3>1. PICK t \in Tabs : RecordSigned(t)
      BY <2>5
    <3> DEFINE patch == [status |-> "signed", tx |-> tab[t].sig, payload |-> "keep"]
               w == Write("look", tab[t].cmd, patch)
    <3>2. w \in Stmt /\ w.patch.status = "signed"
      <4>1. tab[t] \in Page /\ GoodTab(tab[t]) /\ tab[t].at = "recording"
        BY <3>1 DEF RecordSigned, IInv, Types, Pages
      <4>2. tab[t].cmd \in Command /\ patch \in Patch
        BY <4>1 DEF GoodTab, Page, Patch
      <4> QED
        BY <4>2, WriteType DEF Writes
    <3>3. Issue(<<w>>)
      BY <3>1 DEF RecordSigned
    <3> HIDE DEF w
    <3>4. s = w \/ \E j \in DOMAIN db : s = db[j]
      BY <2>1, <3>2, <3>3, IssuedOne DEF IInv, Statements
    <3>5. Backed(s)'
      BY <2>2, <3>2, <3>4 DEF Backed
    <3> QED
      BY <2>1, <3>5 DEF Backed, OnLedger
  <2>6. CASE \E t \in Tabs : Executed(t)
    <3>1. PICK t \in Tabs : Executed(t)
      BY <2>6
    <3> DEFINE patch == Done(t)
               w == Write("look", tab[t].cmd, patch)
    <3>2. w \in Stmt /\ w.cmd = tab[t].cmd /\ w.patch.tx = tab[t].held.tx
      <4>1. tab[t] \in Page /\ GoodTab(tab[t]) /\ tab[t].at = "submitted"
        BY <3>1 DEF Executed, IInv, Types, Pages
      <4>2. tab[t].cmd \in Command /\ patch \in Patch /\ patch.tx = tab[t].held.tx
        BY <4>1 DEF GoodTab, Row, Done, Patch
      <4> QED
        BY <4>2, WriteType DEF Writes
    <3>3. Issue(<<w>>)
      BY <3>1 DEF Executed
    <3>4. PICK v : v = w
      OBVIOUS
    <3>5. PICK c, x : c = tab[t].cmd /\ x = tab[t].held.tx
      OBVIOUS
    <3> HIDE DEF w
    <3>6. s = v \/ \E j \in DOMAIN db : s = db[j]
      BY <2>1, <3>2, <3>3, <3>4, IssuedOne DEF IInv, Statements
    <3>7. OnLedger(c, x)'
      BY <3>1, <3>5, ExecutedOnLedger
    <3>8. v.cmd = c /\ v.patch.tx = x
      BY <3>2, <3>4, <3>5
    <3>9. Backed(s)'
      BY <2>2, <3>6, <3>7, <3>8 DEF Backed
    <3> QED
      BY <2>1, <3>9 DEF Backed, OnLedger
  <2>7. CASE OldWrites
    <3>1. s.op \in Writes => \E j \in DOMAIN db : s = db[j]
      BY <1>3, <2>1, <2>7 DEF OldWrites
    <3>2. Backed(s)'
      BY <2>2, <3>1 DEF Backed
    <3> QED
      BY <2>1, <3>2 DEF Backed, OnLedger
  <2> QED
    BY <2>3, <2>4, <2>5, <2>6, <2>7, WritesComeFrom
<1> QED
  <2>1. (\A k \in DOMAIN db : Backed(db[k]))'
    BY <1>3
  <2>2. (\A c \in Command : "executed" \in announced[c] => \E k \in committed : k.cmd = c)'
    BY <1>2
  <2> QED
    BY <1>1, <2>1, <2>2 DEF RInv

LEMMA RecordsImply == RInv => ExecutedIsCommitted
    BY DEF RInv, ExecutedIsCommitted, OnLedger

AllExternal == \A w \in Wallet : Custody[w] = "external"

\* A participant never executes for such a party.
LEMMA ExternalRecords == AllExternal /\ Spec => []RInv
<1>1. ASSUME AllExternal, IInv
      PROVE  HeldIsExecuted
  <2>1. ASSUME NEW t \in Tabs, tab[t].at = "submitted", ParticipantTakes(t) \/ SignatureHolds(t)
        PROVE  Executes(t) = tab[t].held.tx
    <3>1. tab[t].party \in Wallet
      <4>1. tab[t] \in Page /\ GoodTab(tab[t])
        BY <1>1 DEF IInv, Types, Pages
      <4> QED
        BY <2>1, <4>1 DEF GoodTab, Page
    <3>2. SignatureHolds(t)
      BY <1>1, <2>1, <3>1 DEF ParticipantTakes, AllExternal
    <3> QED
      BY <3>2 DEF SignatureHolds, Executes
  <2> QED
    BY <2>1 DEF HeldIsExecuted
<1>2. CASE AllExternal
  <2>1. RInv /\ IInv /\ [Next]_vars => RInv'
    BY <1>1, <1>2, RecordsKept
  <2> QED
    BY RecordsInit, Invariance, <2>1, PTL DEF Spec
<1>3. CASE ~AllExternal
    BY <1>3, PTL
<1> QED
    BY <1>2, <1>3

\* With external custody only, either database, reused command ids and any
\* number of pages: what a row or an event calls executed is on the ledger, and the row
\* names the transaction that was committed.
THEOREM ExternalExecutedIsCommitted == AllExternal /\ Spec => []ExecutedIsCommitted
    BY ExternalRecords, RecordsImply, PTL

=============================================================================
