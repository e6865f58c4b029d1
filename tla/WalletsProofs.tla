--------------------------- MODULE WalletsProofs ---------------------------
(***************************************************************************)
(* Theorems about Wallets, for all sets of parties and requests, either    *)
(* database and any bounds.                                                *)
(***************************************************************************)
EXTENDS Wallets, FiniteSetTheorems, TLAPS

RowOrNone == Row \cup {NoRow}

TaskType ==
    [op : {"add", "insert", "setPrimary", "swap", "remove", "update"},
     by : Request \cup {NoRequest}, party : Party, row : RowOrNone,
     old : SUBSET Party]

JobType ==
    [kind : {"none", "create", "poll", "setPrimary", "sync"},
     at : {"idle", "asking", "polling", "removing", "allocating", "granting",
           "storing", "rights", "reading", "clearing", "adding"},
     party : Party \cup {NoParty}, primary : BOOLEAN, context : BOOLEAN,
     tx : BOOLEAN, status : {"initialized", "allocated"},
     found : SUBSET Party, unmatched : SUBSET Party]

(***************************************************************************)
(* The inductive invariant.  A task that stores a row has one, and may say *)
(* allocated only of a party that the user has a right on.  A job that is   *)
(* about to grant rights has seen its party, one that removes a wallet      *)
(* stores none that is allocated, and what a sync has found are parties    *)
(* that the user has a right on.                                           *)
(***************************************************************************)
Rows == rows \in [Party -> RowOrNone]

GoodTask(t) ==
    t.op \in {"add", "insert", "update"} =>
        t.row \in Row /\ (t.row.status = "allocated" => t.party \in RightsMap)

Tasks == tasks \subseteq TaskType /\ \A t \in tasks : GoodTask(t)

GoodJob(j) ==
    /\ j.at \in {"asking", "polling", "removing", "allocating", "granting"} =>
        j.party \in Party
    /\ j.at = "removing" => j.status = "initialized"
    /\ j.at = "granting" => j.party \in hosted
    /\ j.at \in {"reading", "clearing", "adding"} => j.found \subseteq RightsMap

Jobs == job \in [Request -> JobType] /\ \A r \in Request : GoodJob(job[r])

\* The ledger forgets nothing.
Grows == RightsMap \subseteq RightsMap' /\ hosted \subseteq hosted'

Ledger == RightsMap \subseteq hosted /\ hosted \subseteq Party

Rest ==
    /\ onboarding \in [Party -> {"none", "pending", "signed", "rejected"}]
    /\ removed \subseteq {"poll", "sync"} /\ known \subseteq Party
    /\ crashed \in BOOLEAN
    /\ started \in 0..MaxRequests /\ restarts \in 0..MaxRestarts

Allocated == \A p \in Stored : rows[p].status = "allocated" => p \in RightsMap

IInv == Rows /\ Tasks /\ Jobs /\ Ledger /\ Rest /\ Allocated

-----------------------------------------------------------------------------
(* Operators *)

LEMMA WithPrimaryType ==
    ASSUME NEW row \in Row, NEW b \in BOOLEAN
    PROVE  /\ WithPrimary(row, b) \in Row
           /\ WithPrimary(row, b).primary = b
           /\ WithPrimary(row, b).status = row.status
    BY DEF WithPrimary, Row

LEMMA NoRowIsNone == NoRow \notin Row
    BY WalletsAssumption DEF Row

LEMMA UnsetType ==
    ASSUME NEW table \in [Party -> RowOrNone], NEW S
    PROVE  /\ Unset(table, S) \in [Party -> RowOrNone]
           /\ \A p \in Party : /\ Unset(table, S)[p] = NoRow <=> table[p] = NoRow
                               /\ table[p] # NoRow => Unset(table, S)[p].status = table[p].status
<1>1. \A p \in Party : Unset(table, S)[p] =
          IF p \in S /\ table[p] # NoRow THEN WithPrimary(table[p], FALSE) ELSE table[p]
    BY DEF Unset
<1>2. \A p \in Party : table[p] = NoRow => Unset(table, S)[p] = NoRow
    BY <1>1
<1>3. ASSUME NEW p \in Party, table[p] # NoRow
      PROVE  Unset(table, S)[p] \in Row /\ Unset(table, S)[p].status = table[p].status
  <2>1. table[p] \in Row
    BY <1>3 DEF RowOrNone
  <2>2. /\ WithPrimary(table[p], FALSE) \in Row
        /\ WithPrimary(table[p], FALSE).status = table[p].status
    BY <2>1, WithPrimaryType
  <2> QED
    BY <1>1, <2>1, <2>2
<1>4. \A p \in Party : Unset(table, S)[p] \in RowOrNone
    BY <1>2, <1>3 DEF RowOrNone
<1>5. Unset(table, S) \in [Party -> RowOrNone]
  <2>1. Unset(table, S) = [p \in Party |-> Unset(table, S)[p]]
    BY DEF Unset
  <2> QED
    BY <1>4, <2>1
<1> QED
    BY <1>2, <1>3, <1>5, NoRowIsNone

LEMMA NewRowType ==
    ASSUME NEW j \in JobType
    PROVE  NewRow(j) \in Row /\ NewRow(j).status = j.status
    BY DEF NewRow, Row, JobType

LEMMA UpdatedRowType ==
    ASSUME NEW row \in Row, NEW new \in Row
    PROVE  /\ UpdatedRow(row, new) \in Row
           /\ UpdatedRow(row, new).status = new.status
           /\ UpdatedRow(row, new).primary = row.primary
    BY DEF UpdatedRow, Row

LEMMA IdleType == Idle \in JobType
    BY DEF Idle, JobType

LEMMA TaskIsTask ==
    ASSUME NEW op \in {"add", "insert", "setPrimary", "swap", "remove", "update"},
           NEW by \in Request \cup {NoRequest}, NEW p \in Party, NEW row \in RowOrNone
    PROVE  /\ Task(op, by, p, row) \in TaskType
           /\ Task(op, by, p, row).op = op
           /\ Task(op, by, p, row).party = p
           /\ Task(op, by, p, row).row = row
    BY DEF Task, TaskType

LEMMA OrphanIsTask ==
    ASSUME NEW t \in TaskType
    PROVE  /\ Orphan(t) \in TaskType
           /\ Orphan(t).op = t.op
           /\ Orphan(t).party = t.party
           /\ Orphan(t).row = t.row
    BY DEF Orphan, TaskType

-----------------------------------------------------------------------------
(* Store operations *)

LEMMA RejectedStep ==
    ASSUME IInv, NEW t \in tasks, Rejected(t), UNCHANGED <<ledger, onboarding, bounds>>
    PROVE  IInv'
<1>1. rows' = rows /\ removed' = removed /\ known' = known /\ hosted' = hosted
      /\ RightsMap' = RightsMap
      /\ onboarding' = onboarding /\ started' = started /\ restarts' = restarts
    BY DEF Rejected, ghosts, ledger, RightsMap, bounds
<1>2. Rows' /\ Ledger' /\ Allocated'
    BY <1>1 DEF IInv, Rows, Ledger, Allocated, Stored
<1>3. Rest'
    BY <1>1 DEF IInv, Rest, Rejected
<1>4. Tasks'
  <2>1. \A u \in tasks' : \E w \in tasks : u = w \/ u = Orphan(w)
    BY DEF Rejected
  <2>2. \A w \in tasks : /\ Orphan(w) \in TaskType /\ Orphan(w).op = w.op
                         /\ Orphan(w).party = w.party /\ Orphan(w).row = w.row
    BY OrphanIsTask DEF IInv, Tasks
  <2> QED
    BY <1>1, <2>1, <2>2 DEF IInv, Tasks, GoodTask
<1>5. Jobs'
  <2>1. job' = [r \in Request |-> IF r = t.by THEN Idle ELSE job[r]]
    BY DEF Rejected
  <2>2. GoodJob(Idle)'
    BY DEF GoodJob, Idle
  <2> QED
    BY <1>1, <2>1, <2>2, IdleType DEF IInv, Jobs, GoodJob
<1> QED
    BY <1>2, <1>3, <1>4, <1>5 DEF IInv

\* A store operation that ends, or goes on as another one.
LEMMA TasksDone ==
    ASSUME IInv, NEW t \in tasks, NEW more, Done(t, more), UNCHANGED ledger,
           more \subseteq TaskType, \A u \in more : GoodTask(u)
    PROVE  Tasks'
    BY DEF IInv, Tasks, GoodTask, Done, ledger, RightsMap

LEMMA JobsStay ==
    ASSUME IInv, UNCHANGED <<job, ledger>>
    PROVE  Jobs' /\ Ledger'
    BY DEF IInv, Jobs, GoodJob, Ledger, ledger, RightsMap

LEMMA LookBeforeAddStep ==
    ASSUME IInv, NEW t \in tasks, LookBeforeAdd(t), UNCHANGED <<ledger, onboarding, bounds>>
    PROVE  IInv'
<1>1. CASE Rejected(t)
    BY <1>1, RejectedStep
<1>2. CASE ~Rejected(t)
  <2> DEFINE row == FirstMadePrimary(t.row)
             u == [t EXCEPT !.op = "insert", !.row = row, !.old = PrimariesIn(rows)]
  <2>1. Done(t, {u}) /\ UNCHANGED <<rows, job, ghosts, crashed>>
    BY <1>2 DEF LookBeforeAdd
  <2>2. t \in TaskType /\ t.op = "add" /\ GoodTask(t)
    BY DEF IInv, Tasks, LookBeforeAdd
  <2>3. t.row \in Row /\ (t.row.status = "allocated" => t.party \in RightsMap)
    BY <2>2 DEF GoodTask
  <2>4. row \in Row /\ row.status = t.row.status
    BY <2>3, WithPrimaryType DEF FirstMadePrimary
  <2>5. PrimariesIn(rows) \in SUBSET Party
    BY DEF PrimariesIn
  <2> HIDE DEF row
  <2>6. u \in TaskType /\ u.op = "insert" /\ u.row = row /\ u.party = t.party
    BY <2>2, <2>4, <2>5 DEF TaskType, RowOrNone
  <2> HIDE DEF u
  <2>7. GoodTask(u)
    BY <2>3, <2>4, <2>6 DEF GoodTask
  <2>8. Tasks'
    BY <2>1, <2>6, <2>7, TasksDone
  <2>9. Jobs' /\ Ledger'
    BY <2>1, JobsStay
  <2>10. Rows' /\ Rest' /\ Allocated'
    BY <2>1 DEF IInv, Rows, Rest, Allocated, Stored, ghosts, ledger, RightsMap, bounds
  <2> QED
    BY <2>8, <2>9, <2>10 DEF IInv
<1> QED
    BY <1>1, <1>2

LEMMA InsertedRows ==
    ASSUME Rows, NEW t, t.party \in Party, t.row \in Row, NEW old
    PROVE  /\ Inserted(t, old) \in [Party -> RowOrNone]
           /\ Inserted(t, old)[t.party] = t.row
           /\ \A p \in Party \ {t.party} :
                /\ Inserted(t, old)[p] = NoRow <=> rows[p] = NoRow
                /\ rows[p] # NoRow => Inserted(t, old)[p].status = rows[p].status
           /\ ~t.row.primary => \A p \in Party \ {t.party} : Inserted(t, old)[p] = rows[p]
<1> DEFINE S == IF t.row.primary THEN old ELSE {}
<1> HIDE DEF S
<1>1. Inserted(t, old) = [Unset(rows, S) EXCEPT ![t.party] = t.row]
    BY DEF Inserted, S
<1>2. /\ Unset(rows, S) \in [Party -> RowOrNone]
      /\ \A p \in Party : /\ Unset(rows, S)[p] = NoRow <=> rows[p] = NoRow
                          /\ rows[p] # NoRow => Unset(rows, S)[p].status = rows[p].status
    BY UnsetType DEF Rows
<1>3. ~t.row.primary => \A p \in Party : Unset(rows, S)[p] = rows[p]
    BY DEF Unset, S
<1> QED
    BY <1>1, <1>2, <1>3 DEF RowOrNone

LEMMA InsertWalletStep ==
    ASSUME IInv, NEW t \in tasks, InsertWallet(t), UNCHANGED <<ledger, onboarding, bounds>>
    PROVE  IInv'
<1>1. CASE Rejected(t)
    BY <1>1, RejectedStep
<1>2. CASE ~Rejected(t)
  <2>1. PICK old : /\ rows' = Inserted(t, old) /\ Done(t, {})
                   /\ UNCHANGED <<job, ghosts, crashed>>
    BY <1>2 DEF InsertWallet
  <2>2. t \in TaskType /\ GoodTask(t) /\ t.op = "insert"
    BY DEF IInv, Tasks, InsertWallet
  <2>3. t.party \in Party /\ t.row \in Row /\ (t.row.status = "allocated" => t.party \in RightsMap)
    BY <2>2 DEF GoodTask, TaskType
  <2>4. Rows
    BY DEF IInv
  <2>5. /\ rows' \in [Party -> RowOrNone] /\ rows'[t.party] = t.row
        /\ \A p \in Party \ {t.party} :
                /\ rows'[p] = NoRow <=> rows[p] = NoRow
                /\ rows[p] # NoRow => rows'[p].status = rows[p].status
    BY <2>1, <2>3, <2>4, InsertedRows
  <2>6. Rows' /\ Allocated'
    <3>1. RightsMap' = RightsMap
        BY DEF ledger, RightsMap
    <3> QED
        BY <2>3, <2>5, <3>1 DEF IInv, Rows, Allocated, Stored
  <2>7. Tasks' /\ Jobs' /\ Ledger'
    BY <2>1, TasksDone, JobsStay
  <2>8. Rest'
    BY <2>1 DEF IInv, Rest, ghosts, bounds
  <2> QED
    BY <2>6, <2>7, <2>8 DEF IInv
<1> QED
    BY <1>1, <1>2

LEMMA LookBeforeSetStep ==
    ASSUME IInv, NEW t \in tasks, LookBeforeSet(t), UNCHANGED <<ledger, onboarding, bounds>>
    PROVE  IInv'
<1>1. CASE Rejected(t)
    BY <1>1, RejectedStep
<1>2. CASE ~Rejected(t)
  <2> DEFINE u == [t EXCEPT !.op = "swap", !.old = PrimariesIn(rows)]
  <2>1. Done(t, {u}) /\ UNCHANGED <<rows, job, ghosts, crashed>>
    BY <1>2 DEF LookBeforeSet
  <2>2. t \in TaskType
    BY DEF IInv, Tasks
  <2>3. PrimariesIn(rows) \in SUBSET Party
    BY DEF PrimariesIn
  <2>4. u \in TaskType /\ u.op = "swap"
    BY <2>2, <2>3 DEF TaskType
  <2> HIDE DEF u
  <2>5. GoodTask(u)
    BY <2>4 DEF GoodTask
  <2>6. Tasks' /\ Jobs' /\ Ledger'
    BY <2>1, <2>4, <2>5, TasksDone, JobsStay
  <2>7. Rows' /\ Rest' /\ Allocated'
    BY <2>1 DEF IInv, Rows, Rest, Allocated, Stored, ghosts, ledger, RightsMap, bounds
  <2> QED
    BY <2>6, <2>7 DEF IInv
<1> QED
    BY <1>1, <1>2

LEMMA SwappedRows ==
    ASSUME Rows, NEW t
    PROVE  /\ Swapped(t) \in [Party -> RowOrNone]
           /\ \A p \in Party : /\ Swapped(t)[p] = NoRow <=> rows[p] = NoRow
                               /\ rows[p] # NoRow => Swapped(t)[p].status = rows[p].status
<1>1. /\ Unset(rows, t.old) \in [Party -> RowOrNone]
      /\ \A p \in Party : /\ Unset(rows, t.old)[p] = NoRow <=> rows[p] = NoRow
                          /\ rows[p] # NoRow => Unset(rows, t.old)[p].status = rows[p].status
    BY UnsetType DEF Rows
<1>2. \A p \in Stored : /\ WithPrimary(rows[p], TRUE) \in Row
                        /\ WithPrimary(rows[p], TRUE).status = rows[p].status
    BY WithPrimaryType DEF Rows, RowOrNone, Stored
<1> QED
    BY <1>1, <1>2, NoRowIsNone DEF Swapped, RowOrNone, Stored

LEMMA SwapPrimaryStep ==
    ASSUME IInv, NEW t \in tasks, SwapPrimary(t), UNCHANGED <<ledger, onboarding, bounds>>
    PROVE  IInv'
<1>1. CASE Rejected(t)
    BY <1>1, RejectedStep
<1>2. CASE ~Rejected(t)
  <2>1. rows' = Swapped(t) /\ Done(t, {}) /\ UNCHANGED <<job, ghosts, crashed>>
    BY <1>2 DEF SwapPrimary
  <2>2. Rows
    BY DEF IInv
  <2>3. /\ rows' \in [Party -> RowOrNone]
        /\ \A p \in Party : /\ rows'[p] = NoRow <=> rows[p] = NoRow
                            /\ rows[p] # NoRow => rows'[p].status = rows[p].status
    BY <2>1, <2>2, SwappedRows
  <2>4. Rows' /\ Allocated'
    BY <2>3 DEF IInv, Rows, Allocated, Stored, ledger, RightsMap
  <2>5. Tasks' /\ Jobs' /\ Ledger'
    BY <2>1, TasksDone, JobsStay
  <2>6. Rest'
    BY <2>1 DEF IInv, Rest, ghosts, bounds
  <2> QED
    BY <2>4, <2>5, <2>6 DEF IInv
<1> QED
    BY <1>1, <1>2

LEMMA RemoveWalletStep ==
    ASSUME IInv, NEW t \in tasks, RemoveWallet(t), UNCHANGED <<ledger, onboarding, bounds>>
    PROVE  IInv'
<1>1. Rows' /\ Allocated'
    BY DEF IInv, Rows, RowOrNone, Allocated, Stored, ledger, RightsMap, RemoveWallet
<1>2. Tasks' /\ Jobs' /\ Ledger'
    BY TasksDone, JobsStay DEF RemoveWallet
<1>3. Rest'
    BY DEF IInv, Rest, bounds, RemoveWallet, Remover, Stored
<1> QED
    BY <1>1, <1>2, <1>3 DEF IInv

LEMMA UpdateWalletStep ==
    ASSUME IInv, NEW t \in tasks, UpdateWallet(t), UNCHANGED <<ledger, onboarding, bounds>>
    PROVE  IInv'
<1>1. t.op = "update" /\ GoodTask(t) /\ t.party \in Party
    BY DEF IInv, Tasks, TaskType, UpdateWallet
<1>2. t.row \in Row /\ (t.row.status = "allocated" => t.party \in RightsMap)
    BY <1>1 DEF GoodTask
<1>3. Rows' /\ Allocated'
  <2>1. CASE t.party \in Stored
    <3>1. rows[t.party] \in Row
        BY <1>1, <2>1 DEF IInv, Rows, RowOrNone, Stored
    <3>2. PICK row \in Row : row = UpdatedRow(rows[t.party], t.row) /\ row.status = t.row.status
        BY <3>1, <1>2, UpdatedRowType
    <3>3. rows' = [rows EXCEPT ![t.party] = row]
        BY <2>1, <3>2 DEF UpdateWallet
    <3>4. RightsMap' = RightsMap
        BY DEF ledger, RightsMap
    <3> QED
        BY <1>1, <1>2, <3>2, <3>3, <3>4 DEF IInv, Rows, RowOrNone, Allocated, Stored
  <2>2. CASE t.party \notin Stored
    BY <2>2 DEF UpdateWallet, IInv, Rows, Allocated, Stored, ledger, RightsMap
  <2> QED
    BY <2>1, <2>2
<1>4. Tasks' /\ Jobs' /\ Ledger'
    BY TasksDone, JobsStay DEF UpdateWallet
<1>5. Rest'
    BY DEF IInv, Rest, bounds, ghosts, UpdateWallet
<1> QED
    BY <1>3, <1>4, <1>5 DEF IInv

-----------------------------------------------------------------------------
(* Requests *)

LEMMA TasksIssued ==
    ASSUME IInv, NEW more, Issues(more), RightsMap \subseteq RightsMap',
           more \subseteq TaskType, \A u \in more : GoodTask(u)'
    PROVE  Tasks'
    BY DEF IInv, Tasks, GoodTask, Issues

LEMMA TasksStay ==
    ASSUME IInv, UNCHANGED tasks, RightsMap \subseteq RightsMap'
    PROVE  Tasks'
    BY DEF IInv, Tasks, GoodTask

\* Request r goes on as j, whatever the step does to the ledger and the tasks.
LEMMA GoesStep ==
    ASSUME IInv, NEW r \in Request, NEW j \in JobType, Goes(r, j), GoodJob(j)',
           Grows, Ledger', Tasks',
           onboarding' \in [Party -> {"none", "pending", "signed", "rejected"}]
    PROVE  IInv'
<1>1. Rows' /\ Allocated'
    BY DEF IInv, Rows, Allocated, Stored, Goes, Grows
<1>2. Jobs'
    BY DEF IInv, Jobs, GoodJob, Goes, Grows
<1>3. j.found \subseteq Party
    BY DEF JobType
<1>4. Rest'
    BY <1>3 DEF IInv, Rest, Goes, bounds
<1> QED
    BY <1>1, <1>2, <1>4 DEF IInv

LEMMA StoreWalletStep ==
    ASSUME IInv, NEW r \in Request, NEW j \in JobType, StoreWallet(r, j),
           j.party \in Party, j.status = "allocated" => j.party \in RightsMap',
           Grows, Ledger',
           onboarding' \in [Party -> {"none", "pending", "signed", "rejected"}]
    PROVE  IInv'
<1> DEFINE stored == [j EXCEPT !.at = "storing"]
           op == IF j.context THEN "update" ELSE "add"
           u == Task(op, r, j.party, NewRow(j))
<1>1. Goes(r, stored) /\ Issues({u})
    BY DEF StoreWallet
<1>2. stored \in JobType /\ stored.at = "storing"
    BY DEF JobType
<1>3. NewRow(j) \in Row /\ NewRow(j).status = j.status
    BY NewRowType
<1>4. op \in {"add", "insert", "setPrimary", "swap", "remove", "update"}
    OBVIOUS
<1> HIDE DEF op
<1>5. u \in TaskType /\ u.party = j.party /\ u.row = NewRow(j)
    BY <1>3, <1>4, TaskIsTask DEF RowOrNone
<1> HIDE DEF u, stored
<1>6. GoodTask(u)'
    BY <1>3, <1>5 DEF GoodTask
<1>7. GoodJob(stored)'
    BY <1>2 DEF GoodJob
<1>8. Tasks'
    BY <1>1, <1>5, <1>6, TasksIssued DEF Grows
<1> QED
    BY <1>1, <1>2, <1>7, <1>8, GoesStep

\* A request is answered or throws.
LEMMA EndStep ==
    ASSUME IInv, NEW r \in Request, Goes(r, Idle), Tasks', Grows, Ledger',
           onboarding' \in [Party -> {"none", "pending", "signed", "rejected"}]
    PROVE  IInv'
<1>1. GoodJob(Idle)'
    BY DEF GoodJob, Idle
<1> QED
    BY <1>1, IdleType, GoesStep

LEMMA ThrowsStep ==
    ASSUME IInv, NEW r \in Request, Throws(r)
    PROVE  IInv'
<1>1. Goes(r, Idle) /\ UNCHANGED <<tasks, ledger, onboarding>>
    BY DEF Throws
<1>2. Tasks' /\ Ledger' /\ Grows
    BY <1>1, TasksStay DEF ledger, RightsMap, IInv, Ledger, Grows
<1>3. onboarding' \in [Party -> {"none", "pending", "signed", "rejected"}]
    BY <1>1 DEF IInv, Rest
<1> QED
    BY <1>1, <1>2, <1>3, EndStep

\* A job goes on, and nothing else changes.
LEMMA OnlyGoesStep ==
    ASSUME IInv, NEW r \in Request, NEW j \in JobType, Goes(r, j), GoodJob(j),
           UNCHANGED <<tasks, ledger, onboarding>>
    PROVE  IInv'
<1>1. Tasks' /\ Ledger' /\ Grows
    BY TasksStay DEF ledger, RightsMap, IInv, Ledger, Grows
<1>2. GoodJob(j)'
    BY DEF GoodJob, ledger, RightsMap
<1>3. onboarding' \in [Party -> {"none", "pending", "signed", "rejected"}]
    BY DEF IInv, Rest
<1> QED
    BY <1>1, <1>2, <1>3, GoesStep

LEMMA BeginStep ==
    ASSUME IInv, NEW r \in Request, NEW j \in JobType, Begin(r, j), GoodJob(j), Tasks'
    PROVE  IInv'
<1>1. Rows' /\ Allocated' /\ Ledger'
    BY DEF IInv, Rows, Allocated, Stored, Begin, Ledger, ledger, RightsMap
<1>2. Jobs'
    BY DEF IInv, Jobs, GoodJob, Begin, ledger, RightsMap
<1>3. Rest'
    BY WalletsAssumption DEF IInv, Rest, Begin, ghosts
<1> QED
    BY <1>1, <1>2, <1>3 DEF IInv

LEMMA StartsStep ==
    ASSUME IInv, NEW r \in Request, Starts(r)
    PROVE  IInv'
<1>1. ASSUME NEW p \in Party, NEW isPrimary \in BOOLEAN, CreateWallet(r, p, isPrimary) PROVE IInv'
  <2> DEFINE j == [Idle EXCEPT !.kind = "create", !.party = p, !.primary = isPrimary,
                               !.at = IF External(p) THEN "asking" ELSE "allocating"]
  <2>1. Begin(r, j) /\ UNCHANGED tasks
    BY <1>1 DEF CreateWallet
  <2>2. j \in JobType /\ j.party = p /\ j.at \in {"asking", "allocating"}
    BY DEF Idle, JobType
  <2> HIDE DEF j
  <2>3. GoodJob(j)
    BY <2>2 DEF GoodJob
  <2>4. Tasks'
    BY <2>1, TasksStay DEF Begin, ledger, RightsMap
  <2> QED
    BY <2>1, <2>2, <2>3, <2>4, BeginStep
<1>2. ASSUME NEW p \in Party, PollWallet(r, p) PROVE IInv'
  <2> DEFINE j == [Idle EXCEPT !.kind = "poll", !.at = "polling", !.party = p,
                               !.context = TRUE, !.tx = rows[p].tx]
  <2>1. Begin(r, j) /\ UNCHANGED tasks
    BY <1>2 DEF PollWallet
  <2>2. rows[p].tx \in BOOLEAN
    BY <1>2 DEF PollWallet, IInv, Rows, RowOrNone, Row, Stored
  <2>3. j \in JobType /\ j.party = p /\ j.at = "polling"
    BY <2>2 DEF Idle, JobType
  <2> HIDE DEF j
  <2>4. GoodJob(j)
    BY <2>3 DEF GoodJob
  <2>5. Tasks'
    BY <2>1, TasksStay DEF Begin, ledger, RightsMap
  <2> QED
    BY <2>1, <2>3, <2>4, <2>5, BeginStep
<1>3. ASSUME NEW p \in Party, SetPrimary(r, p) PROVE IInv'
  <2> DEFINE j == [Idle EXCEPT !.kind = "setPrimary", !.at = "storing"]
             u == Task("setPrimary", r, p, NoRow)
  <2>1. Begin(r, j) /\ Issues({u})
    BY <1>3 DEF SetPrimary
  <2>2. j \in JobType /\ j.at = "storing"
    BY DEF Idle, JobType
  <2>3. u \in TaskType /\ u.op = "setPrimary"
    BY TaskIsTask DEF RowOrNone
  <2> HIDE DEF j, u
  <2>4. GoodJob(j) /\ GoodTask(u)'
    BY <2>2, <2>3 DEF GoodJob, GoodTask
  <2>5. Tasks'
    BY <2>1, <2>3, <2>4, TasksIssued DEF Begin, ledger, RightsMap
  <2> QED
    BY <2>1, <2>2, <2>4, <2>5, BeginStep
<1>4. ASSUME SyncWallets(r) PROVE IInv'
  <2> DEFINE j == [Idle EXCEPT !.kind = "sync", !.at = "rights"]
  <2>1. Begin(r, j) /\ UNCHANGED tasks
    BY <1>4 DEF SyncWallets
  <2>2. j \in JobType /\ j.at = "rights"
    BY DEF Idle, JobType
  <2> HIDE DEF j
  <2>3. GoodJob(j)
    BY <2>2 DEF GoodJob
  <2>4. Tasks'
    BY <2>1, TasksStay DEF Begin, ledger, RightsMap
  <2> QED
    BY <2>1, <2>2, <2>3, <2>4, BeginStep
<1> QED
    BY <1>1, <1>2, <1>3, <1>4 DEF Starts

-----------------------------------------------------------------------------
(* createWallet goes on *)

Answers == {"none", "pending", "signed", "rejected"}

\* The job of a request, and what the invariant says of it.
LEMMA JobOf ==
    ASSUME IInv, NEW r \in Request
    PROVE  job[r] \in JobType /\ GoodJob(job[r]) /\ onboarding \in [Party -> Answers]
    BY DEF IInv, Jobs, Rest, Answers

LEMMA SignedAtOnceStep ==
    ASSUME IInv, NEW r \in Request, SignedAtOnce(r)
    PROVE  IInv'
<1> DEFINE next == [job[r] EXCEPT !.at = "allocating", !.tx = FALSE]
<1>1. /\ onboarding' = [onboarding EXCEPT ![job[r].party] = "signed"]
      /\ Goes(r, next) /\ UNCHANGED <<tasks, ledger>> /\ job[r].at = "asking"
    BY DEF SignedAtOnce
<1>2. next \in JobType /\ next.party = job[r].party /\ next.at = "allocating"
    BY JobOf DEF JobType
<1>3. job[r].party \in Party
    BY <1>1, JobOf DEF GoodJob
<1> HIDE DEF next
<1>4. PICK j \in JobType : j = next /\ j.party \in Party /\ j.at = "allocating"
    BY <1>2, <1>3
<1>5. GoodJob(j)'
    BY <1>4 DEF GoodJob
<1>6. Tasks' /\ Ledger' /\ Grows
    BY <1>1, TasksStay DEF ledger, RightsMap, IInv, Ledger, Grows
<1>7. onboarding' \in [Party -> Answers]
    BY <1>1, JobOf DEF Answers
<1> QED
    BY <1>1, <1>4, <1>5, <1>6, <1>7, GoesStep DEF Answers

LEMMA AskedStep ==
    ASSUME IInv, NEW r \in Request, NEW answer \in {"pending", "rejected", "none"},
           Asked(r, answer)
    PROVE  IInv'
<1> DEFINE j == [job[r] EXCEPT !.status = "initialized", !.tx = answer # "none"]
<1>1. /\ onboarding' = [onboarding EXCEPT ![job[r].party] = answer]
      /\ StoreWallet(r, j) /\ UNCHANGED ledger /\ job[r].at = "asking"
    BY DEF Asked
<1>2. j \in JobType /\ j.party = job[r].party /\ j.status = "initialized"
    BY JobOf DEF JobType
<1>3. job[r].party \in Party
    BY <1>1, JobOf DEF GoodJob
<1> HIDE DEF j
<1>4. Ledger' /\ Grows
    BY <1>1 DEF ledger, RightsMap, IInv, Ledger, Grows
<1>5. onboarding' \in [Party -> Answers]
    BY <1>1, JobOf DEF Answers
<1> QED
    BY <1>1, <1>2, <1>3, <1>4, <1>5, StoreWalletStep DEF Answers

LEMMA PolledType ==
    ASSUME IInv, NEW r \in Request
    PROVE  /\ Polled(r) \in JobType
           /\ Polled(r).party = job[r].party
           /\ Polled(r).status = "initialized"
    BY JobOf DEF Polled, JobType

LEMMA PollSaysSignedStep ==
    ASSUME IInv, NEW r \in Request, PollSaysSigned(r)
    PROVE  IInv'
<1> DEFINE j == [job[r] EXCEPT !.at = "allocating", !.tx = FALSE]
<1>1. Goes(r, j) /\ UNCHANGED <<tasks, ledger, onboarding>> /\ job[r].at = "polling"
    BY DEF PollSaysSigned, AsksForTx
<1>2. j \in JobType /\ j.party = job[r].party /\ j.at = "allocating"
    BY JobOf DEF JobType
<1> HIDE DEF j
<1>3. GoodJob(j)
    BY <1>1, <1>2, JobOf DEF GoodJob
<1> QED
    BY <1>1, <1>2, <1>3, OnlyGoesStep

LEMMA PollSaysPendingStep ==
    ASSUME IInv, NEW r \in Request, PollSaysPending(r)
    PROVE  IInv'
<1>1. StoreWallet(r, Polled(r)) /\ UNCHANGED <<ledger, onboarding>> /\ job[r].at = "polling"
    BY DEF PollSaysPending, AsksForTx
<1>2. job[r].party \in Party
    BY <1>1, JobOf DEF GoodJob
<1>3. Ledger' /\ Grows
    BY <1>1 DEF ledger, RightsMap, IInv, Ledger, Grows
<1>4. onboarding' \in [Party -> Answers]
    BY <1>1, JobOf
<1>5. Polled(r).status # "allocated"
    BY PolledType
<1> QED
    BY <1>1, <1>2, <1>3, <1>4, <1>5, PolledType, StoreWalletStep DEF Answers

LEMMA PollSaysNoStep ==
    ASSUME IInv, NEW r \in Request, PollSaysNo(r)
    PROVE  IInv'
<1> DEFINE next == [Polled(r) EXCEPT !.at = "removing"]
           remove == Task("remove", r, job[r].party, NoRow)
<1>1. /\ Goes(r, next) /\ Issues({remove}) /\ UNCHANGED <<ledger, onboarding>>
      /\ job[r].at = "polling"
    BY DEF PollSaysNo, AsksForTx
<1>2. job[r].party \in Party
    BY <1>1, JobOf DEF GoodJob
<1>3. /\ next \in JobType /\ next.at = "removing"
      /\ next.party = job[r].party /\ next.status = "initialized"
    BY PolledType DEF JobType
<1>4. remove \in TaskType /\ remove.op = "remove"
    BY <1>2, TaskIsTask DEF RowOrNone
<1> HIDE DEF next, remove
<1>5. PICK j \in JobType : j = next /\ GoodJob(j)'
  <2>1. PICK j \in JobType : /\ j = next /\ j.at = "removing"
                             /\ j.party \in Party /\ j.status = "initialized"
    BY <1>2, <1>3
  <2> QED
    BY <2>1 DEF GoodJob
<1>6. PICK u \in TaskType : u = remove /\ GoodTask(u)'
  <2>1. PICK u \in TaskType : u = remove /\ u.op = "remove"
    BY <1>4
  <2> QED
    BY <2>1 DEF GoodTask
<1>7. Ledger' /\ Grows
    BY <1>1 DEF ledger, RightsMap, IInv, Ledger, Grows
<1>8. Tasks'
    BY <1>1, <1>6, <1>7, TasksIssued DEF Grows
<1>9. onboarding' \in [Party -> Answers]
    BY <1>1, JobOf
<1> QED
    BY <1>1, <1>5, <1>7, <1>8, <1>9, GoesStep DEF Answers

LEMMA WalletRemovedStep ==
    ASSUME IInv, NEW r \in Request, WalletRemoved(r)
    PROVE  IInv'
<1>1. StoreWallet(r, job[r]) /\ UNCHANGED <<ledger, onboarding>> /\ job[r].at = "removing"
    BY DEF WalletRemoved
<1>2. job[r].party \in Party /\ job[r].status = "initialized" /\ job[r] \in JobType
    BY <1>1, JobOf DEF GoodJob
<1>3. Ledger' /\ Grows
    BY <1>1 DEF ledger, RightsMap, IInv, Ledger, Grows
<1>4. onboarding' \in [Party -> Answers]
    BY <1>1, JobOf
<1> QED
    BY <1>1, <1>2, <1>3, <1>4, StoreWalletStep DEF Answers

LEMMA PollStartsOverStep ==
    ASSUME IInv, NEW r \in Request, NEW q \in Party, PollStartsOver(r, q)
    PROVE  IInv'
<1> DEFINE j == [job[r] EXCEPT !.at = "asking", !.party = q]
<1>1. Goes(r, j) /\ UNCHANGED <<tasks, ledger, onboarding>>
    BY DEF PollStartsOver
<1>2. j \in JobType /\ j.party = q /\ j.at = "asking"
    BY JobOf DEF JobType
<1> HIDE DEF j
<1>3. GoodJob(j)
    BY <1>2 DEF GoodJob
<1> QED
    BY <1>1, <1>2, <1>3, OnlyGoesStep

LEMMA AllocatePartyStep ==
    ASSUME IInv, NEW r \in Request, AllocateParty(r)
    PROVE  IInv'
<1> DEFINE next == [job[r] EXCEPT !.at = "granting"]
<1>1. /\ hosted' = hosted \cup {job[r].party}
      /\ Goes(r, next) \/ Goes(r, Idle)
      /\ UNCHANGED <<tasks, rights, readable, onboarding>> /\ job[r].at = "allocating"
    BY DEF AllocateParty
<1>2. job[r].party \in Party
    BY <1>1, JobOf DEF GoodJob
<1>3. next \in JobType /\ next.party = job[r].party /\ next.at = "granting"
    BY JobOf DEF JobType
<1> HIDE DEF next
<1>4. PICK j \in JobType : /\ j = next /\ j.party = job[r].party /\ j.at = "granting"
                            /\ j.party \in hosted'
    BY <1>1, <1>3
<1>5. GoodJob(j)'
    BY <1>2, <1>4 DEF GoodJob
<1>6. Tasks' /\ Ledger' /\ Grows
    BY <1>1, <1>2, TasksStay DEF IInv, Ledger, Grows, RightsMap
<1>7. onboarding' \in [Party -> Answers]
    BY <1>1, JobOf
<1> QED
    BY <1>1, <1>4, <1>5, <1>6, <1>7, GoesStep, EndStep DEF Answers

LEMMA GrantRightsStep ==
    ASSUME IInv, NEW r \in Request, GrantRights(r)
    PROVE  IInv'
<1> DEFINE j == [job[r] EXCEPT !.status = "allocated"]
<1>1. /\ rights' = rights \cup {job[r].party}
      /\ StoreWallet(r, j) \/ (Goes(r, Idle) /\ UNCHANGED tasks)
      /\ UNCHANGED <<hosted, readable, onboarding>> /\ job[r].at = "granting"
    BY DEF GrantRights
<1>2. job[r].party \in Party /\ job[r].party \in hosted
    BY <1>1, JobOf DEF GoodJob
<1>3. j \in JobType /\ j.party = job[r].party
    BY JobOf DEF JobType
<1> HIDE DEF j
<1>4. Ledger' /\ Grows /\ job[r].party \in RightsMap'
    BY <1>1, <1>2 DEF IInv, Ledger, Grows, RightsMap
<1>5. onboarding' \in [Party -> Answers]
    BY <1>1, JobOf
<1>6. CASE StoreWallet(r, j)
    BY <1>1, <1>2, <1>3, <1>4, <1>5, <1>6, StoreWalletStep DEF Answers
<1>7. CASE Goes(r, Idle) /\ UNCHANGED tasks
    BY <1>4, <1>5, <1>7, TasksStay, EndStep DEF Answers, Grows
<1> QED
    BY <1>1, <1>6, <1>7

-----------------------------------------------------------------------------
(* syncWallets goes on *)

LEMMA RightsReadStep ==
    ASSUME IInv, NEW r \in Request, RightsRead(r)
    PROVE  IInv'
<1> DEFINE j == [job[r] EXCEPT !.at = "reading", !.found = RightsMap]
<1>1. Goes(r, j) /\ UNCHANGED <<tasks, ledger, onboarding>>
    BY DEF RightsRead
<1>2. RightsMap \in SUBSET Party
    BY DEF IInv, Ledger
<1>3. j \in JobType /\ j.at = "reading" /\ j.found = RightsMap
    BY <1>2, JobOf DEF JobType
<1> HIDE DEF j
<1>4. GoodJob(j)
    BY <1>3 DEF GoodJob
<1> QED
    BY <1>1, <1>3, <1>4, OnlyGoesStep


LEMMA WalletsReadStep ==
    ASSUME IInv, NEW r \in Request, NEW unmatched \in SUBSET NewParties(r),
           WalletsRead(r, unmatched)
    PROVE  IInv'
<1> DEFINE next == [job[r] EXCEPT !.at = "clearing", !.found = NewParties(r),
                                  !.unmatched = unmatched]
           removes == {Task("remove", r, p, NoRow) : p \in SyncRemoves(r)}
<1>1. /\ Goes(r, next) /\ Issues(removes) /\ UNCHANGED <<ledger, onboarding>>
      /\ job[r].at = "reading"
    BY DEF WalletsRead
<1>2. job[r].found \subseteq RightsMap /\ RightsMap \subseteq Party
    BY <1>1, JobOf DEF GoodJob, IInv, Ledger
<1>3. /\ NewParties(r) \in SUBSET RightsMap /\ NewParties(r) \in SUBSET Party
      /\ unmatched \in SUBSET Party
    BY <1>2 DEF NewParties
<1>4. next \in JobType /\ next.at = "clearing" /\ next.found = NewParties(r)
    BY <1>3, JobOf DEF JobType
<1>5. \A u \in removes : u \in TaskType /\ u.op = "remove"
  <2>1. \A p \in SyncRemoves(r) : p \in Party
    BY <1>3 DEF SyncRemoves
  <2> QED
    BY <2>1, TaskIsTask DEF RowOrNone
<1> HIDE DEF next, removes
<1>6. Ledger' /\ Grows
    BY <1>1 DEF ledger, RightsMap, IInv, Ledger, Grows
<1>7. PICK j \in JobType : j = next /\ GoodJob(j)'
  <2>1. PICK j \in JobType : j = next /\ j.at = "clearing" /\ j.found \subseteq RightsMap'
    BY <1>3, <1>4, <1>6 DEF Grows
  <2> QED
    BY <2>1 DEF GoodJob
<1>8. PICK more : more = removes /\ more \subseteq TaskType /\ \A u \in more : GoodTask(u)'
  <2>1. PICK more : more = removes /\ \A u \in more : u \in TaskType /\ u.op = "remove"
    BY <1>5
  <2> QED
    BY <2>1 DEF GoodTask
<1>9. Tasks'
    BY <1>1, <1>6, <1>8, TasksIssued DEF Grows
<1>10. onboarding' \in [Party -> Answers]
    BY <1>1, JobOf
<1> QED
    BY <1>1, <1>6, <1>7, <1>9, <1>10, GoesStep DEF Answers

LEMMA DisabledClearedStep ==
    ASSUME IInv, NEW r \in Request, DisabledCleared(r)
    PROVE  IInv'
<1> DEFINE next == [job[r] EXCEPT !.at = "adding"]
           adds == {Task("add", r, p, SyncedRow(r, p)) : p \in Added(r)}
<1>1. /\ Goes(r, next) /\ Issues(adds) /\ UNCHANGED <<ledger, onboarding>>
      /\ job[r].at = "clearing"
    BY DEF DisabledCleared
<1>2. job[r].found \subseteq RightsMap /\ RightsMap \subseteq Party
    BY <1>1, JobOf DEF GoodJob, IInv, Ledger
<1>3. next \in JobType /\ next.at = "adding" /\ next.found = job[r].found
    BY JobOf DEF JobType
<1>4. \A p : SyncedRow(r, p) \in Row
    BY DEF SyncedRow, Row
<1>5. \A u \in adds : u \in TaskType /\ u.row \in Row /\ u.party \in RightsMap
  <2>1. \A p \in Added(r) : p \in Party /\ p \in RightsMap
    BY <1>2 DEF Added
  <2> QED
    BY <1>4, <2>1, TaskIsTask DEF RowOrNone
<1> HIDE DEF next, adds
<1>6. Ledger' /\ Grows
    BY <1>1 DEF ledger, RightsMap, IInv, Ledger, Grows
<1>7. PICK j \in JobType : j = next /\ GoodJob(j)'
  <2>1. PICK j \in JobType : j = next /\ j.at = "adding" /\ j.found \subseteq RightsMap'
    BY <1>2, <1>3, <1>6 DEF Grows
  <2> QED
    BY <2>1 DEF GoodJob
<1>8. PICK more : more = adds /\ more \subseteq TaskType /\ \A u \in more : GoodTask(u)'
  <2>1. PICK more : /\ more = adds
                    /\ \A u \in more : u \in TaskType /\ u.row \in Row /\ u.party \in RightsMap'
    BY <1>5, <1>6 DEF Grows
  <2> QED
    BY <2>1 DEF GoodTask
<1>9. Tasks'
    BY <1>1, <1>6, <1>8, TasksIssued DEF Grows
<1>10. onboarding' \in [Party -> Answers]
    BY <1>1, JobOf
<1> QED
    BY <1>1, <1>6, <1>7, <1>9, <1>10, GoesStep DEF Answers

LEMMA WalletsAddedStep ==
    ASSUME IInv, NEW r \in Request, WalletsAdded(r)
    PROVE  IInv'
<1>1. Goes(r, Idle) /\ UNCHANGED <<ledger, onboarding>>
    BY DEF WalletsAdded
<1>2. Ledger' /\ Grows
    BY <1>1 DEF ledger, RightsMap, IInv, Ledger, Grows
<1>3. Tasks'
  <2>1. CASE \E p \in Stored : Issues({Task("setPrimary", NoRequest, p, NoRow)})
    <3>1. PICK p \in Stored : Issues({Task("setPrimary", NoRequest, p, NoRow)})
        BY <2>1
    <3>2. PICK q \in Party : q = p
        BY DEF Stored
    <3> DEFINE u == Task("setPrimary", NoRequest, q, NoRow)
    <3>3. Issues({u})
        BY <3>1, <3>2
    <3>4. u \in TaskType /\ u.op = "setPrimary"
        BY TaskIsTask DEF RowOrNone
    <3> HIDE DEF u
    <3>5. GoodTask(u)'
        BY <3>4 DEF GoodTask
    <3> QED
        BY <1>2, <3>3, <3>4, <3>5, TasksIssued DEF Grows
  <2>2. CASE UNCHANGED tasks
    BY <1>2, <2>2, TasksStay DEF Grows
  <2> QED
    BY <2>1, <2>2 DEF WalletsAdded
<1>4. onboarding' \in [Party -> Answers]
    BY <1>1, JobOf
<1> QED
    BY <1>1, <1>2, <1>3, <1>4, EndStep DEF Answers

LEMMA ContinuesStep ==
    ASSUME IInv, NEW r \in Request, Continues(r)
    PROVE  IInv'
<1>1. CASE SignedAtOnce(r)
    BY <1>1, SignedAtOnceStep
<1>2. ASSUME NEW answer \in {"pending", "rejected", "none"}, Asked(r, answer) PROVE IInv'
    BY <1>2, AskedStep
<1>3. CASE KeyFails(r) \/ LedgerFails(r) \/ Answered(r)
    BY <1>3, ThrowsStep DEF KeyFails, LedgerFails, Answered
<1>4. CASE PollSaysSigned(r) \/ PollSaysPending(r) \/ PollSaysNo(r) \/ WalletRemoved(r)
    BY <1>4, PollSaysSignedStep, PollSaysPendingStep, PollSaysNoStep, WalletRemovedStep
<1>5. ASSUME NEW q \in Party, PollStartsOver(r, q) PROVE IInv'
    BY <1>5, PollStartsOverStep
<1>6. CASE AllocateParty(r) \/ GrantRights(r)
    BY <1>6, AllocatePartyStep, GrantRightsStep
<1>7. CASE RightsRead(r) \/ DisabledCleared(r) \/ WalletsAdded(r)
    BY <1>7, RightsReadStep, DisabledClearedStep, WalletsAddedStep
<1>8. ASSUME NEW unmatched \in SUBSET NewParties(r), WalletsRead(r, unmatched) PROVE IInv'
    BY <1>8, WalletsReadStep
<1> QED
    BY <1>1, <1>2, <1>3, <1>4, <1>5, <1>6, <1>7, <1>8 DEF Continues

-----------------------------------------------------------------------------
(* The invariant *)

LEMMA RunTaskStep ==
    ASSUME IInv, RunTask
    PROVE  IInv'
    BY LookBeforeAddStep, InsertWalletStep, LookBeforeSetStep, SwapPrimaryStep,
       RemoveWalletStep, UpdateWalletStep DEF RunTask

LEMMA ProviderDecidesStep ==
    ASSUME IInv, NEW p \in Party, NEW answer \in {"signed", "rejected"},
           ProviderDecides(p, answer)
    PROVE  IInv'
<1>1. UNCHANGED <<rows, tasks, job, ledger, ghosts, crashed, bounds>>
    BY DEF ProviderDecides
<1>2. Tasks'
    BY <1>1, TasksStay DEF ledger, RightsMap
<1>3. Jobs' /\ Ledger'
    BY <1>1, JobsStay
<1>4. Rows' /\ Allocated'
    BY <1>1 DEF IInv, Rows, Allocated, Stored, ledger, RightsMap
<1>5. Rest'
    BY <1>1 DEF IInv, Rest, ProviderDecides, ghosts, bounds
<1> QED
    BY <1>2, <1>3, <1>4, <1>5 DEF IInv

LEMMA RestartStep ==
    ASSUME IInv, Restart
    PROVE  IInv'
<1>1. Tasks'
    BY DEF Restart, Tasks
<1>2. Jobs'
  <2>1. job' = [r \in Request |-> Idle]
    BY DEF Restart
  <2>2. GoodJob(Idle)'
    BY DEF GoodJob, Idle
  <2> QED
    BY <2>1, <2>2, IdleType DEF Jobs
<1>3. Rows' /\ Allocated' /\ Ledger'
    BY DEF IInv, Rows, Allocated, Stored, Ledger, ledger, RightsMap, Restart
<1>4. Rest'
  <2>1. /\ UNCHANGED <<onboarding, removed, known, started>>
        /\ crashed' \in BOOLEAN
    BY DEF Restart, ghosts
  <2>2. restarts' \in 0..MaxRestarts
    BY WalletsAssumption DEF Restart, IInv, Rest
  <2> QED
    BY <2>1, <2>2 DEF IInv, Rest
<1> QED
    BY <1>1, <1>2, <1>3, <1>4 DEF IInv

LEMMA StutterStep ==
    ASSUME IInv, UNCHANGED vars
    PROVE  IInv'
<1>1. Tasks' /\ Jobs' /\ Ledger'
    BY TasksStay, JobsStay DEF vars, ledger, RightsMap
<1>2. Rows' /\ Allocated' /\ Rest'
    BY DEF IInv, Rows, Allocated, Stored, Rest, vars, ledger, RightsMap, ghosts, bounds
<1> QED
    BY <1>1, <1>2 DEF IInv

LEMMA IInvStep ==
    ASSUME IInv, [Next]_vars
    PROVE  IInv'
    BY RunTaskStep, StartsStep, ContinuesStep, ProviderDecidesStep, RestartStep,
       StutterStep DEF Next

LEMMA IInvInit ==
    ASSUME Init
    PROVE  IInv
<1>1. Rows /\ Ledger
    BY DEF Init, Rows, RowOrNone, Ledger, RightsMap
<1>2. Tasks
    BY DEF Init, Tasks
<1>3. Jobs
  <2>1. GoodJob(Idle)
    BY DEF GoodJob, Idle
  <2> QED
    BY <2>1, IdleType DEF Init, Jobs
<1>4. Rest
  <2>1. onboarding \in [Party -> {"none", "pending", "signed", "rejected"}]
    BY DEF Init
  <2>2. removed = {} /\ known = {} /\ crashed = FALSE /\ started = 0 /\ restarts = 0
    BY DEF Init
  <2>3. started \in 0..MaxRequests /\ restarts \in 0..MaxRestarts
    BY <2>2, WalletsAssumption
  <2> QED
    BY <2>1, <2>2, <2>3 DEF Rest
<1>5. Allocated
    BY DEF Init, Earlier, Allocated, Stored
<1> QED
    BY <1>1, <1>2, <1>3, <1>4, <1>5 DEF IInv

LEMMA IInvAlways == Spec => []IInv
<1>1. Init => IInv
    BY IInvInit
<1>2. IInv /\ [Next]_vars => IInv'
    BY IInvStep
<1> QED
    BY <1>1, <1>2, PTL DEF Spec

\* The variables keep their types, and the user's rights are on parties
\* that the ledger hosts, whatever the requests, the store and the ledger do.
THEOREM TypeCorrect == Spec => []TypeOK
<1>1. IInv => TypeOK
    BY DEF IInv, TypeOK, Rows, RowOrNone, Tasks, TaskType, Jobs, JobType, Ledger, Rest
<1> QED
    BY <1>1, IInvAlways, PTL

\* A row that says "allocated" is of a party that the ledger hosts and the user has
\* some right on, to act, to execute or to read as it, for any number of requests,
\* tasks, failures and restarts: createWallet writes the word only after the party
\* was seen and the right granted, a sync only of the parties it has found, and a
\* poll that is answered late or removes the wallet does not write it at all.
THEOREM AllocatedIsHostedAlways == Spec => []AllocatedIsHosted
<1>1. IInv => AllocatedIsHosted
    BY DEF IInv, Ledger, RightsMap, Allocated, AllocatedIsHosted
<1> QED
    BY <1>1, IInvAlways, PTL

-----------------------------------------------------------------------------
(* Primary wallets *)

(***************************************************************************)
(* What makes one wallet primary.  As long as none was removed, a wallet    *)
(* that is inserted as not primary joins another one, and the wallet that a *)
(* swap makes primary is there: both were seen, and are not gone.           *)
(***************************************************************************)
GoodWrite(t) ==
    /\ t.op = "insert" /\ ~t.row.primary => Stored # {}
    /\ t.op = "swap" => t.party \in Stored

FirstInv == removed = {} =>
    /\ Stored # {} => PrimariesIn(rows) # {}
    /\ \A t \in tasks : GoodWrite(t)

\* The unique index is what a write that would make two wallets primary fails by.
OnePrimary == Cardinality(PrimariesIn(rows)) <= 1

PrimaryInv == IInv /\ OnePrimary /\ FirstInv

\* A step of a request does not touch the table, and what it issues looks first.
LooksFirst == \A u \in tasks' : u.op \in {"insert", "swap"} => u \in tasks

LEMMA IssuesLooksFirst ==
    ASSUME NEW more, Issues(more), \A u \in more : u.op \notin {"insert", "swap"}
    PROVE  LooksFirst
    BY DEF Issues, LooksFirst

LEMMA StoreLooksFirst ==
    ASSUME NEW r, NEW j, StoreWallet(r, j)
    PROVE  LooksFirst /\ rows' = rows /\ removed' = removed
<1>1. Issues({Task(IF j.context THEN "update" ELSE "add", r, j.party, NewRow(j))})
    BY DEF StoreWallet
<1>2. Task(IF j.context THEN "update" ELSE "add", r, j.party, NewRow(j)).op
         \notin {"insert", "swap"}
    BY DEF Task
<1> QED
    BY <1>1, <1>2, IssuesLooksFirst DEF StoreWallet, Goes

LEMMA RequestLooksFirst ==
    ASSUME NEW r \in Request, Starts(r) \/ Continues(r)
    PROVE  LooksFirst /\ rows' = rows /\ removed' = removed
<1>1. ASSUME NEW p \in Party, NEW b \in BOOLEAN, CreateWallet(r, p, b)
      PROVE  LooksFirst /\ rows' = rows /\ removed' = removed
    BY <1>1 DEF CreateWallet, Begin, ghosts, LooksFirst
<1>2. ASSUME NEW p \in Party, PollWallet(r, p)
      PROVE  LooksFirst /\ rows' = rows /\ removed' = removed
    BY <1>2 DEF PollWallet, Begin, ghosts, LooksFirst
<1>3. ASSUME NEW p \in Party, SetPrimary(r, p)
      PROVE  LooksFirst /\ rows' = rows /\ removed' = removed
  <2>1. Task("setPrimary", r, p, NoRow).op = "setPrimary"
    BY DEF Task
  <2> QED
    BY <1>3, <2>1, IssuesLooksFirst DEF SetPrimary, Begin, ghosts
<1>4. CASE SyncWallets(r)
    BY <1>4 DEF SyncWallets, Begin, ghosts, LooksFirst
<1>5. CASE Starts(r)
    BY <1>1, <1>2, <1>3, <1>4, <1>5 DEF Starts
<1>6. CASE \/ SignedAtOnce(r) \/ KeyFails(r) \/ PollSaysSigned(r) \/ AllocateParty(r)
           \/ LedgerFails(r) \/ RightsRead(r) \/ Answered(r)
           \/ \E q \in Party : PollStartsOver(r, q)
  <2>1. tasks' = tasks /\ rows' = rows /\ removed' = removed
    BY <1>6 DEF SignedAtOnce, KeyFails, PollSaysSigned, AllocateParty, LedgerFails,
                RightsRead, Answered, PollStartsOver, Throws, Goes
  <2> QED
    BY <2>1 DEF LooksFirst
<1>7. CASE \/ \E answer \in {"pending", "rejected", "none"} : Asked(r, answer)
           \/ PollSaysPending(r) \/ WalletRemoved(r)
    BY <1>7, StoreLooksFirst DEF Asked, PollSaysPending, WalletRemoved
<1>8. CASE GrantRights(r)
  <2>1. CASE \E j : StoreWallet(r, j)
    BY <2>1, StoreLooksFirst
  <2>2. CASE Goes(r, Idle) /\ UNCHANGED tasks
    BY <2>2 DEF Goes, LooksFirst
  <2> QED
    BY <1>8, <2>1, <2>2 DEF GrantRights
<1>9. CASE PollSaysNo(r)
  <2>1. Task("remove", r, job[r].party, NoRow).op = "remove"
    BY DEF Task
  <2> QED
    BY <1>9, <2>1, IssuesLooksFirst DEF PollSaysNo, Goes
<1>10. ASSUME NEW unmatched, WalletsRead(r, unmatched)
       PROVE  LooksFirst /\ rows' = rows /\ removed' = removed
  <2>1. \A u \in {Task("remove", r, p, NoRow) : p \in SyncRemoves(r)} : u.op = "remove"
    BY DEF Task
  <2> QED
    BY <1>10, <2>1, IssuesLooksFirst DEF WalletsRead, Goes
<1>11. CASE DisabledCleared(r)
  <2>1. \A u \in {Task("add", r, p, SyncedRow(r, p)) : p \in Added(r)} : u.op = "add"
    BY DEF Task
  <2> QED
    BY <1>11, <2>1, IssuesLooksFirst DEF DisabledCleared, Goes
<1>12. CASE WalletsAdded(r)
  <2>1. rows' = rows /\ removed' = removed
    BY <1>12 DEF WalletsAdded, Goes
  <2>2. \A p : Task("setPrimary", NoRequest, p, NoRow).op = "setPrimary"
    BY DEF Task
  <2>3. CASE \E p \in Stored : Issues({Task("setPrimary", NoRequest, p, NoRow)})
    BY <2>1, <2>2, <2>3, IssuesLooksFirst
  <2>4. CASE UNCHANGED tasks
    BY <2>1, <2>4 DEF LooksFirst
  <2> QED
    BY <1>12, <2>3, <2>4 DEF WalletsAdded
<1>13. CASE Continues(r)
    BY <1>6, <1>7, <1>8, <1>9, <1>10, <1>11, <1>12, <1>13 DEF Continues
<1> QED
    BY <1>5, <1>13

\* A step that leaves the table alone and looks first preserves both facts.
LEMMA TableStays ==
    ASSUME OnePrimary, FirstInv, LooksFirst, UNCHANGED <<rows, removed>>
    PROVE  OnePrimary' /\ FirstInv'
    BY DEF OnePrimary, FirstInv, LooksFirst, GoodWrite, Stored, PrimariesIn

LEMMA RejectedPrimary ==
    ASSUME PrimaryInv, NEW t \in tasks, Rejected(t)
    PROVE  OnePrimary' /\ FirstInv'
<1>1. rows' = rows /\ removed' = removed
    BY DEF Rejected, ghosts
<1>2. \A u \in tasks' : \E w \in tasks : u = w \/ u = Orphan(w)
    BY DEF Rejected
<1>3. \A w \in tasks : Orphan(w).op = w.op /\ Orphan(w).party = w.party /\ Orphan(w).row = w.row
    BY OrphanIsTask DEF PrimaryInv, IInv, Tasks
<1>4. \A u \in tasks' : \E w \in tasks : u.op = w.op /\ u.party = w.party /\ u.row = w.row
    BY <1>2, <1>3
<1> QED
    BY <1>1, <1>4 DEF PrimaryInv, OnePrimary, FirstInv, GoodWrite, Stored, PrimariesIn

LEMMA LookPrimary ==
    ASSUME PrimaryInv, NEW t \in tasks, LookBeforeAdd(t) \/ LookBeforeSet(t)
    PROVE  OnePrimary' /\ FirstInv'
<1>1. CASE Rejected(t)
    BY <1>1, RejectedPrimary
<1>2. CASE LookBeforeAdd(t) /\ ~Rejected(t)
  <2> DEFINE row == FirstMadePrimary(t.row)
             next == [t EXCEPT !.op = "insert", !.row = row, !.old = PrimariesIn(rows)]
  <2>1. Done(t, {next}) /\ UNCHANGED <<rows, removed>>
    BY <1>2 DEF LookBeforeAdd, ghosts
  <2>2. t \in TaskType /\ t.row \in Row
    BY <1>2 DEF LookBeforeAdd, PrimaryInv, IInv, Tasks, GoodTask
  <2>3. ~row.primary => Stored # {}
    BY <2>2, WithPrimaryType DEF FirstMadePrimary
  <2>4. next.op = "insert" /\ next.row = row
    BY <2>2 DEF TaskType
  <2> HIDE DEF row, next
  <2>5. \A u \in tasks' : u \in tasks \/ (u.op = "insert" /\ (~u.row.primary => Stored # {}))
    BY <2>1, <2>3, <2>4 DEF Done
  <2> QED
    BY <2>1, <2>5 DEF PrimaryInv, OnePrimary, FirstInv, GoodWrite, Stored, PrimariesIn
<1>3. CASE LookBeforeSet(t) /\ ~Rejected(t)
  <2> DEFINE next == [t EXCEPT !.op = "swap", !.old = PrimariesIn(rows)]
  <2>1. Done(t, {next}) /\ UNCHANGED <<rows, removed>> /\ t.party \in Stored
    BY <1>3 DEF LookBeforeSet, ghosts
  <2>2. t \in TaskType
    BY DEF PrimaryInv, IInv, Tasks
  <2>3. next.op = "swap" /\ next.party = t.party
    BY <2>2 DEF TaskType
  <2> HIDE DEF next
  <2>4. \A u \in tasks' : u \in tasks \/ (u.op = "swap" /\ u.party \in Stored)
    BY <2>1, <2>3 DEF Done
  <2> QED
    BY <2>1, <2>4 DEF PrimaryInv, OnePrimary, FirstInv, GoodWrite, Stored, PrimariesIn
<1> QED
    BY <1>1, <1>2, <1>3

LEMMA InsertPrimary ==
    ASSUME PrimaryInv, NEW t \in tasks, InsertWallet(t)
    PROVE  OnePrimary' /\ FirstInv'
<1>1. CASE Rejected(t)
    BY <1>1, RejectedPrimary
<1>2. CASE ~Rejected(t)
  <2>1. PICK old : /\ rows' = Inserted(t, old) /\ IndexHolds(Inserted(t, old)) /\ Done(t, {})
                   /\ UNCHANGED removed
    BY <1>2 DEF InsertWallet, ghosts
  <2>2. t.op = "insert" /\ t.party \in Party /\ t.row \in Row /\ t.party \notin Stored
    BY <1>2 DEF InsertWallet, PrimaryInv, IInv, Tasks, TaskType, GoodTask
  <2>3. Rows
    BY DEF PrimaryInv, IInv
  <2>4. /\ rows' \in [Party -> RowOrNone] /\ rows'[t.party] = t.row
        /\ \A p \in Party \ {t.party} : rows'[p] = NoRow <=> rows[p] = NoRow
        /\ ~t.row.primary => \A p \in Party \ {t.party} : rows'[p] = rows[p]
    BY <2>1, <2>2, <2>3, InsertedRows
  <2>5. Stored \subseteq Stored' /\ t.party \in Stored'
    BY <2>2, <2>4, NoRowIsNone DEF Stored
  <2>6. t.row.primary => PrimariesIn(rows)' # {}
    BY <2>2, <2>4, <2>5 DEF PrimariesIn, Stored
  <2>7. ~t.row.primary /\ removed = {} => PrimariesIn(rows)' # {}
    <3> SUFFICES ASSUME ~t.row.primary, removed = {} PROVE PrimariesIn(rows)' # {}
        OBVIOUS
    <3>1. PICK p : p \in PrimariesIn(rows)
        BY <2>2 DEF PrimaryInv, FirstInv, GoodWrite
    <3>2. p \in Party /\ p # t.party /\ rows[p] # NoRow /\ rows[p].primary
        BY <2>2, <3>1 DEF PrimariesIn, Stored
    <3> QED
        BY <2>4, <3>2 DEF PrimariesIn
  <2>8. OnePrimary'
    BY <2>1 DEF OnePrimary, IndexHolds, PrimariesIn
  <2>9. \A u \in tasks' : u \in tasks
    BY <2>1 DEF Done
  <2>10. FirstInv'
    BY <2>1, <2>5, <2>6, <2>7, <2>9 DEF PrimaryInv, FirstInv, GoodWrite
  <2> QED
    BY <2>8, <2>10
<1> QED
    BY <1>1, <1>2

LEMMA SwapIsPrimary ==
    ASSUME PrimaryInv, NEW t \in tasks, SwapPrimary(t)
    PROVE  OnePrimary' /\ FirstInv'
<1>1. CASE Rejected(t)
    BY <1>1, RejectedPrimary
<1>2. CASE ~Rejected(t)
  <2>1. rows' = Swapped(t) /\ IndexHolds(Swapped(t)) /\ Done(t, {}) /\ UNCHANGED removed
    BY <1>2 DEF SwapPrimary, ghosts
  <2>2. t.op = "swap" /\ t.party \in Party
    BY DEF SwapPrimary, PrimaryInv, IInv, Tasks, TaskType
  <2>3. Rows
    BY DEF PrimaryInv, IInv
  <2>4. Stored' = Stored
    BY <2>1, <2>3, SwappedRows DEF Stored
  <2>5. t.party \in Stored => t.party \in PrimariesIn(rows)'
    <3> SUFFICES ASSUME t.party \in Stored PROVE t.party \in PrimariesIn(rows)'
        OBVIOUS
    <3>1. rows[t.party] \in Row
        BY <2>2, <2>3 DEF Rows, RowOrNone, Stored
    <3>2. PICK row \in Row : row = WithPrimary(rows[t.party], TRUE) /\ row.primary
        BY <3>1, WithPrimaryType
    <3>3. rows'[t.party] = row
        BY <2>1, <2>2, <3>2 DEF Swapped
    <3> QED
        BY <2>2, <3>2, <3>3, NoRowIsNone DEF PrimariesIn
  <2>6. OnePrimary'
    BY <2>1 DEF OnePrimary, IndexHolds, PrimariesIn
  <2>7. \A u \in tasks' : u \in tasks
    BY <2>1 DEF Done
  <2>8. removed = {} => t.party \in Stored
    BY <2>2 DEF PrimaryInv, FirstInv, GoodWrite
  <2>9. FirstInv'
    BY <2>1, <2>4, <2>5, <2>7, <2>8 DEF PrimaryInv, FirstInv, GoodWrite
  <2> QED
    BY <2>6, <2>9
<1> QED
    BY <1>1, <1>2

\* Fewer primary wallets are not too many.
LEMMA FewerPrimary ==
    ASSUME OnePrimary, PrimariesIn(rows)' \subseteq PrimariesIn(rows)
    PROVE  OnePrimary'
<1>1. IsFiniteSet(PrimariesIn(rows))
  <2>1. PrimariesIn(rows) \subseteq Party
    BY DEF PrimariesIn
  <2> QED
    BY <2>1, FS_Subset, WalletsAssumption
<1>2. PICK now : now = PrimariesIn(rows)
    OBVIOUS
<1>3. PICK next : next = PrimariesIn(rows)'
    OBVIOUS
<1>4. IsFiniteSet(now) /\ next \subseteq now
    BY <1>1, <1>2, <1>3
<1>5. Cardinality(next) <= Cardinality(now) /\ Cardinality(now) \in Nat /\ Cardinality(next) \in Nat
    BY <1>4, FS_Subset, FS_CardinalityType
<1>6. Cardinality(now) <= 1
    BY <1>2 DEF OnePrimary
<1>7. Cardinality(next) <= 1
    BY <1>5, <1>6
<1> QED
    BY <1>3, <1>7 DEF OnePrimary

LEMMA RemovePrimary ==
    ASSUME PrimaryInv, NEW t \in tasks, RemoveWallet(t)
    PROVE  OnePrimary' /\ FirstInv'
<1>1. /\ rows' = [rows EXCEPT ![t.party] = NoRow]
      /\ removed' = IF t.party \in Stored THEN removed \cup {Remover(t)} ELSE removed
      /\ Done(t, {})
    BY DEF RemoveWallet
<1>2. Rows
    BY DEF PrimaryInv, IInv
<1>3. PrimariesIn(rows)' \subseteq PrimariesIn(rows)
    BY <1>1, <1>2 DEF PrimariesIn, Rows
<1>4. ASSUME removed' = {} PROVE rows' = rows /\ removed = {}
  <2>1. t.party \notin Stored /\ removed = {}
    BY <1>1, <1>4
  <2>2. t.party \in Party => rows[t.party] = NoRow
    BY <2>1 DEF Stored
  <2> QED
    BY <1>1, <1>2, <2>1, <2>2 DEF Rows
<1>5. \A u \in tasks' : u \in tasks
    BY <1>1 DEF Done
<1>6. FirstInv'
    BY <1>4, <1>5 DEF PrimaryInv, FirstInv, GoodWrite, Stored, PrimariesIn
<1> QED
    BY <1>3, <1>6, FewerPrimary DEF PrimaryInv

LEMMA UpdatePrimary ==
    ASSUME PrimaryInv, NEW t \in tasks, UpdateWallet(t)
    PROVE  OnePrimary' /\ FirstInv'
<1>1. Done(t, {}) /\ UNCHANGED removed
    BY DEF UpdateWallet, ghosts
<1>2. Stored' = Stored /\ PrimariesIn(rows)' = PrimariesIn(rows)
  <2>1. CASE t.party \in Stored
    <3>1. t.party \in Party /\ rows[t.party] \in Row /\ t.row \in Row
        BY <2>1 DEF UpdateWallet, PrimaryInv, IInv, Rows, RowOrNone, Stored, Tasks, GoodTask
    <3>2. PICK row \in Row : /\ row = UpdatedRow(rows[t.party], t.row)
                             /\ row.primary = rows[t.party].primary
        BY <3>1, UpdatedRowType
    <3>3. rows' = [rows EXCEPT ![t.party] = row]
        BY <2>1, <3>2 DEF UpdateWallet
    <3> QED
        BY <3>1, <3>2, <3>3, NoRowIsNone DEF PrimaryInv, IInv, Rows, Stored, PrimariesIn
  <2>2. CASE t.party \notin Stored
    BY <2>2 DEF UpdateWallet, Stored, PrimariesIn
  <2> QED
    BY <2>1, <2>2
<1>3. \A u \in tasks' : u \in tasks
    BY <1>1 DEF Done
<1>4. FirstInv'
    BY <1>1, <1>2, <1>3 DEF PrimaryInv, FirstInv, GoodWrite
<1> QED
    BY <1>2, <1>4, FewerPrimary DEF PrimaryInv

LEMMA PrimaryStep ==
    ASSUME PrimaryInv, [Next]_vars
    PROVE  PrimaryInv'
<1>1. IInv'
    BY IInvStep DEF PrimaryInv
<1>2. OnePrimary' /\ FirstInv'
  <2>1. CASE RunTask
    BY <2>1, LookPrimary, InsertPrimary, SwapIsPrimary, RemovePrimary, UpdatePrimary DEF RunTask
  <2>2. ASSUME NEW r \in Request, Starts(r) \/ Continues(r) PROVE OnePrimary' /\ FirstInv'
    BY <2>2, RequestLooksFirst, TableStays DEF PrimaryInv
  <2>3. CASE \/ \E p \in Party, answer \in {"signed", "rejected"} : ProviderDecides(p, answer)
             \/ UNCHANGED vars
    BY <2>3, TableStays DEF ProviderDecides, vars, ghosts, LooksFirst, PrimaryInv
  <2>4. CASE Restart
    BY <2>4, TableStays DEF Restart, ghosts, LooksFirst, PrimaryInv
  <2> QED
    BY <2>1, <2>2, <2>3, <2>4 DEF Next
<1> QED
    BY <1>1, <1>2 DEF PrimaryInv

LEMMA PrimaryInit ==
    ASSUME Init
    PROVE  PrimaryInv
<1>1. IInv
    BY IInvInit
<1>2. Stored = {} => PrimariesIn(rows) = {}
    BY DEF Stored, PrimariesIn
<1>3. OnePrimary /\ (Stored # {} => PrimariesIn(rows) # {})
  <2>1. PICK now : now = PrimariesIn(rows)
    OBVIOUS
  <2>2. Stored # {} => Cardinality(now) = 1
    BY <2>1 DEF Init
  <2>3. Cardinality({}) = 0
    BY FS_EmptySet
  <2>4. Stored = {} => now = {}
    BY <1>2, <2>1
  <2>5. Cardinality(now) <= 1 /\ (Stored # {} => now # {})
    BY <2>2, <2>3, <2>4
  <2> QED
    BY <2>1, <2>5 DEF OnePrimary
<1>4. FirstInv
    BY <1>3 DEF Init, FirstInv
<1> QED
    BY <1>1, <1>3, <1>4 DEF PrimaryInv

LEMMA PrimaryAlways == Spec => []PrimaryInv
<1>1. Init => PrimaryInv
    BY PrimaryInit
<1>2. PrimaryInv /\ [Next]_vars => PrimaryInv'
    BY PrimaryStep
<1> QED
    BY <1>1, <1>2, PTL DEF Spec

\* Until a wallet is removed, a user with wallets has a primary one: first wallets
\* that are added in parallel, and a swap of the primary one with the rows of
\* another time, do not lose it.
THEOREM FirstIsPrimaryAlways == Spec => []FirstIsPrimary
<1>1. PrimaryInv => FirstIsPrimary
    BY DEF PrimaryInv, FirstInv, FirstIsPrimary
<1> QED
    BY <1>1, PrimaryAlways, PTL

-----------------------------------------------------------------------------
(* What a sync has found *)

(***************************************************************************)
(* A party that a sync has found has a row, or somebody is to add one: a    *)
(* store operation, on behalf of the sync or of nobody any more, or a sync  *)
(* that has read it and not come to add it.  A sync removes only what it    *)
(* will add, and goes on when all is removed.                              *)
(***************************************************************************)
IssuedFor(t, j) ==
    IF t.op = "remove"
    THEN \/ j.at = "removing" /\ j.kind = "poll"
         \/ j.at = "clearing" /\ t.party \in j.found
    ELSE j.at \in {"storing", "adding"}

Issued(t) ==
    \/ t.by = NoRequest /\ t.op # "remove"
    \/ t.by \in Request /\ IssuedFor(t, job[t.by])

Seeks(j, p) == j.at \in {"reading", "clearing"} /\ p \in j.found

Sought(p) ==
    \/ p \in Stored
    \/ \E t \in tasks : t.op \in {"add", "insert"} /\ t.party = p
    \/ \E r \in Request : Seeks(job[r], p)

FoundInv ==
    /\ \A t \in tasks : Issued(t)
    /\ restarts = 0 => \A p \in known : Sought(p)
    /\ \A r \in Request : job[r].at = "polling" => job[r].kind = "poll"

\* A request that has nothing under way goes on as j and issues more.
LEMMA FoundGoes ==
    ASSUME IInv, FoundInv, NEW r \in Request, NEW j, NEW more,
           job' = [job EXCEPT ![r] = j], tasks' = tasks \cup more, rows' = rows, restarts' = restarts,
           known' \subseteq known \cup (IF j.at = "reading" THEN j.found ELSE {}),
           j.at = "polling" => j.kind = "poll",
           TasksOf(r) = {},
           \A u \in more : \/ u.by = NoRequest /\ u.op # "remove"
                           \/ u.by = r /\ IssuedFor(u, j),
           \A p : Seeks(job[r], p) =>
              \/ p \in Stored \/ Seeks(j, p)
              \/ \E u \in more : u.op = "add" /\ u.party = p
    PROVE  FoundInv'
<1>1. job \in [Request -> JobType] /\ job'[r] = j /\ \A q \in Request \ {r} : job'[q] = job[q]
    BY DEF IInv, Jobs
<1>2. ASSUME NEW t \in tasks'
      PROVE  Issued(t)'
  <2>1. CASE t \in tasks
    <3>1. t.by # r
        BY <2>1 DEF TasksOf
    <3> QED
        BY <1>1, <2>1, <3>1 DEF FoundInv, Issued, IssuedFor
  <2>2. CASE t \in more
    BY <1>1, <2>2 DEF Issued, IssuedFor
  <2> QED
    BY <1>2, <2>1, <2>2
<1>3. ASSUME NEW p \in known', restarts' = 0
      PROVE  Sought(p)'
  <2>1. Stored' = Stored
    BY DEF Stored
  <2>2. CASE p \in known
    <3>1. CASE p \in Stored
        BY <2>1, <3>1 DEF Sought
    <3>2. CASE \E t \in tasks : t.op \in {"add", "insert"} /\ t.party = p
        BY <3>2 DEF Sought
    <3>3. CASE \E q \in Request \ {r} : Seeks(job[q], p)
        BY <1>1, <3>3 DEF Sought, Seeks
    <3>4. CASE Seeks(job[r], p)
      <4>1. CASE p \in Stored
        BY <2>1, <4>1 DEF Sought
      <4>2. CASE Seeks(j, p)
        BY <1>1, <4>2 DEF Sought, Seeks
      <4>3. CASE \E u \in more : u.op = "add" /\ u.party = p
        BY <4>3 DEF Sought
      <4> QED
        BY <3>4, <4>1, <4>2, <4>3
    <3> QED
        BY <1>3, <2>2, <3>1, <3>2, <3>3, <3>4 DEF FoundInv, Sought
  <2>3. CASE p \notin known
    BY <1>1, <1>3, <2>3 DEF Sought, Seeks
  <2> QED
    BY <2>2, <2>3
<1>4. \A q \in Request : job'[q].at = "polling" => job'[q].kind = "poll"
    BY <1>1 DEF FoundInv
<1> QED
    BY <1>2, <1>3, <1>4 DEF FoundInv

\* A request that is not at the store has nothing under way.
LEMMA NothingIssued ==
    ASSUME FoundInv, NEW r \in Request,
           job[r].at \in {"idle", "asking", "polling", "allocating", "granting", "rights", "reading"}
    PROVE  TasksOf(r) = {}
<1>1. ASSUME NEW t \in tasks, t.by = r PROVE FALSE
    BY <1>1, WalletsAssumption DEF FoundInv, Issued, IssuedFor
<1> QED
    BY <1>1 DEF TasksOf

LEMMA FoundEnds ==
    ASSUME IInv, FoundInv, NEW r \in Request, TasksOf(r) = {}, ~(job[r].at \in {"reading", "clearing"}),
           NEW j \in JobType, Goes(r, j), UNCHANGED tasks, j.at # "polling"
    PROVE  FoundInv'
<1>1. /\ tasks' = tasks \cup {} /\ job' = [job EXCEPT ![r] = j] /\ rows' = rows /\ restarts' = restarts
      /\ known' \subseteq known \cup (IF j.at = "reading" THEN j.found ELSE {})
    BY DEF Goes, bounds
<1>2. \A p : ~Seeks(job[r], p)
    BY DEF Seeks
<1>3. PICK more : more = {}
    OBVIOUS
<1> QED
    BY <1>1, <1>2, <1>3, FoundGoes

LEMMA FoundStores ==
    ASSUME IInv, FoundInv, NEW r \in Request, TasksOf(r) = {}, ~(job[r].at \in {"reading", "clearing"}),
           NEW j \in JobType, j.party \in Party, StoreWallet(r, j)
    PROVE  FoundInv'
<1> DEFINE stored == [j EXCEPT !.at = "storing"]
           u == Task(IF j.context THEN "update" ELSE "add", r, j.party, NewRow(j))
<1>1. Goes(r, stored) /\ tasks' = tasks \cup {u}
    BY DEF StoreWallet, Issues
<1>2. stored \in JobType /\ stored.at = "storing"
    BY DEF JobType
<1>3. u.by = r /\ u.op # "remove"
    BY DEF Task
<1> HIDE DEF stored, u
<1>4. /\ job' = [job EXCEPT ![r] = stored] /\ rows' = rows /\ restarts' = restarts
      /\ known' \subseteq known \cup (IF stored.at = "reading" THEN stored.found ELSE {})
    BY <1>1 DEF Goes, bounds
<1>5. \A p : ~Seeks(job[r], p)
    BY DEF Seeks
<1>6. PICK more : more = {u}
    OBVIOUS
<1>7. \A w \in more : w.by = r /\ IssuedFor(w, stored)
    BY <1>2, <1>3, <1>6 DEF IssuedFor
<1> QED
    BY <1>1, <1>2, <1>4, <1>5, <1>6, <1>7, FoundGoes

LEMMA FoundBegins ==
    ASSUME IInv, FoundInv, NEW r \in Request, NEW j \in JobType, NEW more, Begin(r, j), Issues(more),
           j.at # "reading", j.at = "polling" => j.kind = "poll",
           \A u \in more : u.by = r /\ IssuedFor(u, j)
    PROVE  FoundInv'
<1>1. /\ tasks' = tasks \cup more /\ job' = [job EXCEPT ![r] = j] /\ rows' = rows /\ restarts' = restarts
      /\ known' \subseteq known \cup (IF j.at = "reading" THEN j.found ELSE {})
      /\ job[r].at = "idle"
    BY DEF Begin, Issues, ghosts
<1>2. TasksOf(r) = {}
    BY <1>1, NothingIssued
<1>3. \A p : ~Seeks(job[r], p)
    BY <1>1 DEF Seeks
<1> QED
    BY <1>1, <1>2, <1>3, FoundGoes

LEMMA FoundStarts ==
    ASSUME IInv, FoundInv, NEW r \in Request, Starts(r)
    PROVE  FoundInv'
<1>1. ASSUME NEW j \in JobType, Begin(r, j), UNCHANGED tasks, j.at # "reading",
             j.at = "polling" => j.kind = "poll"
      PROVE  FoundInv'
  <2>1. PICK more : more = {}
    OBVIOUS
  <2>2. Issues(more)
    BY <1>1, <2>1 DEF Issues
  <2> QED
    BY <1>1, <2>1, <2>2, FoundBegins
<1>2. ASSUME NEW p \in Party, NEW isPrimary \in BOOLEAN, CreateWallet(r, p, isPrimary) PROVE FoundInv'
  <2> DEFINE j == [Idle EXCEPT !.kind = "create", !.party = p, !.primary = isPrimary,
                               !.at = IF External(p) THEN "asking" ELSE "allocating"]
  <2>1. Begin(r, j) /\ UNCHANGED tasks
    BY <1>2 DEF CreateWallet
  <2>2. j \in JobType /\ j.at \in {"asking", "allocating"}
    BY DEF Idle, JobType
  <2> HIDE DEF j
  <2> QED
    BY <1>1, <2>1, <2>2
<1>3. ASSUME NEW p \in Party, PollWallet(r, p) PROVE FoundInv'
  <2> DEFINE j == [Idle EXCEPT !.kind = "poll", !.at = "polling", !.party = p,
                               !.context = TRUE, !.tx = rows[p].tx]
  <2>1. Begin(r, j) /\ UNCHANGED tasks
    BY <1>3 DEF PollWallet
  <2>2. rows[p].tx \in BOOLEAN
    BY <1>3 DEF PollWallet, IInv, Rows, RowOrNone, Row, Stored
  <2>3. j \in JobType /\ j.kind = "poll" /\ j.at = "polling"
    BY <2>2 DEF Idle, JobType
  <2> HIDE DEF j
  <2> QED
    BY <1>1, <2>1, <2>3
<1>4. ASSUME NEW p \in Party, SetPrimary(r, p) PROVE FoundInv'
  <2> DEFINE j == [Idle EXCEPT !.kind = "setPrimary", !.at = "storing"]
             u == Task("setPrimary", r, p, NoRow)
  <2>1. Begin(r, j) /\ Issues({u})
    BY <1>4 DEF SetPrimary
  <2>2. j \in JobType /\ j.at = "storing"
    BY DEF Idle, JobType
  <2>3. u.by = r /\ u.op = "setPrimary"
    BY DEF Task
  <2> HIDE DEF j, u
  <2>4. PICK more : more = {u}
    OBVIOUS
  <2>5. \A w \in more : w.by = r /\ IssuedFor(w, j)
    BY <2>2, <2>3, <2>4 DEF IssuedFor
  <2> QED
    BY <2>1, <2>2, <2>4, <2>5, FoundBegins
<1>5. ASSUME SyncWallets(r) PROVE FoundInv'
  <2> DEFINE j == [Idle EXCEPT !.kind = "sync", !.at = "rights"]
  <2>1. Begin(r, j) /\ UNCHANGED tasks
    BY <1>5 DEF SyncWallets
  <2>2. j \in JobType /\ j.at = "rights"
    BY DEF Idle, JobType
  <2> HIDE DEF j
  <2> QED
    BY <1>1, <2>1, <2>2
<1> QED
    BY <1>2, <1>3, <1>4, <1>5 DEF Starts

LEMMA FoundContinues ==
    ASSUME IInv, FoundInv, NEW r \in Request, Continues(r)
    PROVE  FoundInv'
<1>1. job[r] \in JobType /\ GoodJob(job[r])
    BY JobOf
<1>2. CASE SignedAtOnce(r) \/ PollSaysSigned(r)
  <2> DEFINE j == [job[r] EXCEPT !.at = "allocating", !.tx = FALSE]
  <2>1. Goes(r, j) /\ UNCHANGED tasks /\ job[r].at \in {"asking", "polling"}
    BY <1>2 DEF SignedAtOnce, PollSaysSigned, AsksForTx
  <2>2. j \in JobType /\ j.at = "allocating"
    BY <1>1 DEF JobType
  <2> HIDE DEF j
  <2> QED
    BY <2>1, <2>2, NothingIssued, FoundEnds
<1>3. ASSUME NEW answer \in {"pending", "rejected", "none"}, Asked(r, answer) PROVE FoundInv'
  <2> DEFINE j == [job[r] EXCEPT !.status = "initialized", !.tx = answer # "none"]
  <2>1. StoreWallet(r, j) /\ job[r].at = "asking"
    BY <1>3 DEF Asked
  <2>2. j \in JobType /\ j.party \in Party
    BY <1>1, <2>1 DEF JobType, GoodJob
  <2> HIDE DEF j
  <2> QED
    BY <2>1, <2>2, NothingIssued, FoundStores
<1>4. CASE KeyFails(r) \/ LedgerFails(r) \/ Answered(r)
  <2>1. Goes(r, Idle) /\ UNCHANGED tasks
    BY <1>4 DEF KeyFails, LedgerFails, Answered, Throws
  <2>2. TasksOf(r) = {} /\ ~(job[r].at \in {"reading", "clearing"})
    BY <1>4, NothingIssued DEF KeyFails, LedgerFails, Answered
  <2>3. Idle \in JobType /\ Idle.at = "idle"
    BY IdleType DEF Idle
  <2> QED
    BY <2>1, <2>2, <2>3, FoundEnds
<1>5. CASE PollSaysPending(r)
  <2>1. StoreWallet(r, Polled(r)) /\ job[r].at = "polling"
    BY <1>5 DEF PollSaysPending, AsksForTx
  <2>2. Polled(r) \in JobType /\ Polled(r).party \in Party
    BY <1>1, <2>1, PolledType DEF GoodJob
  <2> QED
    BY <2>1, <2>2, NothingIssued, FoundStores
<1>6. CASE PollSaysNo(r)
  <2> DEFINE j == [Polled(r) EXCEPT !.at = "removing"]
             u == Task("remove", r, job[r].party, NoRow)
  <2>1. Goes(r, j) /\ Issues({u}) /\ job[r].at = "polling"
    BY <1>6 DEF PollSaysNo, AsksForTx
  <2>2. j \in JobType /\ j.at = "removing" /\ j.kind = "poll"
    <3>1. Polled(r).kind = "poll"
        BY <1>1, <2>1 DEF FoundInv, Polled, JobType
    <3> QED
        BY <3>1, PolledType DEF JobType
  <2>3. u.by = r /\ u.op = "remove"
    BY DEF Task
  <2> HIDE DEF j, u
  <2>4. PICK more : more = {u}
    OBVIOUS
  <2>5. \A w \in more : w.by = r /\ IssuedFor(w, j)
    BY <2>2, <2>3, <2>4 DEF IssuedFor
  <2>6. /\ tasks' = tasks \cup more /\ job' = [job EXCEPT ![r] = j] /\ rows' = rows
        /\ restarts' = restarts
        /\ known' \subseteq known \cup (IF j.at = "reading" THEN j.found ELSE {})
    BY <2>1, <2>4 DEF Goes, Issues, bounds
  <2>7. TasksOf(r) = {} /\ \A p : ~Seeks(job[r], p)
    BY <2>1, NothingIssued DEF Seeks
  <2> QED
    BY <2>2, <2>5, <2>6, <2>7, FoundGoes
<1>7. CASE WalletRemoved(r)
  <2>1. StoreWallet(r, job[r]) /\ job[r].at = "removing" /\ TasksOf(r) = {}
    BY <1>7 DEF WalletRemoved
  <2>2. job[r].party \in Party
    BY <1>1, <2>1 DEF GoodJob
  <2> QED
    BY <1>1, <2>1, <2>2, FoundStores
<1>8. ASSUME NEW q \in Party, PollStartsOver(r, q) PROVE FoundInv'
  <2> DEFINE j == [job[r] EXCEPT !.at = "asking", !.party = q]
  <2>1. Goes(r, j) /\ UNCHANGED tasks /\ job[r].at = "polling"
    BY <1>8 DEF PollStartsOver
  <2>2. j \in JobType /\ j.at = "asking"
    BY <1>1 DEF JobType
  <2> HIDE DEF j
  <2> QED
    BY <2>1, <2>2, NothingIssued, FoundEnds
<1>9. CASE AllocateParty(r)
  <2> DEFINE j == [job[r] EXCEPT !.at = "granting"]
  <2>1. Goes(r, j) \/ Goes(r, Idle)
    BY <1>9 DEF AllocateParty
  <2>2. UNCHANGED tasks /\ job[r].at = "allocating"
    BY <1>9 DEF AllocateParty
  <2>3. j \in JobType /\ j.at = "granting"
    BY <1>1 DEF JobType
  <2>4. Idle \in JobType /\ Idle.at = "idle"
    BY IdleType DEF Idle
  <2> HIDE DEF j
  <2>5. TasksOf(r) = {}
    BY <2>2, NothingIssued
  <2> QED
    BY <2>1, <2>2, <2>3, <2>4, <2>5, FoundEnds
<1>10. CASE GrantRights(r)
  <2> DEFINE j == [job[r] EXCEPT !.status = "allocated"]
  <2>1. StoreWallet(r, j) \/ (Goes(r, Idle) /\ UNCHANGED tasks)
    BY <1>10 DEF GrantRights
  <2>2. job[r].at = "granting" /\ TasksOf(r) = {}
    BY <1>10, NothingIssued DEF GrantRights
  <2>3. j \in JobType /\ j.party \in Party
    BY <1>1, <2>2 DEF JobType, GoodJob
  <2>4. Idle \in JobType /\ Idle.at = "idle"
    BY IdleType DEF Idle
  <2> HIDE DEF j
  <2>5. CASE StoreWallet(r, j)
    BY <2>2, <2>3, <2>5, FoundStores
  <2>6. CASE Goes(r, Idle) /\ UNCHANGED tasks
    BY <2>2, <2>4, <2>6, FoundEnds
  <2> QED
    BY <2>1, <2>5, <2>6
<1>11. CASE RightsRead(r)
  <2> DEFINE j == [job[r] EXCEPT !.at = "reading", !.found = RightsMap]
  <2>1. Goes(r, j) /\ UNCHANGED tasks /\ job[r].at = "rights"
    BY <1>11 DEF RightsRead
  <2>2. RightsMap \in SUBSET Party
    BY DEF IInv, Ledger
  <2>3. j \in JobType /\ j.at = "reading"
    BY <1>1, <2>2 DEF JobType
  <2> HIDE DEF j
  <2> QED
    BY <2>1, <2>3, NothingIssued, FoundEnds
<1>12. ASSUME NEW unmatched \in SUBSET NewParties(r), WalletsRead(r, unmatched) PROVE FoundInv'
  <2> DEFINE j == [job[r] EXCEPT !.at = "clearing", !.found = NewParties(r), !.unmatched = unmatched]
             more == {Task("remove", r, p, NoRow) : p \in SyncRemoves(r)}
  <2>1. Goes(r, j) /\ Issues(more) /\ job[r].at = "reading"
    BY <1>12 DEF WalletsRead
  <2>2. j.at = "clearing" /\ j.found = NewParties(r)
    BY <1>1 DEF JobType
  <2>3. \A u \in more : u.by = r /\ u.op = "remove" /\ u.party \in NewParties(r)
    BY DEF Task, SyncRemoves
  <2> HIDE DEF j, more
  <2>4. \A u \in more : u.by = r /\ IssuedFor(u, j)
    BY <2>2, <2>3 DEF IssuedFor
  <2>5. \A p : Seeks(job[r], p) => p \in Stored \/ Seeks(j, p)
    BY <2>2 DEF Seeks, NewParties
  <2>6. /\ tasks' = tasks \cup more /\ job' = [job EXCEPT ![r] = j] /\ rows' = rows
        /\ restarts' = restarts
        /\ known' \subseteq known \cup (IF j.at = "reading" THEN j.found ELSE {})
    BY <2>1 DEF Goes, Issues, bounds
  <2>7. TasksOf(r) = {}
    BY <2>1, NothingIssued
  <2>8. PICK w, k : w = more /\ k = j
    OBVIOUS
  <2> QED
    BY <2>2, <2>4, <2>5, <2>6, <2>7, <2>8, FoundGoes
<1>13. CASE DisabledCleared(r)
  <2> DEFINE j == [job[r] EXCEPT !.at = "adding"]
             more == {Task("add", r, p, SyncedRow(r, p)) : p \in Added(r)}
  <2>1. Goes(r, j) /\ Issues(more) /\ job[r].at = "clearing" /\ TasksOf(r) = {}
    BY <1>13 DEF DisabledCleared
  <2>2. j.at = "adding"
    BY <1>1 DEF JobType
  <2>3. /\ \A u \in more : u.by = r /\ u.op = "add"
        /\ \A p \in job[r].found : \E u \in more : u.op = "add" /\ u.party = p
    <3> DEFINE a(p) == Task("add", r, p, SyncedRow(r, p))
    <3>1. \A p : a(p).by = r /\ a(p).op = "add" /\ a(p).party = p
        BY DEF Task
    <3>2. \A u : u \in more <=> \E p \in job[r].found : u = a(p)
        BY DEF Added
    <3> HIDE DEF a, more
    <3> QED
        BY <3>1, <3>2
  <2> HIDE DEF j, more
  <2>4. PICK k : k = j
    OBVIOUS
  <2>5. PICK w : w = more
    OBVIOUS
  <2>6. \A u \in w : \/ u.by = NoRequest /\ u.op # "remove"
                     \/ u.by = r /\ IssuedFor(u, k)
    BY <2>2, <2>3, <2>4, <2>5 DEF IssuedFor
  <2>7. \A p : Seeks(job[r], p) =>
            \/ p \in Stored \/ Seeks(k, p)
            \/ \E u \in w : u.op = "add" /\ u.party = p
    BY <2>3, <2>5 DEF Seeks
  <2>8. /\ tasks' = tasks \cup w /\ job' = [job EXCEPT ![r] = k] /\ rows' = rows
        /\ restarts' = restarts
        /\ known' \subseteq known \cup (IF k.at = "reading" THEN k.found ELSE {})
    BY <2>1, <2>4, <2>5 DEF Goes, Issues, bounds
  <2>9. k.at = "polling" => k.kind = "poll"
    BY <2>2, <2>4
  <2> QED
    BY <2>1, <2>6, <2>7, <2>8, <2>9, FoundGoes
<1>14. CASE WalletsAdded(r)
  <2>1. Goes(r, Idle) /\ job[r].at = "adding" /\ TasksOf(r) = {}
    BY <1>14 DEF WalletsAdded
  <2>2. PICK more : /\ tasks' = tasks \cup more
                    /\ \A u \in more : u.by = NoRequest /\ u.op # "remove"
    <3>1. ASSUME NEW p \in Stored, Issues({Task("setPrimary", NoRequest, p, NoRow)})
          PROVE  \E more : /\ tasks' = tasks \cup more
                           /\ \A u \in more : u.by = NoRequest /\ u.op # "remove"
      <4>1. PICK u : u = Task("setPrimary", NoRequest, p, NoRow)
        OBVIOUS
      <4>2. u.by = NoRequest /\ u.op # "remove"
        BY <4>1 DEF Task
      <4>3. PICK more : more = {u}
        OBVIOUS
      <4>4. tasks' = tasks \cup more
        BY <3>1, <4>1, <4>3 DEF Issues
      <4> QED
        BY <4>2, <4>3, <4>4
    <3>2. CASE UNCHANGED tasks
      <4>1. PICK more : more = {}
        OBVIOUS
      <4>2. tasks' = tasks \cup more
        BY <3>2, <4>1
      <4> QED
        BY <4>1, <4>2
    <3> QED
        BY <1>14, <3>1, <3>2 DEF WalletsAdded
  <2>3. Idle.at = "idle" /\ \A p : ~Seeks(job[r], p)
    BY <2>1 DEF Idle, Seeks
  <2>4. /\ job' = [job EXCEPT ![r] = Idle] /\ rows' = rows /\ restarts' = restarts
        /\ known' \subseteq known \cup (IF Idle.at = "reading" THEN Idle.found ELSE {})
    BY <2>1, <2>3 DEF Goes, bounds
  <2>5. PICK k : k = Idle
    OBVIOUS
  <2> QED
    BY <2>1, <2>2, <2>3, <2>4, <2>5, FoundGoes
<1> QED
    BY <1>2, <1>3, <1>4, <1>5, <1>6, <1>7, <1>8, <1>9, <1>10, <1>11, <1>12, <1>13, <1>14 DEF Continues


(***************************************************************************)
(* A store operation throws that was not to remove a row, nor the only one *)
(* to add one.  Its request sought nothing any more; what else it has      *)
(* issued goes on for nobody.                                              *)
(***************************************************************************)
LEMMA FoundRejected ==
    ASSUME IInv, FoundInv, NEW t \in tasks, Rejected(t), UNCHANGED bounds, t.op # "remove",
           t.op \in {"add", "insert"} => t.party \in Stored
    PROVE  FoundInv'
<1>1. /\ tasks' = {IF u.by = t.by THEN Orphan(u) ELSE u : u \in tasks \ {t}}
      /\ job' = [r \in Request |-> IF r = t.by THEN Idle ELSE job[r]]
      /\ rows' = rows /\ known' = known /\ restarts' = restarts /\ Stored' = Stored
    BY DEF Rejected, ghosts, bounds, Stored
<1>2. /\ \A q \in Request : q = t.by => job'[q] = Idle
      /\ \A q \in Request : q # t.by => job'[q] = job[q]
    BY <1>1
<1>3. Idle.at = "idle"
    BY DEF Idle
<1>4. NoRequest \notin Request
    BY WalletsAssumption
<1>5. t.by \in Request => job[t.by].at \in {"storing", "adding"}
    BY <1>4 DEF FoundInv, Issued, IssuedFor
<1>6. \A u \in tasks : u.by = t.by => u.op # "remove"
    BY <1>4, <1>5 DEF FoundInv, Issued, IssuedFor
<1>7. \A u \in tasks : Orphan(u).by = NoRequest /\ Orphan(u).op = u.op /\ Orphan(u).party = u.party
    BY DEF IInv, Tasks, TaskType, Orphan
<1>8. ASSUME NEW u \in tasks'
      PROVE  Issued(u)'
  <2>1. PICK w \in tasks : u = IF w.by = t.by THEN Orphan(w) ELSE w
    BY <1>1
  <2>2. CASE w.by = t.by
    BY <1>6, <1>7, <2>1, <2>2 DEF Issued
  <2>3. CASE w.by # t.by
    BY <1>2, <2>1, <2>3 DEF FoundInv, Issued, IssuedFor
  <2> QED
    BY <2>2, <2>3
<1>9. ASSUME NEW p \in known', restarts' = 0
      PROVE  Sought(p)'
  <2>1. Sought(p)
    BY <1>1, <1>9 DEF FoundInv
  <2>2. CASE p \in Stored
    BY <1>1, <2>2 DEF Sought
  <2>3. ASSUME NEW u \in tasks, u.op \in {"add", "insert"}, u.party = p
        PROVE  Sought(p)'
    <3>1. CASE u = t
        BY <1>1, <2>3, <3>1 DEF Sought
    <3>2. CASE u # t /\ u.by = t.by
      <4>1. Orphan(u) \in tasks'
        BY <1>1, <3>2
      <4> QED
        BY <1>7, <2>3, <4>1 DEF Sought
    <3>3. CASE u # t /\ u.by # t.by
      <4>1. u \in tasks'
        BY <1>1, <3>3
      <4> QED
        BY <2>3, <4>1 DEF Sought
    <3> QED
        BY <3>1, <3>2, <3>3
  <2>4. ASSUME NEW q \in Request, Seeks(job[q], p)
        PROVE  Sought(p)'
    <3>1. q # t.by
        BY <1>5, <2>4 DEF Seeks
    <3> QED
        BY <1>2, <2>4, <3>1 DEF Sought, Seeks
  <2> QED
    BY <2>1, <2>2, <2>3, <2>4 DEF Sought
<1>10. \A q \in Request : job'[q].at = "polling" => job'[q].kind = "poll"
    BY <1>2, <1>3 DEF FoundInv
<1> QED
    BY <1>8, <1>9, <1>10 DEF FoundInv

\* A store operation ends that has removed nothing, or goes on as another one.
LEMMA FoundDone ==
    ASSUME IInv, FoundInv, NEW t \in tasks, NEW more, Done(t, more), UNCHANGED <<job, known, restarts>>,
           t.op # "remove", Stored \subseteq Stored',
           \A u \in more : u.by = t.by /\ u.op # "remove",
           t.op \in {"add", "insert"} =>
              t.party \in Stored' \/ \E u \in more : u.op = "insert" /\ u.party = t.party
    PROVE  FoundInv'
<1>1. tasks' = (tasks \ {t}) \cup more
    BY DEF Done
<1>2. ASSUME NEW u \in tasks'
      PROVE  Issued(u)'
  <2>1. CASE u \in tasks
    BY <2>1 DEF FoundInv, Issued, IssuedFor
  <2>2. CASE u \in more
    BY <2>2 DEF FoundInv, Issued, IssuedFor
  <2> QED
    BY <1>1, <2>1, <2>2
<1>3. ASSUME NEW p \in known', restarts' = 0
      PROVE  Sought(p)'
  <2>1. Sought(p)
    BY <1>3 DEF FoundInv
  <2>2. CASE p \in Stored
    BY <2>2 DEF Sought
  <2>3. ASSUME NEW u \in tasks, u.op \in {"add", "insert"}, u.party = p
        PROVE  Sought(p)'
    <3>1. CASE u = t
        BY <1>1, <2>3, <3>1 DEF Sought
    <3>2. CASE u # t
        BY <1>1, <2>3, <3>2 DEF Sought
    <3> QED
        BY <3>1, <3>2
  <2>4. CASE \E q \in Request : Seeks(job[q], p)
    BY <2>4 DEF Sought, Seeks
  <2> QED
    BY <2>1, <2>2, <2>3, <2>4 DEF Sought
<1>4. \A q \in Request : job'[q].at = "polling" => job'[q].kind = "poll"
    BY DEF FoundInv
<1> QED
    BY <1>2, <1>3, <1>4 DEF FoundInv

\* What a poll removes is no longer known; what a sync removes it seeks.
LEMMA FoundRemoves ==
    ASSUME IInv, FoundInv, NEW t \in tasks, RemoveWallet(t), UNCHANGED bounds
    PROVE  FoundInv'
<1>1. /\ t.op = "remove" /\ tasks' = tasks \ {t} /\ job' = job /\ restarts' = restarts
      /\ rows' = [rows EXCEPT ![t.party] = NoRow]
      /\ known' = IF job[t.by].kind = "poll" THEN known \ {t.party} ELSE known
    BY DEF RemoveWallet, Remover, Done, bounds
<1>2. \A p \in Stored : p # t.party => p \in Stored'
    BY <1>1 DEF IInv, Rows, Stored
<1>3. t.by \in Request /\ IssuedFor(t, job[t.by])
    BY <1>1 DEF FoundInv, Issued
<1>4. \A u \in tasks' : Issued(u)'
    BY <1>1 DEF FoundInv, Issued, IssuedFor
<1>5. ASSUME NEW p \in known', restarts' = 0
      PROVE  Sought(p)'
  <2>1. p \in known /\ Sought(p)
    BY <1>1, <1>5 DEF FoundInv
  <2>2. CASE p = t.party
    <3>1. job[t.by].kind # "poll"
        BY <1>1, <1>5, <2>2
    <3>2. Seeks(job[t.by], p)
        BY <1>1, <1>3, <2>2, <3>1 DEF IssuedFor, Seeks
    <3> QED
        BY <1>1, <1>3, <3>2 DEF Sought, Seeks
  <2>3. CASE p # t.party
    <3>1. CASE p \in Stored
        BY <1>2, <2>3, <3>1 DEF Sought
    <3>2. CASE \E u \in tasks : u.op \in {"add", "insert"} /\ u.party = p
        BY <1>1, <3>2 DEF Sought
    <3>3. CASE \E q \in Request : Seeks(job[q], p)
        BY <1>1, <3>3 DEF Sought, Seeks
    <3> QED
        BY <2>1, <3>1, <3>2, <3>3 DEF Sought
  <2> QED
    BY <2>2, <2>3
<1>6. \A q \in Request : job'[q].at = "polling" => job'[q].kind = "poll"
    BY <1>1 DEF FoundInv
<1> QED
    BY <1>4, <1>5, <1>6 DEF FoundInv


\* On SQLite a wallet takes over from whatever is primary: the index allows it.
LEMMA InsertHolds ==
    ASSUME OneConnection, PrimaryInv, NEW t \in tasks, t.op = "insert",
           NEW old \in TakesOver(t)
    PROVE  IndexHolds(Inserted(t, old))
<1>1. t.party \in Party /\ t.row \in Row /\ Rows
    BY DEF PrimaryInv, IInv, Tasks, TaskType, GoodTask
<1>2. old = PrimariesIn(rows)
    BY DEF TakesOver
<1>3. PICK table : table = Inserted(t, old)
    OBVIOUS
<1>4. PICK S : S = PrimariesIn(table)
    OBVIOUS
<1>5. CASE t.row.primary
  <2>1. table = [Unset(rows, old) EXCEPT ![t.party] = t.row]
    BY <1>3, <1>5 DEF Inserted
  <2>2. \A p \in Party \ {t.party} : table[p] = Unset(rows, old)[p]
    BY <2>1, <1>1, UnsetType DEF Rows
  <2>3. ASSUME NEW p \in Party \ {t.party}, table[p] # NoRow, table[p].primary PROVE FALSE
    <3>1. table[p] = IF p \in old /\ rows[p] # NoRow
                     THEN WithPrimary(rows[p], FALSE) ELSE rows[p]
        BY <2>2 DEF Unset
    <3>2. CASE p \in old
      <4>1. rows[p] # NoRow /\ rows[p] \in Row
        BY <1>1, <1>2, <3>2 DEF PrimariesIn, Rows, RowOrNone
      <4>2. PICK row \in Row : row = WithPrimary(rows[p], FALSE) /\ row.primary = FALSE
        BY <4>1, WithPrimaryType
      <4> QED
        BY <2>3, <3>1, <3>2, <4>1, <4>2
    <3>3. CASE p \notin old
        BY <1>2, <2>3, <3>1, <3>3 DEF PrimariesIn
    <3> QED
        BY <3>2, <3>3
  <2>4. S \subseteq {t.party}
    BY <1>4, <2>3 DEF PrimariesIn
  <2>5. IsFiniteSet({t.party}) /\ Cardinality({t.party}) = 1
    BY FS_Singleton
  <2>6. Cardinality(S) <= 1
    BY <2>4, <2>5, FS_Subset
  <2> QED
    BY <1>3, <1>4, <2>6 DEF IndexHolds
<1>6. CASE ~t.row.primary
  <2>1. table[t.party] = t.row /\ \A p \in Party \ {t.party} : table[p] = rows[p]
    BY <1>1, <1>3, <1>6, InsertedRows
  <2>2. PICK T : T = PrimariesIn(rows)
    OBVIOUS
  <2>3. S \subseteq T /\ T \subseteq Party
    BY <1>4, <1>6, <2>1, <2>2 DEF PrimariesIn
  <2>4. IsFiniteSet(T)
    BY <2>3, FS_Subset, WalletsAssumption
  <2>5. Cardinality(T) <= 1
    BY <2>2 DEF PrimaryInv, OnePrimary
  <2>6. Cardinality(S) <= Cardinality(T) /\ Cardinality(S) \in Nat /\ Cardinality(T) \in Nat
    BY <2>3, <2>4, FS_Subset, FS_CardinalityType
  <2>7. Cardinality(S) <= 1
    BY <2>5, <2>6
  <2> QED
    BY <1>3, <1>4, <2>7 DEF IndexHolds
<1> QED
    BY <1>5, <1>6

LEMMA FoundRuns ==
    ASSUME OneConnection, PrimaryInv, FoundInv, RunTask
    PROVE  FoundInv'
<1>1. PICK t \in tasks : \/ LookBeforeAdd(t) \/ InsertWallet(t) \/ LookBeforeSet(t)
                         \/ SwapPrimary(t) \/ RemoveWallet(t) \/ UpdateWallet(t)
    BY DEF RunTask
<1>2. IInv /\ UNCHANGED bounds /\ t \in TaskType /\ restarts' = restarts
    BY DEF RunTask, PrimaryInv, IInv, Tasks, bounds
<1>3. CASE LookBeforeAdd(t)
  <2>1. CASE t.party \in Stored /\ Rejected(t)
    BY <1>2, <1>3, <2>1, FoundRejected DEF LookBeforeAdd
  <2>2. CASE t.party \notin Stored
    <3>1. PICK u : u = [t EXCEPT !.op = "insert", !.row = FirstMadePrimary(t.row),
                                 !.old = PrimariesIn(rows)]
        OBVIOUS
    <3>2. PICK more : more = {u}
        OBVIOUS
    <3>3. Done(t, more) /\ UNCHANGED <<job, known, rows>> /\ t.op = "add"
        BY <1>3, <2>2, <3>1, <3>2 DEF LookBeforeAdd, ghosts
    <3>4. u.op = "insert" /\ u.by = t.by /\ u.party = t.party
        BY <1>2, <3>1 DEF TaskType
    <3>5. Stored' = Stored
        BY <3>3 DEF Stored
    <3>6. \A w \in more : w.by = t.by /\ w.op # "remove"
        BY <3>2, <3>4
    <3>7. \E w \in more : w.op = "insert" /\ w.party = t.party
        BY <3>2, <3>4
    <3> QED
        BY <1>2, <3>3, <3>5, <3>6, <3>7, FoundDone
  <2> QED
    BY <1>3, <2>1, <2>2 DEF LookBeforeAdd
<1>4. CASE InsertWallet(t)
  <2>1. CASE t.party \in Stored /\ Rejected(t)
    BY <1>2, <1>4, <2>1, FoundRejected DEF InsertWallet
  <2>2. CASE t.party \notin Stored
    <3>1. PICK old \in TakesOver(t) : \/ /\ rows' = Inserted(t, old) /\ Done(t, {})
                                         /\ UNCHANGED <<job, known>>
                                      \/ ~IndexHolds(Inserted(t, old))
        BY <1>4, <2>2 DEF InsertWallet, ghosts
    <3>2. t.op = "insert"
        BY <1>4 DEF InsertWallet
    <3>3. IndexHolds(Inserted(t, old))
        BY <3>2, InsertHolds
    <3>4. t.party \in Party /\ t.row \in Row /\ Rows
        BY <1>2, <3>2 DEF IInv, Tasks, TaskType, GoodTask
    <3>5. /\ rows'[t.party] = t.row
          /\ \A p \in Party \ {t.party} : rows'[p] = NoRow <=> rows[p] = NoRow
        BY <3>1, <3>3, <3>4, InsertedRows
    <3>6. Stored \subseteq Stored' /\ t.party \in Stored'
        BY <3>4, <3>5, NoRowIsNone DEF Stored
    <3>7. PICK more : more = {}
        OBVIOUS
    <3>8. Done(t, more) /\ UNCHANGED <<job, known>>
        BY <3>1, <3>3, <3>7
    <3> QED
        BY <1>2, <3>2, <3>6, <3>7, <3>8, FoundDone
  <2> QED
    BY <1>4, <2>1, <2>2 DEF InsertWallet
<1>5. CASE LookBeforeSet(t)
  <2>1. t.op = "setPrimary"
    BY <1>5 DEF LookBeforeSet
  <2>2. CASE Rejected(t)
    BY <1>2, <2>1, <2>2, FoundRejected
  <2>3. CASE ~Rejected(t)
    <3>1. PICK u : u = [t EXCEPT !.op = "swap", !.old = PrimariesIn(rows)]
        OBVIOUS
    <3>2. PICK more : more = {u}
        OBVIOUS
    <3>3. Done(t, more) /\ UNCHANGED <<job, known, rows>>
        BY <1>5, <2>3, <3>1, <3>2 DEF LookBeforeSet, ghosts
    <3>4. u.op = "swap" /\ u.by = t.by
        BY <1>2, <3>1 DEF TaskType
    <3>5. Stored' = Stored
        BY <3>3 DEF Stored
    <3>6. \A w \in more : w.by = t.by /\ w.op # "remove"
        BY <3>2, <3>4
    <3> QED
        BY <1>2, <2>1, <3>3, <3>5, <3>6, FoundDone
  <2> QED
    BY <2>2, <2>3
<1>6. CASE SwapPrimary(t)
  <2>1. t.op = "swap"
    BY <1>6 DEF SwapPrimary
  <2>2. CASE Rejected(t)
    BY <1>2, <2>1, <2>2, FoundRejected
  <2>3. CASE ~Rejected(t)
    <3>1. PICK more : more = {}
        OBVIOUS
    <3>2. rows' = Swapped(t) /\ Done(t, more) /\ UNCHANGED <<job, known>>
        BY <1>6, <2>3, <3>1 DEF SwapPrimary, ghosts
    <3>3. Rows
        BY <1>2 DEF IInv
    <3>4. Stored' = Stored
        BY <3>2, <3>3, SwappedRows DEF Stored
    <3> QED
        BY <1>2, <2>1, <3>1, <3>2, <3>4, FoundDone
  <2> QED
    BY <2>2, <2>3
<1>7. CASE RemoveWallet(t)
    BY <1>2, <1>7, FoundRemoves
<1>8. CASE UpdateWallet(t)
  <2>1. PICK more : more = {}
    OBVIOUS
  <2>2. t.op = "update" /\ Done(t, more) /\ UNCHANGED <<job, known>>
    BY <1>8, <2>1 DEF UpdateWallet, ghosts
  <2>3. Stored' = Stored
    <3>1. CASE t.party \in Stored
      <4>1. t.party \in Party /\ rows[t.party] \in Row /\ t.row \in Row
        BY <1>2, <2>2, <3>1 DEF IInv, Rows, RowOrNone, Stored, Tasks, GoodTask
      <4>2. PICK row \in Row : row = UpdatedRow(rows[t.party], t.row)
        BY <4>1, UpdatedRowType
      <4>3. rows' = [rows EXCEPT ![t.party] = row]
        BY <1>8, <3>1, <4>2 DEF UpdateWallet
      <4> QED
        BY <1>2, <3>1, <4>1, <4>2, <4>3, NoRowIsNone DEF IInv, Rows, Stored
    <3>2. CASE t.party \notin Stored
        BY <1>8, <3>2 DEF UpdateWallet, Stored
    <3> QED
        BY <3>1, <3>2
  <2> QED
    BY <1>2, <2>1, <2>2, <2>3, FoundDone
<1> QED
    BY <1>1, <1>3, <1>4, <1>5, <1>6, <1>7, <1>8

LEMMA FoundStep ==
    ASSUME OneConnection, PrimaryInv, FoundInv, [Next]_vars
    PROVE  FoundInv'
<1>1. IInv
    BY DEF PrimaryInv
<1>2. CASE RunTask
    BY <1>2, FoundRuns
<1>3. CASE \E r \in Request : Starts(r) \/ Continues(r)
    BY <1>1, <1>3, FoundStarts, FoundContinues
<1>4. CASE \/ \E p \in Party, answer \in {"signed", "rejected"} : ProviderDecides(p, answer)
           \/ UNCHANGED vars
  <2>1. UNCHANGED <<rows, tasks, job, known, restarts>>
    BY <1>4 DEF ProviderDecides, ghosts, bounds, vars
  <2> QED
    BY <2>1 DEF FoundInv, Issued, IssuedFor, Sought, Seeks, Stored
<1>5. CASE Restart
  <2>1. restarts \in Nat /\ restarts' = restarts + 1
    BY <1>1, <1>5, WalletsAssumption DEF IInv, Rest, Restart
  <2>2. restarts' # 0
    BY <2>1
  <2>3. tasks' = {} /\ \A r \in Request : job'[r] = Idle
    BY <1>5 DEF Restart
  <2>4. Idle.at = "idle"
    BY DEF Idle
  <2> QED
    BY <2>2, <2>3, <2>4 DEF FoundInv
<1> QED
    BY <1>2, <1>3, <1>4, <1>5 DEF Next

LEMMA FoundInit ==
    ASSUME Init
    PROVE  FoundInv
<1>1. Idle.at = "idle"
    BY DEF Idle
<1> QED
    BY <1>1 DEF Init, FoundInv

LEMMA FoundAlways ==
    ASSUME OneConnection
    PROVE  Spec => []FoundInv
<1>1. Init => FoundInv
    BY FoundInit
<1>2. PrimaryInv /\ FoundInv /\ [Next]_vars => FoundInv'
    BY FoundStep
<1> QED
    BY <1>1, <1>2, PrimaryAlways, PTL DEF Spec

\* On SQLite every party that a sync has found has a wallet when all requests
\* have come to rest: a sync that fails halfway, together with others that remove
\* and add the same wallets, leaves none behind.  On PostgreSQL it does not hold.
THEOREM FoundIsStoredAlways ==
    ASSUME OneConnection
    PROVE  Spec => []FoundIsStored
<1>1. FoundInv => FoundIsStored
  <2> SUFFICES ASSUME FoundInv, Quiet, restarts = 0, NEW p \in known PROVE p \in Stored
    BY DEF FoundIsStored
  <2>1. Sought(p) /\ tasks = {} /\ \A r \in Request : job[r].at = "idle"
    BY DEF FoundInv, Quiet
  <2> QED
    BY <2>1 DEF Sought, Seeks
<1> QED
    BY <1>1, FoundAlways, PTL

=============================================================================
