-------------------------- MODULE FireblocksDriver --------------------------
(***************************************************************************)
(* The Fireblocks signing driver (core/signing-fireblocks/src): it signs    *)
(* with the keys of a workspace's vaults, which it looks up and keeps, and  *)
(* reads the workspace's transactions in pages.  Requests interleave at     *)
(* their awaits and share what a handler keeps; a new configuration brings  *)
(* a new handler, while requests go on with theirs.                         *)
(*                                                                         *)
(* Fireblocks is external.  A vault's number is its derivation path, and    *)
(* its public key is the pair of its workspace and number.  Transactions    *)
(* are numbered in the order of their creation, and several may be created  *)
(* at the same time.                                                       *)
(***************************************************************************)
EXTENDS Integers, Sequences, FiniteSets

CONSTANTS
    User, Workspace, Config, None,
    Opens,      \* Opens[c][u]: the workspace of u's own API key, or None; and
    Default,    \* Default[c]: of the default key, or None
    First,      \* the configuration the driver is constructed with
    Vaults,     \* how many vaults each workspace has at first
    VaultLimit, TxLimit,    \* the sizes of Fireblocks' pages
    Works       \* bounds: who acts, and how much of each thing there is

ASSUME ConfigAssumption ==
    /\ None \notin User \cup Workspace /\ None \notin Workspace \X Nat /\ First \in Config
    /\ Opens \in [Config -> [User -> Workspace \cup {None}]]
    /\ Default \in [Config -> Workspace \cup {None}]
    /\ Vaults \in [Workspace -> Nat]
    /\ VaultLimit \in Nat \ {0} /\ TxLimit \in Nat \ {0}
    /\ Works \subseteq [users : SUBSET User, vaults : Nat, others : Nat, decisions : Nat,
                        signs : Nat, lists : Nat, configs : Nat, faults : Nat]

VARIABLES
    vaults,     \* vaults[w]: how many there are in workspace w
    txs,        \* the transactions of all workspaces
    clock,      \* the time of the latest
    handlers,   \* this.fireblocks, the last, and those it has replaced
    req,        \* req[u]: what u's request does
    work        \* what is left of one of the Works

fireblocks == <<vaults, txs, clock>>
vars == <<fireblocks, handlers, req, work>>

Key == Workspace \X Nat
KeyOf(t) == <<t.workspace, t.vault>>

\* asked and by are ghosts: the key a request has asked for, of which handler.
Tx == [workspace : Workspace, vault : Nat, created : Nat,
       status : {"pending", "signed", "rejected", "strange"},
       asked : Key \cup {None}, by : Nat]

\* Has the clients of a configuration and two caches: keyInfoByPublicKey, of
\* which the path counts, and publicKeyByDerivationPath.
Handler(own, default) ==
    [own |-> own, default |-> default, pathOf |-> <<>>, keyAt |-> <<>>]

\* getClient: the user's own, or else the default one.
Client(h, u) == IF h.own[u] # None THEN h.own[u] ELSE h.default

With(f, x, y) == [z \in DOMAIN f \cup {x} |-> IF z = x THEN y ELSE f[z]]

\* had is a ghost: how many vaults, or transactions, there were at its start.
Idle == [at |-> "idle", op |-> "none", h |-> 1, w |-> None, key |-> None, ids |-> {},
         after |-> 0, todo |-> {}, page |-> <<>>, before |-> 0, told |-> <<>>, had |-> 0]

Init ==
    /\ work \in Works
    /\ vaults = Vaults
    /\ txs = <<>> /\ clock = 2
    /\ handlers = <<Handler(Opens[First], Default[First])>>
    /\ req = [u \in User |-> Idle]

Spend(on) == work[on] > 0 /\ work' = [work EXCEPT ![on] = @ - 1]

-----------------------------------------------------------------------------
(* Fireblocks *)

AddVault(w) ==
    /\ Spend("vaults")
    /\ vaults' = [vaults EXCEPT ![w] = @ + 1]
    /\ UNCHANGED <<txs, clock, handlers, req>>

Create(w, v, status, asked, by) ==
    \E t \in {clock, clock + 1} :
        /\ txs' = Append(txs, [workspace |-> w, vault |-> v, created |-> t,
                               status |-> status, asked |-> asked, by |-> by])
        /\ clock' = t

\* Somebody else's transaction, which may not be a raw one ("strange").
CreateElsewhere(w, v, status) ==
    /\ Spend("others") /\ v <= vaults[w]
    /\ Create(w, v, status, None, 0)
    /\ UNCHANGED <<vaults, handlers, req>>

Decide(i, status) ==
    /\ txs[i].status = "pending" /\ Spend("decisions")
    /\ txs' = [txs EXCEPT ![i].status = status]
    /\ UNCHANGED <<vaults, clock, handlers, req>>

-----------------------------------------------------------------------------
(* The driver *)

\* validated.data has no defaultKeyInfo: the schema calls it defaultApiKey, which
\* the constructor of the handler does not read.  A configuration that differs only
\* in its apiPath opens the same workspaces and brings a new handler, too; one that
\* differs in nothing changes nothing.
MutantSetConfiguration(c) ==
    /\ Spend("configs")
    /\ handlers' = Append(handlers, [handlers[Len(handlers)] EXCEPT !.own = Opens[c],
                                                                     !.default = None])
    /\ UNCHANGED <<fireblocks, req>>
SetConfiguration(c) ==
    /\ Spend("configs")
    /\ handlers' = Append(handlers, Handler(Opens[c], None))
    /\ UNCHANGED <<fireblocks, req>>

Begin(u, op, at, key, ids, had) ==
    LET h == Len(handlers) IN
    /\ req[u].at \notin {"vaults", "lookup", "create", "page", "format"}
    /\ Client(handlers[h], u) # None
    /\ req' = [req EXCEPT ![u] = [Idle EXCEPT !.at = at, !.op = op, !.h = h,
                  !.w = Client(handlers[h], u), !.key = key, !.ids = ids, !.had = had]]
    /\ UNCHANGED <<fireblocks, handlers>>

MutantRefreshes(key) == handlers[Len(handlers)].pathOf = <<>>
Refreshes(key) == key \notin DOMAIN handlers[Len(handlers)].pathOf

Here(u) == Client(handlers[Len(handlers)], u)
SignTransaction(u, key) ==
    /\ Spend("signs") /\ Here(u) # None
    /\ Begin(u, "sign", IF Refreshes(key) THEN "vaults" ELSE "lookup",
             key, {}, vaults[Here(u)])

GetKeys(u) ==
    /\ Spend("signs") /\ Here(u) # None
    /\ Begin(u, "keys", "vaults", None, {}, vaults[Here(u)])

GetTransaction(u, i) ==
    /\ Spend("lists") /\ txs[i].workspace = Here(u)
    /\ Begin(u, "get", "page", None, {i}, Len(txs))

\* By ids, by a key, or by both.
GetTransactions(u, ids, key) ==
    /\ Spend("lists")
    /\ Begin(u, "list", "page", key, ids, Len(txs))

At(u, stage) == req[u].at = stage
Become(u, r) == req' = [req EXCEPT ![u] = r]

\* The next page of vaults: paging.after is its last one while there are more.
MutantLastVault(r) == r.after + VaultLimit
LastVault(r) == IF r.after + VaultLimit < vaults[r.w] THEN r.after + VaultLimit
                ELSE vaults[r.w]

VaultPage(u) ==
    /\ At(u, "vaults")
    /\ LET r == req[u] IN
       Become(u, [r EXCEPT !.todo = @ \cup (r.after + 1)..LastVault(r),
                           !.after = LastVault(r),
                           !.at = IF LastVault(r) < vaults[r.w] THEN @ ELSE "lookup"])
    /\ UNCHANGED <<fireblocks, handlers, work>>

\* lookupPublicKey: the cached key of the path, or the one in the client's workspace,
\* which does not change: that it is awaited makes no difference in one workspace.
Lookup(r, v) == IF v \in DOMAIN handlers[r.h].keyAt THEN handlers[r.h].keyAt[v] ELSE <<r.w, v>>
Keep(h, v, key) == [h EXCEPT !.keyAt = With(@, v, key)]
KeepPath(h, key, v) == [h EXCEPT !.pathOf = With(@, key, v)]

LookupVault(u) ==
    /\ At(u, "lookup") /\ req[u].todo # {}
    /\ LET r == req[u]
           v == CHOOSE x \in r.todo : \A y \in r.todo : x <= y
           key == Lookup(r, v)
       IN /\ Become(u, [r EXCEPT !.todo = @ \ {v}, !.told = Append(@, key)])
          /\ handlers' = [handlers EXCEPT ![r.h] = KeepPath(Keep(@, v, key), key, v)]
    /\ UNCHANGED <<fireblocks, work>>

VaultsKnown(u) ==
    /\ At(u, "lookup") /\ req[u].todo = {}
    /\ Become(u, [req[u] EXCEPT !.at =
          IF req[u].op = "keys" THEN "done"
          ELSE IF req[u].key \in DOMAIN handlers[req[u].h].pathOf THEN "create"
          ELSE "refused"])
    /\ UNCHANGED <<fireblocks, handlers, work>>

CreateTransaction(u) ==
    /\ At(u, "create")
    /\ LET r == req[u] IN
       /\ \E status \in {"pending", "signed"} :
             Create(r.w, handlers[r.h].pathOf[r.key], status, r.key, r.h)
       /\ Become(u, [r EXCEPT !.at = "done"])
    /\ UNCHANGED <<vaults, handlers, work>>

\* A page: the latest of those up to before, in the order of their creation, with
\* what they are by then.  before is inclusive, and 0 is none.
Eligible(r) ==
    {i \in DOMAIN txs : /\ txs[i].workspace = r.w
                        /\ r.before = 0 \/ txs[i].created <= r.before}

TxPages(r) ==
    {S \in SUBSET Eligible(r) :
        /\ \/ Cardinality(S) = TxLimit
           \/ S = Eligible(r) /\ Cardinality(S) < TxLimit
        /\ \A i \in S, j \in Eligible(r) \ S : txs[i].created >= txs[j].created}

TxPage(u) ==
    /\ At(u, "page")
    /\ \E S \in IF req[u].op = "get" THEN {req[u].ids} ELSE TxPages(req[u]) :
          Become(u, [req[u] EXCEPT !.page = [i \in S |-> txs[i].status],
                                   !.at = IF S = {} THEN "done" ELSE "format"])
    /\ UNCHANGED <<fireblocks, handlers, work>>

\* The next before, which is inclusive, too.
MutantBefore(t) == t.created
Before(t) == t.created - 1

\* What a list wants; and when it has all it can get.
Matches(r, i, key) == i \in r.ids \/ r.key = key
Complete(r, told) == r.op = "list" /\ r.key = None /\ Len(told) = Cardinality(r.ids)

MutantAdvance(r, i) ==
    IF r.page[i] = "strange" THEN r.before ELSE Before(txs[i])
Advance(r, i) == Before(txs[i])

\* formatTransaction: a signed transaction has its key with it, of another the key
\* is looked up; one that is not raw is passed over.
Format(u, i) ==
    LET r == req[u]
        rest == [j \in DOMAIN r.page \ {i} |-> r.page[j]]
        key == IF r.page[i] = "signed" THEN KeyOf(txs[i]) ELSE Lookup(r, txs[i].vault)
        told == IF r.page[i] # "strange" /\ Matches(r, i, key)
                THEN Append(r.told, [id |-> i, key |-> key]) ELSE r.told
        stage == IF r.page[i] # "strange" /\ Complete(r, told) THEN "done"
                 ELSE IF DOMAIN rest # {} THEN "format"
                 ELSE IF r.op = "get" THEN "done" ELSE "page"
    IN /\ \A j \in DOMAIN rest : txs[j].created <= txs[i].created
       /\ Become(u, [r EXCEPT !.at = stage, !.told = told, !.before = Advance(r, i),
                              !.page = IF stage = "format" THEN rest ELSE <<>>])
       /\ handlers' = IF r.page[i] \in {"signed", "strange"} THEN handlers
                      ELSE [handlers EXCEPT ![r.h] = Keep(@, txs[i].vault, key)]

FormatTransaction(u) ==
    /\ At(u, "format")
    /\ \E i \in DOMAIN req[u].page : Format(u, i)
    /\ UNCHANGED <<fireblocks, work>>

\* A request to Fireblocks fails; a transaction may have been created all the same.
Fails(u) ==
    /\ Spend("faults")
    /\ \/ req[u].at \in {"vaults", "create", "page", "format"}
       \/ At(u, "lookup") /\ req[u].todo # {}
    /\ Become(u, [req[u] EXCEPT !.at = "failed", !.page = <<>>, !.todo = {}])
    /\ \/ UNCHANGED <<txs, clock>>
       \/ /\ At(u, "create")
          /\ Create(req[u].w, handlers[req[u].h].pathOf[req[u].key], "pending",
                    req[u].key, req[u].h)
    /\ UNCHANGED <<vaults, handlers>>

GoesOn(u) ==
    \/ VaultPage(u) \/ LookupVault(u) \/ VaultsKnown(u) \/ CreateTransaction(u)
    \/ TxPage(u) \/ FormatTransaction(u)

Next ==
    \/ \E w \in Workspace : AddVault(w)
    \/ \E w \in Workspace : \E v \in 1..vaults[w], status \in {"pending", "strange"} :
          CreateElsewhere(w, v, status)
    \/ \E i \in DOMAIN txs, status \in {"signed", "rejected"} : Decide(i, status)
    \/ \E c \in Config : SetConfiguration(c)
    \/ \E u \in work.users :
          \/ GetKeys(u) \/ GoesOn(u) \/ Fails(u)
          \/ \E w \in Workspace : \E v \in 1..(vaults[w] + 1) : SignTransaction(u, <<w, v>>)
          \/ \E i \in DOMAIN txs : GetTransaction(u, i)
          \/ \E ids \in SUBSET DOMAIN txs : GetTransactions(u, ids, None)
          \/ \E w \in Workspace : \E v \in 1..vaults[w] : GetTransactions(u, {}, <<w, v>>)

\* Fireblocks answers, and requests go on.
Spec == Init /\ [][Next]_vars /\ \A u \in User : WF_vars(GoesOn(u))

-----------------------------------------------------------------------------

TypeOK ==
    /\ vaults \in [Workspace -> Nat] /\ txs \in Seq(Tx) /\ clock \in Nat
    /\ \A h \in DOMAIN handlers :
          /\ DOMAIN handlers[h].pathOf \subseteq Key
          /\ \A v \in DOMAIN handlers[h].keyAt : handlers[h].keyAt[v] \in Key
    /\ \A u \in User :
          /\ req[u].h \in DOMAIN handlers /\ req[u].w \in Workspace \cup {None}
          /\ req[u].at \in {"idle", "vaults", "lookup", "create", "page", "format",
                            "done", "refused", "failed"}
          /\ req[u].at # "idle" => req[u].after <= vaults[req[u].w]
          /\ req[u].before <= clock /\ DOMAIN req[u].page \subseteq DOMAIN txs

\* A handler whose users all open one workspace, as the gateway configures it.  The
\* caches know paths, not workspaces: with two the rest does not hold.
OneWorkspace(h) == \A u, v \in User : Client(handlers[h], u) = Client(handlers[h], v)

(***************************************************************************)
(* What a request has signed is signed with the key it asked for, whichever *)
(* keys the handler has kept and whichever configuration has come since.    *)
(***************************************************************************)
SignsWithKey ==
    \A i \in DOMAIN txs :
        txs[i].asked # None /\ OneWorkspace(txs[i].by) => txs[i].asked = KeyOf(txs[i])

(***************************************************************************)
(* A key whose vault was there when the request began is known: it is not   *)
(* refused, and a list of keys has it, and no key of another workspace.     *)
(***************************************************************************)
VaultsAreKnown ==
    \A u \in User :
        LET r == req[u]
            keys == {r.told[k] : k \in DOMAIN r.told}
        IN OneWorkspace(r.h) =>
           /\ r.at = "refused" => r.key \notin {<<r.w, v>> : v \in 1..r.had}
           /\ r.at = "done" /\ r.op = "keys" =>
                 /\ {<<r.w, v>> : v \in 1..r.had} \subseteq keys
                 /\ \A key \in keys : key[1] = r.w

Wanted(r) ==
    {i \in 1..r.had : /\ txs[i].workspace = r.w /\ txs[i].status # "strange"
                      /\ Matches(r, i, KeyOf(txs[i]))}
Tied(i) ==
    \E j \in DOMAIN txs \ {i} : /\ txs[j].workspace = txs[i].workspace
                                /\ txs[j].created = txs[i].created

(***************************************************************************)
(* A list of transactions that has come to its end tells every transaction  *)
(* that was there when it began and that it wants, once, with its key; only *)
(* one that was created at the same time as another may be missing.         *)
(***************************************************************************)
ListsAll ==
    \A u \in User :
        LET r == req[u] IN
        r.at = "done" /\ r.op \in {"get", "list"} /\ OneWorkspace(r.h) =>
            /\ \A i \in Wanted(r) : Tied(i) \/ \E k \in DOMAIN r.told : r.told[k].id = i
            /\ \A k, m \in DOMAIN r.told : r.told[k].id = r.told[m].id => k = m
            /\ \A k \in DOMAIN r.told : r.told[k].key = KeyOf(txs[r.told[k].id])

(***************************************************************************)
(* Every request comes to its end, whatever its pages hold.                 *)
(***************************************************************************)
RequestsEnd ==
    \A u \in User : []<>(req[u].at \in {"idle", "done", "refused", "failed"})

=============================================================================
