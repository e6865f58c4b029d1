----------------------- MODULE FireblocksDriverProofs -----------------------
(***************************************************************************)
(* Theorems about FireblocksDriver, for any users, workspaces, vaults,      *)
(* transactions, sizes of pages and configurations.                        *)
(***************************************************************************)
EXTENDS FireblocksDriver, FiniteSetTheorems, SequenceTheorems, TLAPS

Status == {"pending", "signed", "rejected", "strange"}
Stage == {"idle", "vaults", "lookup", "create", "page", "format", "done", "refused", "failed"}
Count == {"vaults", "others", "decisions", "signs", "lists", "configs", "faults"}

PathCache == UNION {[K -> Nat] : K \in SUBSET Key}
KeyCache == UNION {[V -> Key] : V \in SUBSET Nat}

HandlerType ==
    [own : [User -> Workspace \cup {None}], default : Workspace \cup {None},
     pathOf : PathCache, keyAt : KeyCache]

Found == [id : Nat, key : Key]
PageType == UNION {[S -> Status] : S \in SUBSET Nat}

ReqType ==
    [at : Stage, op : {"none", "sign", "keys", "get", "list"}, h : Nat,
     w : Workspace \cup {None}, key : Key \cup {None}, ids : SUBSET Nat, after : Nat,
     todo : SUBSET Nat, page : PageType, before : Nat, told : Seq(Key \cup Found), had : Nat]

WorkType ==
    [users : SUBSET User, vaults : Nat, others : Nat, decisions : Nat,
     signs : Nat, lists : Nat, configs : Nat, faults : Nat]

(***************************************************************************)
(* The inductive invariant.                                                *)
(*                                                                         *)
(* Both caches of a handler whose users open one workspace are right about  *)
(* it.  A request stays with the handler it began with, so it is enough     *)
(* that nothing a handler has kept is ever forgotten (HsGrow).             *)
(***************************************************************************)
Types ==
    /\ vaults \in [Workspace -> Nat] /\ txs \in Seq(Tx) /\ clock \in Nat
    /\ handlers \in Seq(HandlerType) /\ handlers # <<>>
    /\ req \in [User -> ReqType] /\ work \in WorkType

\* The workspace that all users of a handler open, if it is one.
Uniform(hd) == \A u, v \in User : Client(hd, u) = Client(hd, v)
GoodHandler(hd) ==
    Uniform(hd) => \A u \in User :
        /\ \A key \in DOMAIN hd.pathOf : key = <<Client(hd, u), hd.pathOf[key]>>
        /\ \A v \in DOMAIN hd.keyAt : hd.keyAt[v] = <<Client(hd, u), v>>
Caches == \A h \in DOMAIN handlers : GoodHandler(handlers[h])

Times == \A i \in DOMAIN txs : txs[i].created \in 2..clock

AskedIsKey(t, hs) ==
    t.asked # None =>
        t.by \in DOMAIN hs /\ (Uniform(hs[t.by]) => t.asked = KeyOf(t))
Asked == \A i \in DOMAIN txs : AskedIsKey(txs[i], handlers)

\* A request goes on in the workspace of its user, of its handler.
Home(u, r, hs, vs) ==
    /\ r.h \in DOMAIN hs
    /\ r.at # "idle" => /\ r.w \in Workspace /\ r.w = Client(hs[r.h], u)
                        /\ r.after <= vs[r.w]
                        /\ r.op \in {"sign", "keys"} => r.had <= vs[r.w]

(***************************************************************************)
(* Vaults are looked up in their order: those told and those to do are all  *)
(* that the pages brought, at least as many as there were at the start.  A  *)
(* signature that starts with its key's path known needs none of them.      *)
(***************************************************************************)
ToldKeys(r, hd) ==
    \A k \in DOMAIN r.told : r.told[k] = <<r.w, k>> /\ r.told[k] \in DOMAIN hd.pathOf
Enough(r, hd) == r.had <= r.after \/ (r.op = "sign" /\ r.key \in DOMAIN hd.pathOf)

VaultReq(r, hd) ==
    /\ r.at \in {"vaults", "lookup"} => r.op \in {"sign", "keys"}
    /\ r.at = "vaults" => r.told = <<>> /\ r.todo = 1..r.after
    /\ r.at = "lookup" => /\ r.todo = (Len(r.told) + 1)..r.after /\ Len(r.told) <= r.after
                          /\ Enough(r, hd)
    /\ r.at = "create" => r.op = "sign" /\ r.key \in DOMAIN hd.pathOf
    /\ r.op \in {"sign", "keys"} /\ Uniform(hd) => ToldKeys(r, hd)
    /\ r.op = "keys" /\ r.at = "done" => r.had <= Len(r.told)
    /\ r.at = "refused" /\ Uniform(hd) => r.key \notin {<<r.w, v>> : v \in 1..r.had}

(***************************************************************************)
(* A list tells transactions from the latest to the earliest: what it told  *)
(* is later than before, the page it formats is not, and what it wants is   *)
(* told, on the page, earlier than the page, or tied with another.          *)
(***************************************************************************)
TiedIn(tx, i) ==
    \E j \in DOMAIN tx \ {i} : tx[j].workspace = tx[i].workspace /\ tx[j].created = tx[i].created

ToldFound(r, hd, tx) ==
    \A k \in DOMAIN r.told :
        /\ r.told[k] \in Found /\ r.told[k].id \in DOMAIN tx
        /\ r.told[k].id \in r.ids \/ r.key = r.told[k].key
        /\ r.before # 0 /\ tx[r.told[k].id].created > r.before
        /\ Uniform(hd) => r.told[k].key = KeyOf(tx[r.told[k].id])
Once(r) == \A k, m \in DOMAIN r.told : r.told[k].id = r.told[m].id => k = m

OnPage(r, tx) ==
    \A j \in DOMAIN r.page :
        /\ j \in DOMAIN tx /\ tx[j].workspace = r.w
        /\ r.before = 0 \/ tx[j].created <= r.before + 1
        /\ \A k \in DOMAIN r.told : r.told[k].id # j
        /\ r.page[j] = "strange" <=> tx[j].status = "strange"

WantedOf(r, tx) ==
    {i \in 1..r.had : /\ tx[i].workspace = r.w /\ tx[i].status # "strange"
                      /\ Matches(r, i, KeyOf(tx[i]))}
ToldId(r, i) == \E k \in DOMAIN r.told : r.told[k].id = i
Ahead(r, tx, i) ==
    \/ r.at = "page" /\ (r.before = 0 \/ tx[i].created <= r.before)
    \/ r.at = "format" /\ i \in DOMAIN r.page
    \/ r.at = "format" /\ r.op = "list" /\ \A j \in DOMAIN r.page : tx[i].created <= tx[j].created
Covered(r, tx) == \A i \in WantedOf(r, tx) : TiedIn(tx, i) \/ ToldId(r, i) \/ Ahead(r, tx, i)

ListReq(r, hd, tx) ==
    /\ r.at # "format" => DOMAIN r.page = {}
    /\ r.at \in {"page", "format"} => r.op \in {"get", "list"}
    /\ r.before = 0 \/ \E i \in DOMAIN tx : r.before < tx[i].created
    /\ r.op \in {"get", "list"} =>
        /\ r.had <= Len(tx) /\ r.ids \subseteq DOMAIN tx
        /\ ToldFound(r, hd, tx) /\ Once(r) /\ OnPage(r, tx)
        /\ r.op = "get" => /\ r.key = None /\ \E i \in DOMAIN tx : r.ids = {i} /\ tx[i].workspace = r.w
                           /\ r.at \in {"page", "format"} => r.before = 0
                           /\ r.at = "format" => DOMAIN r.page = r.ids
        /\ Uniform(hd) /\ r.at # "failed" => Covered(r, tx)

GoodRequest(u, r, hs, vs, tx) ==
    Home(u, r, hs, vs) /\ VaultReq(r, hs[r.h]) /\ ListReq(r, hs[r.h], tx)
Requests == \A u \in User : GoodRequest(u, req[u], handlers, vaults, txs)

IInv == Types /\ clock >= 2 /\ Times /\ Caches /\ Asked /\ Requests

-----------------------------------------------------------------------------
(* What other requests see: handlers, vaults and transactions grow         *)

HdGrows(hd, hd2) ==
    hd2.own = hd.own /\ hd2.default = hd.default /\ DOMAIN hd.pathOf \subseteq DOMAIN hd2.pathOf
HsGrow(hs, hs2) == \A h \in DOMAIN hs : h \in DOMAIN hs2 /\ HdGrows(hs[h], hs2[h])

VsGrow(vs, vs2) == \A w \in Workspace : vs[w] <= vs2[w]

TxKeeps(t, t2) ==
    /\ t2.workspace = t.workspace /\ t2.vault = t.vault /\ t2.created = t.created
    /\ t2.asked = t.asked /\ t2.by = t.by
    /\ t2.status = "strange" <=> t.status = "strange"
TxGrows(tx, tx2) == Len(tx) <= Len(tx2) /\ \A i \in DOMAIN tx : i \in DOMAIN tx2 /\ TxKeeps(tx[i], tx2[i])

LEMMA SeqElement ==
    ASSUME NEW S, NEW s \in Seq(S), NEW i \in DOMAIN s
    PROVE  s[i] \in S /\ i \in Nat /\ i \in 1..Len(s)
  OBVIOUS

LEMMA UniformKeeps ==
    ASSUME NEW hd, NEW hd2, HdGrows(hd, hd2)
    PROVE  (Uniform(hd2) <=> Uniform(hd)) /\ \A u \in User : Client(hd2, u) = Client(hd, u)
  BY DEF HdGrows, Uniform, Client

LEMMA HomeKeeps ==
    ASSUME NEW u \in User, NEW r \in ReqType, NEW hs, NEW hs2, HsGrow(hs, hs2),
           NEW vs \in [Workspace -> Nat], NEW vs2 \in [Workspace -> Nat], VsGrow(vs, vs2),
           Home(u, r, hs, vs)
    PROVE  Home(u, r, hs2, vs2)
  <1>1. r.h \in DOMAIN hs /\ r.h \in DOMAIN hs2 /\ HdGrows(hs[r.h], hs2[r.h]) BY DEF Home, HsGrow
  <1>2. Client(hs2[r.h], u) = Client(hs[r.h], u) BY <1>1, UniformKeeps
  <1>3. ASSUME r.at # "idle" PROVE r.w \in Workspace /\ vs[r.w] \in Nat /\ vs2[r.w] \in Nat /\ vs[r.w] <= vs2[r.w]
    BY <1>3 DEF Home, VsGrow
  <1>4. r.after \in Nat /\ r.had \in Nat BY DEF ReqType
  <1> QED BY <1>1, <1>2, <1>3, <1>4 DEF Home

LEMMA VaultReqKeeps ==
    ASSUME NEW r, NEW hd, NEW hd2, HdGrows(hd, hd2), VaultReq(r, hd)
    PROVE  VaultReq(r, hd2)
  <1>1. Uniform(hd2) <=> Uniform(hd) BY UniformKeeps
  <1>2. DOMAIN hd.pathOf \subseteq DOMAIN hd2.pathOf BY DEF HdGrows
  <1>3. Enough(r, hd) => Enough(r, hd2) BY <1>2 DEF Enough
  <1>4. ToldKeys(r, hd) => ToldKeys(r, hd2) BY <1>2 DEF ToldKeys
  <1> QED BY <1>1, <1>2, <1>3, <1>4 DEF VaultReq

LEMMA ListReqKeeps ==
    ASSUME NEW r \in ReqType, NEW hd, NEW hd2, HdGrows(hd, hd2),
           NEW tx \in Seq(Tx), NEW tx2 \in Seq(Tx), TxGrows(tx, tx2), ListReq(r, hd, tx)
    PROVE  ListReq(r, hd2, tx2)
  <1>0. Uniform(hd2) <=> Uniform(hd) BY UniformKeeps
  <1>1. Len(tx) \in Nat /\ Len(tx2) \in Nat /\ Len(tx) <= Len(tx2) /\ r.had \in Nat BY DEF TxGrows, ReqType
  <1>2. DOMAIN tx \subseteq DOMAIN tx2 /\ DOMAIN tx = 1..Len(tx) BY DEF TxGrows
  <1>3. \A i \in DOMAIN tx : TxKeeps(tx[i], tx2[i]) /\ KeyOf(tx2[i]) = KeyOf(tx[i])
    BY DEF TxGrows, TxKeeps, KeyOf
  <1>4. r.before = 0 \/ \E i \in DOMAIN tx2 : r.before < tx2[i].created
    BY <1>2, <1>3 DEF ListReq, TxKeeps
  <1>5. CASE r.op \in {"get", "list"}
    <2>1. ToldFound(r, hd2, tx2) BY <1>0, <1>2, <1>3, <1>5 DEF ListReq, ToldFound, TxKeeps
    <2>2. OnPage(r, tx2) BY <1>2, <1>3, <1>5 DEF ListReq, OnPage, TxKeeps
    <2>3. ASSUME Uniform(hd2), r.at # "failed" PROVE Covered(r, tx2)
      <3>1. Covered(r, tx) BY <1>0, <1>5, <2>3 DEF ListReq
      <3>2. SUFFICES ASSUME NEW i \in WantedOf(r, tx2)
                     PROVE TiedIn(tx2, i) \/ ToldId(r, i) \/ Ahead(r, tx2, i)
        BY DEF Covered
      <3>3. i \in DOMAIN tx BY <1>1, <1>2, <1>5 DEF WantedOf, ListReq
      <3>4. i \in WantedOf(r, tx) BY <1>3, <3>3 DEF WantedOf, TxKeeps
      <3>5. TiedIn(tx, i) => TiedIn(tx2, i) BY <1>2, <1>3, <3>3 DEF TiedIn, TxKeeps
      <3>6. Ahead(r, tx, i) => Ahead(r, tx2, i)
        <4>1. r.at = "format" => DOMAIN r.page \subseteq DOMAIN tx BY <1>5 DEF ListReq, OnPage
        <4> QED BY <1>3, <3>3, <4>1 DEF Ahead, TxKeeps
      <3> QED BY <3>1, <3>4, <3>5, <3>6 DEF Covered
    <2>4. r.op = "get" => \E i \in DOMAIN tx2 : r.ids = {i} /\ tx2[i].workspace = r.w
      BY <1>2, <1>3, <1>5 DEF ListReq, TxKeeps
    <2>5. r.had <= Len(tx2) /\ r.ids \subseteq DOMAIN tx2 BY <1>1, <1>2, <1>5 DEF ListReq
    <2> QED BY <1>4, <1>5, <2>1, <2>2, <2>3, <2>4, <2>5 DEF ListReq
  <1>6. CASE r.op \notin {"get", "list"} BY <1>4, <1>6 DEF ListReq
  <1> QED BY <1>5, <1>6

\* A request that others overtake is still what it was.
LEMMA RequestKeeps ==
    ASSUME NEW u \in User, NEW r \in ReqType, NEW hs, NEW hs2, HsGrow(hs, hs2),
           NEW vs \in [Workspace -> Nat], NEW vs2 \in [Workspace -> Nat], VsGrow(vs, vs2),
           NEW tx \in Seq(Tx), NEW tx2 \in Seq(Tx), TxGrows(tx, tx2),
           GoodRequest(u, r, hs, vs, tx)
    PROVE  GoodRequest(u, r, hs2, vs2, tx2)
  <1>1. HdGrows(hs[r.h], hs2[r.h]) BY DEF GoodRequest, Home, HsGrow
  <1> QED BY <1>1, HomeKeeps, VaultReqKeeps, ListReqKeeps DEF GoodRequest

LEMMA Same ==
    ASSUME NEW hs \in Seq(HandlerType), NEW vs \in [Workspace -> Nat], NEW tx \in Seq(Tx)
    PROVE  HsGrow(hs, hs) /\ VsGrow(vs, vs) /\ TxGrows(tx, tx)
  BY DEF HsGrow, HdGrows, VsGrow, TxGrows, TxKeeps

\* A step of one request.
LEMMA OneRequest ==
    ASSUME IInv, NEW u \in User, NEW r \in ReqType, req' = [req EXCEPT ![u] = r],
           handlers' \in Seq(HandlerType), HsGrow(handlers, handlers'),
           vaults' = vaults, txs' \in Seq(Tx), TxGrows(txs, txs'),
           GoodRequest(u, r, handlers', vaults', txs')
    PROVE  req' \in [User -> ReqType] /\ Requests'
  <1>1. /\ req \in [User -> ReqType] /\ req' \in [User -> ReqType]
        /\ txs \in Seq(Tx) /\ vaults \in [Workspace -> Nat] /\ handlers \in Seq(HandlerType)
    BY DEF IInv, Types
  <1>2. ASSUME NEW x \in User PROVE GoodRequest(x, req'[x], handlers', vaults', txs')
    <2>1. CASE x = u BY <1>1, <2>1
    <2>2. CASE x # u
      <3>1. req'[x] = req[x] /\ req[x] \in ReqType BY <1>1, <2>2
      <3>2. GoodRequest(x, req[x], handlers, vaults, txs) BY DEF IInv, Requests
      <3>3. VsGrow(vaults, vaults') /\ vaults' \in [Workspace -> Nat] BY <1>1, Same
      <3> QED BY <1>1, <3>1, <3>2, <3>3, RequestKeeps
    <2> QED BY <2>1, <2>2
  <1> QED BY <1>1, <1>2 DEF Requests

\* A step of Fireblocks or of the configuration.
LEMMA NoRequest ==
    ASSUME IInv, UNCHANGED req,
           handlers' \in Seq(HandlerType), HsGrow(handlers, handlers'),
           vaults' \in [Workspace -> Nat], VsGrow(vaults, vaults'),
           txs' \in Seq(Tx), TxGrows(txs, txs')
    PROVE  Requests'
  <1>1. /\ req \in [User -> ReqType]
        /\ txs \in Seq(Tx) /\ vaults \in [Workspace -> Nat] /\ handlers \in Seq(HandlerType)
    BY DEF IInv, Types
  <1>2. ASSUME NEW x \in User PROVE GoodRequest(x, req'[x], handlers', vaults', txs')
    BY <1>1, RequestKeeps DEF IInv, Requests
  <1> QED BY <1>2 DEF Requests

-----------------------------------------------------------------------------
(* Handlers and what they keep *)

LEMMA WithTypes ==
    /\ \A f \in PathCache, key \in Key, v \in Nat : With(f, key, v) \in PathCache
    /\ \A f \in KeyCache, v \in Nat, key \in Key : With(f, v, key) \in KeyCache
  <1>1. ASSUME NEW f \in PathCache, NEW key \in Key, NEW v \in Nat PROVE With(f, key, v) \in PathCache
    <2>1. PICK K \in SUBSET Key : f \in [K -> Nat] BY <1>1 DEF PathCache
    <2>2. With(f, key, v) \in [K \cup {key} -> Nat] BY <1>1, <2>1 DEF With
    <2>3. K \cup {key} \in SUBSET Key BY <1>1
    <2> QED BY <2>2, <2>3 DEF PathCache
  <1>2. ASSUME NEW f \in KeyCache, NEW v \in Nat, NEW key \in Key PROVE With(f, v, key) \in KeyCache
    <2>1. PICK V \in SUBSET Nat : f \in [V -> Key] BY <1>2 DEF KeyCache
    <2>2. With(f, v, key) \in [V \cup {v} -> Key] BY <1>2, <2>1 DEF With
    <2>3. V \cup {v} \in SUBSET Nat BY <1>2
    <2> QED BY <2>2, <2>3 DEF KeyCache
  <1> QED BY <1>1, <1>2

LEMMA CacheTypes ==
    ASSUME NEW hd \in HandlerType
    PROVE  /\ DOMAIN hd.pathOf \subseteq Key /\ \A key \in DOMAIN hd.pathOf : hd.pathOf[key] \in Nat
           /\ DOMAIN hd.keyAt \subseteq Nat /\ \A v \in DOMAIN hd.keyAt : hd.keyAt[v] \in Key
           /\ \A u \in User : Client(hd, u) \in Workspace \cup {None}
  <1>1. hd.pathOf \in PathCache /\ hd.keyAt \in KeyCache BY DEF HandlerType
  <1>2. PICK K \in SUBSET Key : hd.pathOf \in [K -> Nat] BY <1>1 DEF PathCache
  <1>3. PICK V \in SUBSET Nat : hd.keyAt \in [V -> Key] BY <1>1 DEF KeyCache
  <1>4. \A u \in User : Client(hd, u) \in Workspace \cup {None} BY DEF HandlerType, Client
  <1> QED BY <1>2, <1>3, <1>4

LEMMA NewHandler ==
    ASSUME NEW own \in [User -> Workspace \cup {None}], NEW default \in Workspace \cup {None}
    PROVE  Handler(own, default) \in HandlerType /\ GoodHandler(Handler(own, default))
  <1>1. <<>> \in PathCache
    <2>1. <<>> \in [{} -> Nat] OBVIOUS
    <2> QED BY <2>1 DEF PathCache
  <1>2. <<>> \in KeyCache
    <2>1. <<>> \in [{} -> Key] OBVIOUS
    <2> QED BY <2>1 DEF KeyCache
  <1>3. DOMAIN Handler(own, default).pathOf = {} /\ DOMAIN Handler(own, default).keyAt = {}
    BY DEF Handler
  <1> QED BY <1>1, <1>2, <1>3 DEF Handler, HandlerType, GoodHandler

\* lookupPublicKey, if all users open one workspace: the key of that workspace's vault.
LEMMA LookupKey ==
    ASSUME NEW u \in User, NEW r \in ReqType, r.h \in DOMAIN handlers, r.w \in Workspace,
           r.w = Client(handlers[r.h], u), NEW v \in Nat,
           handlers \in Seq(HandlerType), Caches
    PROVE  Lookup(r, v) \in Key /\ (Uniform(handlers[r.h]) => Lookup(r, v) = <<r.w, v>>)
  <1>1. handlers[r.h] \in HandlerType BY SeqElement
  <1>2. \A x \in DOMAIN handlers[r.h].keyAt : handlers[r.h].keyAt[x] \in Key BY <1>1, CacheTypes
  <1>3. <<r.w, v>> \in Key BY DEF Key
  <1>4. GoodHandler(handlers[r.h]) BY DEF Caches
  <1> QED BY <1>2, <1>3, <1>4 DEF Lookup, GoodHandler

\* Keeping the right key of a path keeps a handler right.
LEMMA KeepKey ==
    ASSUME NEW hd \in HandlerType, NEW v \in Nat, NEW key \in Key, GoodHandler(hd),
           Uniform(hd) => \A u \in User : key = <<Client(hd, u), v>>
    PROVE  /\ Keep(hd, v, key) \in HandlerType /\ HdGrows(hd, Keep(hd, v, key))
           /\ GoodHandler(Keep(hd, v, key))
  <1> DEFINE hd2 == Keep(hd, v, key)
  <1>1. /\ hd2.own = hd.own /\ hd2.default = hd.default /\ hd2.pathOf = hd.pathOf
        /\ hd2.keyAt = With(hd.keyAt, v, key)
    BY DEF Keep, HandlerType
  <1>2. hd2 \in HandlerType BY WithTypes DEF Keep, HandlerType
  <1>3. HdGrows(hd, hd2) BY <1>1 DEF HdGrows
  <1>4. (Uniform(hd2) <=> Uniform(hd)) /\ \A u \in User : Client(hd2, u) = Client(hd, u)
    BY <1>3, UniformKeeps
  <1>5. \A x \in DOMAIN hd2.keyAt : \/ x = v /\ hd2.keyAt[x] = key
                                    \/ x \in DOMAIN hd.keyAt /\ hd2.keyAt[x] = hd.keyAt[x]
    BY <1>1 DEF With
  <1>6. GoodHandler(hd2)
    <2> HIDE DEF hd2
    <2> QED BY <1>1, <1>4, <1>5 DEF GoodHandler
  <1> QED BY <1>2, <1>3, <1>6

\* And so does keeping its path with it.
LEMMA KeepsPath ==
    ASSUME NEW hd \in HandlerType, NEW v \in Nat, NEW key \in Key, GoodHandler(hd),
           Uniform(hd) => \A u \in User : key = <<Client(hd, u), v>>,
           NEW hd2, hd2 = KeepPath(hd, key, v)
    PROVE  /\ hd2 \in HandlerType /\ HdGrows(hd, hd2) /\ GoodHandler(hd2)
           /\ key \in DOMAIN hd2.pathOf
  <1>1. /\ hd2.own = hd.own /\ hd2.default = hd.default /\ hd2.keyAt = hd.keyAt
        /\ hd2.pathOf = With(hd.pathOf, key, v)
    BY DEF KeepPath, HandlerType
  <1>2. hd2 \in HandlerType BY WithTypes DEF KeepPath, HandlerType
  <1>3. HdGrows(hd, hd2) /\ key \in DOMAIN hd2.pathOf BY <1>1 DEF HdGrows, With
  <1>4. (Uniform(hd2) <=> Uniform(hd)) /\ \A u \in User : Client(hd2, u) = Client(hd, u)
    BY <1>3, UniformKeeps
  <1>5. \A x \in DOMAIN hd2.pathOf : \/ x = key /\ hd2.pathOf[x] = v
                                     \/ x \in DOMAIN hd.pathOf /\ hd2.pathOf[x] = hd.pathOf[x]
    BY <1>1 DEF With
  <1>6. GoodHandler(hd2) BY <1>1, <1>4, <1>5 DEF GoodHandler
  <1> QED BY <1>2, <1>3, <1>6

\* A handler that keeps more, in place.
LEMMA HandlerReplaced ==
    ASSUME IInv, NEW h \in DOMAIN handlers, NEW hd \in HandlerType,
           HdGrows(handlers[h], hd), GoodHandler(hd), handlers' = [handlers EXCEPT ![h] = hd]
    PROVE  /\ handlers' \in Seq(HandlerType) /\ handlers' # <<>> /\ HsGrow(handlers, handlers')
           /\ Caches' /\ handlers'[h] = hd
  <1>1. handlers \in Seq(HandlerType) /\ handlers # <<>> BY DEF IInv, Types
  <1>2. handlers' \in Seq(HandlerType) /\ DOMAIN handlers' = DOMAIN handlers /\ handlers'[h] = hd
    BY <1>1
  <1>3. \A g \in DOMAIN handlers \ {h} : handlers'[g] = handlers[g] BY <1>1
  <1>4. HsGrow(handlers, handlers') BY <1>2, <1>3 DEF HsGrow, HdGrows
  <1>5. Caches' BY <1>2, <1>3 DEF IInv, Caches
  <1>6. handlers' # <<>> BY <1>1, <1>2
  <1> QED BY <1>2, <1>4, <1>5, <1>6

\* What was asked of a handler stays right while handlers grow.
LEMMA AskedKeeps ==
    ASSUME IInv, HsGrow(handlers, handlers'), UNCHANGED txs
    PROVE  Asked'
  <1>1. SUFFICES ASSUME NEW i \in DOMAIN txs, txs[i].asked # None
                 PROVE /\ txs[i].by \in DOMAIN handlers'
                       /\ Uniform(handlers'[txs[i].by]) => txs[i].asked = KeyOf(txs[i])
    BY DEF Asked, AskedIsKey
  <1>2. txs[i].by \in DOMAIN handlers /\ (Uniform(handlers[txs[i].by]) => txs[i].asked = KeyOf(txs[i]))
    BY <1>1 DEF IInv, Asked, AskedIsKey
  <1>3. txs[i].by \in DOMAIN handlers' /\ HdGrows(handlers[txs[i].by], handlers'[txs[i].by])
    BY <1>2 DEF HsGrow
  <1> QED BY <1>2, <1>3, UniformKeeps

-----------------------------------------------------------------------------
(* Fireblocks *)

LEMMA SpendType ==
    ASSUME work \in WorkType, NEW on \in Count, Spend(on) PROVE work' \in WorkType
  <1>1. work[on] \in Nat \ {0} BY DEF WorkType, Count, Spend
  <1>2. work' = [work EXCEPT ![on] = work[on] - 1] BY DEF Spend
  <1>3. PICK n \in Nat : n = work[on] - 1 BY <1>1
  <1>4. work' = [work EXCEPT ![on] = n] BY <1>2, <1>3
  <1> QED BY <1>4 DEF WorkType, Count

\* A transaction that is created keeps the others, and tells the key it was asked
\* to be signed with if it was signed with that one.
LEMMA CreateStep ==
    ASSUME IInv, NEW w \in Workspace, NEW v \in Nat, NEW status \in Status,
           NEW asked \in Key \cup {None}, NEW by \in Nat, Create(w, v, status, asked, by),
           asked # None => by \in DOMAIN handlers /\ (Uniform(handlers[by]) => asked = <<w, v>>),
           UNCHANGED handlers
    PROVE  /\ txs' \in Seq(Tx) /\ clock' \in Nat /\ clock' >= 2 /\ TxGrows(txs, txs')
           /\ Times' /\ Asked'
  <1>1. txs \in Seq(Tx) /\ clock \in Nat /\ clock >= 2 BY DEF IInv, Types
  <1>2. PICK t \in {clock, clock + 1} :
           /\ txs' = Append(txs, [workspace |-> w, vault |-> v, created |-> t,
                                  status |-> status, asked |-> asked, by |-> by])
           /\ clock' = t
    BY DEF Create
  <1>3. PICK n : n = [workspace |-> w, vault |-> v, created |-> t,
                      status |-> status, asked |-> asked, by |-> by] OBVIOUS
  <1>4. t \in Nat /\ t >= 2 /\ clock <= t BY <1>1, <1>2
  <1>5. n \in Tx BY <1>3, <1>4 DEF Tx, Status
  <1>6. txs' = Append(txs, n) BY <1>2, <1>3
  <1>7. txs' \in Seq(Tx) /\ Len(txs') = Len(txs) + 1 /\ \A i \in DOMAIN txs : txs'[i] = txs[i]
    BY <1>1, <1>5, <1>6
  <1>8. TxGrows(txs, txs') BY <1>1, <1>7 DEF TxGrows, TxKeeps
  <1>9. \A i \in DOMAIN txs' : txs'[i] = n \/ (i \in DOMAIN txs /\ txs'[i] = txs[i])
    BY <1>1, <1>5, <1>6
  <1>10. Times'
    <2>1. n.created \in 2..clock' BY <1>2, <1>3, <1>4
    <2>2. \A i \in DOMAIN txs : txs[i].created \in 2..clock'
      BY <1>1, <1>2, <1>4 DEF IInv, Times
    <2> QED BY <1>9, <2>1, <2>2 DEF Times
  <1>11. Asked'
    <2>1. AskedIsKey(n, handlers) BY <1>3 DEF AskedIsKey, KeyOf
    <2> QED BY <1>9, <2>1 DEF IInv, Asked
  <1> QED BY <1>2, <1>4, <1>7, <1>8, <1>10, <1>11

LEMMA AddVaultStep ==
    ASSUME IInv, NEW w \in Workspace, AddVault(w) PROVE IInv'
  <1>1. Types BY DEF IInv
  <1>2. vaults' \in [Workspace -> Nat] /\ VsGrow(vaults, vaults') BY <1>1 DEF AddVault, Types, VsGrow
  <1>3. work' \in WorkType BY <1>1, SpendType DEF AddVault, Types, Count
  <1>4. UNCHANGED <<txs, clock, handlers, req>> BY DEF AddVault
  <1>5. HsGrow(handlers, handlers') /\ TxGrows(txs, txs') BY <1>1, <1>4, Same DEF Types
  <1>6. Requests' BY <1>1, <1>2, <1>4, <1>5, NoRequest DEF Types
  <1> QED BY <1>1, <1>2, <1>3, <1>4, <1>6 DEF IInv, Types, Times, Caches, Asked

LEMMA CreateElsewhereStep ==
    ASSUME IInv, NEW w \in Workspace, NEW v \in 1..vaults[w], NEW status \in {"pending", "strange"},
           CreateElsewhere(w, v, status)
    PROVE  IInv'
  <1>1. Types BY DEF IInv
  <1>2. work' \in WorkType BY <1>1, SpendType DEF CreateElsewhere, Types, Count
  <1>3. UNCHANGED <<vaults, handlers, req>> BY DEF CreateElsewhere
  <1>4. v \in Nat /\ status \in Status BY <1>1 DEF Types, Status
  <1>5. /\ txs' \in Seq(Tx) /\ clock' \in Nat /\ clock' >= 2 /\ TxGrows(txs, txs')
        /\ Times' /\ Asked'
    BY <1>3, <1>4, CreateStep DEF CreateElsewhere
  <1>6. HsGrow(handlers, handlers') /\ VsGrow(vaults, vaults') BY <1>1, <1>3, Same DEF Types
  <1>7. Requests' BY <1>1, <1>3, <1>5, <1>6, NoRequest DEF Types
  <1> QED BY <1>1, <1>2, <1>3, <1>5, <1>7 DEF IInv, Types, Caches

LEMMA DecideStep ==
    ASSUME IInv, NEW i \in DOMAIN txs, NEW status \in {"signed", "rejected"}, Decide(i, status)
    PROVE  IInv'
  <1>1. Types BY DEF IInv
  <1>2. work' \in WorkType BY <1>1, SpendType DEF Decide, Types, Count
  <1>3. UNCHANGED <<vaults, clock, handlers, req>> BY DEF Decide
  <1>4. txs \in Seq(Tx) /\ \A j \in DOMAIN txs : txs[j] \in Tx BY <1>1, SeqElement DEF Types
  <1>5. PICK n : n = [txs[i] EXCEPT !.status = status] OBVIOUS
  <1>6. /\ n \in Tx /\ TxKeeps(txs[i], n) BY <1>4, <1>5 DEF Tx, TxKeeps, Decide
  <1>7. txs' = [txs EXCEPT ![i] = n] BY <1>5 DEF Decide
  <1>8. /\ txs' \in Seq(Tx) /\ DOMAIN txs' = DOMAIN txs /\ Len(txs') = Len(txs)
        /\ \A j \in DOMAIN txs : TxKeeps(txs[j], txs'[j])
    BY <1>4, <1>6, <1>7 DEF TxKeeps
  <1>9. TxGrows(txs, txs') BY <1>4, <1>8 DEF TxGrows
  <1>10. Times' BY <1>3, <1>8 DEF IInv, Times, TxKeeps
  <1>11. Asked' BY <1>3, <1>8 DEF IInv, Asked, AskedIsKey, TxKeeps, KeyOf
  <1>12. HsGrow(handlers, handlers') /\ VsGrow(vaults, vaults') BY <1>1, <1>3, Same DEF Types
  <1>13. Requests' BY <1>1, <1>3, <1>8, <1>9, <1>12, NoRequest DEF Types
  <1> QED BY <1>1, <1>2, <1>3, <1>8, <1>10, <1>11, <1>13 DEF IInv, Types, Caches

-----------------------------------------------------------------------------
(* The driver *)

\* A new configuration adds a handler; requests stay with theirs.
LEMMA SetConfigurationStep ==
    ASSUME IInv, NEW c \in Config, SetConfiguration(c) PROVE IInv'
  <1>1. Types BY DEF IInv
  <1>2. work' \in WorkType BY <1>1, SpendType DEF SetConfiguration, Types, Count
  <1>3. UNCHANGED <<vaults, txs, clock, req>> BY DEF SetConfiguration, fireblocks
  <1>4. PICK hd : hd = Handler(Opens[c], None) OBVIOUS
  <1>5. hd \in HandlerType /\ GoodHandler(hd) BY <1>4, ConfigAssumption, NewHandler
  <1>6. handlers' = Append(handlers, hd) BY <1>4 DEF SetConfiguration
  <1>7. /\ handlers' \in Seq(HandlerType) /\ handlers' # <<>>
        /\ \A h \in DOMAIN handlers : h \in DOMAIN handlers' /\ handlers'[h] = handlers[h]
        /\ \A h \in DOMAIN handlers' : handlers'[h] = hd \/ (h \in DOMAIN handlers /\ handlers'[h] = handlers[h])
    BY <1>1, <1>5, <1>6 DEF Types
  <1>8. HsGrow(handlers, handlers') BY <1>7 DEF HsGrow, HdGrows
  <1>9. Caches' BY <1>5, <1>7 DEF IInv, Caches
  <1>10. Asked' BY <1>3, <1>8, AskedKeeps
  <1>11. VsGrow(vaults, vaults') /\ TxGrows(txs, txs') BY <1>1, <1>3, Same DEF Types
  <1>12. Requests' BY <1>1, <1>3, <1>7, <1>8, <1>11, NoRequest DEF Types
  <1> QED BY <1>1, <1>2, <1>3, <1>7, <1>9, <1>10, <1>12 DEF IInv, Types, Times

-----------------------------------------------------------------------------
(* Requests *)

\* What may be said of a request that begins, in workspace w, with handler hd.
Begins(op, at, key, ids, had, hd, w) ==
    \/ at = "vaults" /\ op \in {"sign", "keys"} /\ had = vaults[w]
    \/ at = "lookup" /\ op = "sign" /\ had = vaults[w] /\ key \in DOMAIN hd.pathOf
    \/ at = "page" /\ op = "list" /\ had = Len(txs)
    \/ /\ at = "page" /\ op = "get" /\ had = Len(txs) /\ key = None
       /\ \E i \in DOMAIN txs : ids = {i} /\ txs[i].workspace = w

LEMMA IdleType ==
    /\ Idle \in ReqType /\ Idle.at = "idle" /\ Idle.op = "none" /\ Idle.h = 1
    /\ Idle.after = 0 /\ Idle.todo = {} /\ Idle.page = <<>> /\ Idle.before = 0 /\ Idle.told = <<>>
  <1>1. <<>> \in PageType
    <2>1. <<>> \in [{} -> Status] OBVIOUS
    <2> QED BY <2>1 DEF PageType
  <1>2. <<>> \in Seq(Key \cup Found) OBVIOUS
  <1> QED BY <1>1, <1>2 DEF Idle, ReqType, Stage

LEMMA BeginStep ==
    ASSUME IInv, NEW u \in User, NEW op, NEW at, NEW key \in Key \cup {None},
           NEW ids \in SUBSET DOMAIN txs, NEW had,
           Begin(u, op, at, key, ids, had), work' \in WorkType,
           Here(u) # None => Begins(op, at, key, ids, had, handlers[Len(handlers)], Here(u))
    PROVE  IInv'
  <1>1. Types BY DEF IInv
  <1>2. PICK h : h = Len(handlers) OBVIOUS
  <1>3. h \in DOMAIN handlers /\ h \in Nat BY <1>1, <1>2 DEF Types
  <1>4. PICK hd \in HandlerType : hd = handlers[h] BY <1>1, <1>3, SeqElement DEF Types
  <1>5. PICK w : w = Client(hd, u) OBVIOUS
  <1>6. w # None /\ w = Here(u) BY <1>2, <1>4, <1>5 DEF Begin, Here
  <1>7. w \in Workspace BY <1>4, <1>5, <1>6, CacheTypes
  <1>8. Begins(op, at, key, ids, had, hd, w) BY <1>2, <1>4, <1>6
  <1>9. had \in Nat /\ at \in {"vaults", "lookup", "page"} /\ op \in {"sign", "keys", "get", "list"}
    BY <1>1, <1>7, <1>8 DEF Begins, Types
  <1>10. PICK r : r = [Idle EXCEPT !.at = at, !.op = op, !.h = h, !.w = w, !.key = key,
                                   !.ids = ids, !.had = had]
    OBVIOUS
  <1>11. req' = [req EXCEPT ![u] = r] BY <1>2, <1>4, <1>5, <1>10 DEF Begin
  <1>12. /\ r \in ReqType
         /\ r.at = at /\ r.op = op /\ r.h = h /\ r.w = w /\ r.key = key /\ r.ids = ids
         /\ r.had = had /\ r.after = 0 /\ r.todo = {} /\ r.page = <<>> /\ r.before = 0
         /\ r.told = <<>>
    <2>1. /\ Idle \in ReqType /\ Idle.after = 0 /\ Idle.todo = {} /\ Idle.page = <<>>
          /\ Idle.before = 0 /\ Idle.told = <<>>
      BY IdleType
    <2>2. ids \in SUBSET Nat /\ at \in Stage BY <1>1, <1>9 DEF Types, Stage
    <2>3. r \in ReqType BY <1>3, <1>7, <1>9, <1>10, <2>1, <2>2 DEF ReqType
    <2> QED BY <1>10, <2>1, <2>3 DEF ReqType
  <1>13. UNCHANGED <<vaults, txs, clock, handlers>> BY DEF Begin, fireblocks
  <1>14. HsGrow(handlers, handlers') /\ TxGrows(txs, txs') BY <1>1, <1>13, Same DEF Types
  <1>15. DOMAIN r.page = {} /\ DOMAIN r.told = {} /\ Len(r.told) = 0 BY <1>12
  <1>16. Home(u, r, handlers, vaults)
    <2>1. vaults[w] \in Nat BY <1>1, <1>7 DEF Types
    <2>2. op \in {"sign", "keys"} => had = vaults[w] BY <1>8 DEF Begins
    <2> QED BY <1>3, <1>4, <1>5, <1>7, <1>12, <2>1, <2>2 DEF Home
  <1>17. VaultReq(r, hd)
    BY <1>8, <1>9, <1>12, <1>15 DEF VaultReq, Begins, Enough, ToldKeys
  <1>18. ListReq(r, hd, txs)
    <2>1. ToldFound(r, hd, txs) /\ Once(r) /\ OnPage(r, txs) BY <1>15 DEF ToldFound, Once, OnPage
    <2>2. op \in {"get", "list"} => Covered(r, txs)
      BY <1>8, <1>12 DEF Begins, Covered, Ahead
    <2>3. op \in {"get", "list"} => had <= Len(txs) BY <1>1, <1>8 DEF Begins, Types
    <2> QED BY <1>8, <1>9, <1>12, <2>1, <2>2, <2>3 DEF ListReq, Begins
  <1>19. GoodRequest(u, r, handlers, vaults, txs) BY <1>4, <1>12, <1>16, <1>17, <1>18 DEF GoodRequest
  <1>20. req' \in [User -> ReqType] /\ Requests'
    BY <1>1, <1>11, <1>12, <1>13, <1>14, <1>19, OneRequest DEF Types
  <1> QED BY <1>1, <1>13, <1>20 DEF IInv, Types, Times, Caches, Asked

LEMMA BeginSteps ==
    ASSUME IInv, NEW u \in User,
           \/ GetKeys(u)
           \/ \E w \in Workspace : \E v \in 1..(vaults[w] + 1) : SignTransaction(u, <<w, v>>)
           \/ \E i \in DOMAIN txs : GetTransaction(u, i)
           \/ \E ids \in SUBSET DOMAIN txs : GetTransactions(u, ids, None)
           \/ \E w \in Workspace : \E v \in 1..vaults[w] : GetTransactions(u, {}, <<w, v>>)
    PROVE  IInv'
  <1>1. Types BY DEF IInv
  <1>2. \A w \in Workspace : vaults[w] \in Nat BY <1>1 DEF Types
  <1>3. CASE GetKeys(u)
    <2>1. work' \in WorkType BY <1>1, <1>3, SpendType DEF GetKeys, Types, Count
    <2> QED BY <1>3, <2>1, BeginStep DEF GetKeys, Begins
  <1>4. ASSUME NEW w \in Workspace, NEW v \in 1..(vaults[w] + 1), SignTransaction(u, <<w, v>>)
        PROVE  IInv'
    <2>1. work' \in WorkType BY <1>1, <1>4, SpendType DEF SignTransaction, Types, Count
    <2>2. PICK key \in Key : key = <<w, v>> BY <1>2, <1>4 DEF Key
    <2>3. PICK at : at = IF Refreshes(key) THEN "vaults" ELSE "lookup" OBVIOUS
    <2>4. Begin(u, "sign", at, key, {}, vaults[Here(u)]) BY <1>4, <2>2, <2>3 DEF SignTransaction
    <2>5. Begins("sign", at, key, {}, vaults[Here(u)], handlers[Len(handlers)], Here(u))
      BY <2>3 DEF Begins, Refreshes
    <2> QED BY <2>1, <2>4, <2>5, BeginStep
  <1>5. ASSUME NEW i \in DOMAIN txs, GetTransaction(u, i) PROVE IInv'
    <2>1. work' \in WorkType BY <1>1, <1>5, SpendType DEF GetTransaction, Types, Count
    <2>2. Begins("get", "page", None, {i}, Len(txs), handlers[Len(handlers)], Here(u))
      BY <1>5 DEF Begins, GetTransaction
    <2> QED BY <1>5, <2>1, <2>2, BeginStep DEF GetTransaction
  <1>6. ASSUME NEW ids \in SUBSET DOMAIN txs, NEW key \in Key \cup {None}, GetTransactions(u, ids, key)
        PROVE  IInv'
    <2>1. work' \in WorkType BY <1>1, <1>6, SpendType DEF GetTransactions, Types, Count
    <2>2. Begins("list", "page", key, ids, Len(txs), handlers[Len(handlers)], Here(u)) BY DEF Begins
    <2> QED BY <1>6, <2>1, <2>2, BeginStep DEF GetTransactions
  <1>7. ASSUME NEW w \in Workspace, NEW v \in 1..vaults[w], GetTransactions(u, {}, <<w, v>>)
        PROVE  IInv'
    <2>1. PICK key \in Key : key = <<w, v>> BY <1>2, <1>7 DEF Key
    <2>2. GetTransactions(u, {}, key) BY <1>7, <2>1
    <2> QED BY <2>2, <1>6
  <1> QED BY <1>3, <1>4, <1>5, <1>6, <1>7

\* A request that goes on, as far as it changes nothing but itself.
LEMMA Alone ==
    ASSUME IInv, NEW u \in User, NEW r \in ReqType, Become(u, r),
           UNCHANGED <<vaults, txs, clock, handlers>>, work' \in WorkType,
           GoodRequest(u, r, handlers, vaults, txs)
    PROVE  IInv'
  <1>1. Types BY DEF IInv
  <1>2. req' = [req EXCEPT ![u] = r] BY DEF Become
  <1>3. HsGrow(handlers, handlers') /\ TxGrows(txs, txs') BY <1>1, Same DEF Types
  <1>4. GoodRequest(u, r, handlers', vaults', txs') OBVIOUS
  <1>5. req' \in [User -> ReqType] /\ Requests' BY <1>1, <1>2, <1>3, <1>4, OneRequest DEF Types
  <1> QED BY <1>1, <1>5 DEF IInv, Types, Times, Caches, Asked

\* What a request that is under way has to do with.
LEMMA Context ==
    ASSUME IInv, NEW u \in User, NEW r, r = req[u]
    PROVE  /\ r \in ReqType /\ GoodRequest(u, r, handlers, vaults, txs)
           /\ r.h \in DOMAIN handlers /\ handlers[r.h] \in HandlerType /\ GoodHandler(handlers[r.h])
           /\ r.at # "idle" => r.w \in Workspace /\ vaults[r.w] \in Nat /\ r.w = Client(handlers[r.h], u)
  <1>1. r \in ReqType /\ GoodRequest(u, r, handlers, vaults, txs) BY DEF IInv, Types, Requests
  <1>2. r.h \in DOMAIN handlers /\ (r.at # "idle" => r.w \in Workspace /\ r.w = Client(handlers[r.h], u))
    BY <1>1 DEF GoodRequest, Home
  <1>3. handlers[r.h] \in HandlerType BY <1>2, SeqElement DEF IInv, Types
  <1>4. GoodHandler(handlers[r.h]) BY <1>2 DEF IInv, Caches
  <1>5. \A w \in Workspace : vaults[w] \in Nat BY DEF IInv, Types
  <1> QED BY <1>1, <1>2, <1>3, <1>4, <1>5

\* A page of vaults adds the next ones to those to look up.
LEMMA VaultPageStep ==
    ASSUME IInv, NEW u \in User, VaultPage(u) PROVE IInv'
  <1>1. PICK r : r = req[u] OBVIOUS
  <1>2. PICK hd : hd = handlers[r.h] OBVIOUS
  <1>3. /\ r \in ReqType /\ GoodRequest(u, r, handlers, vaults, txs) /\ r.at = "vaults"
        /\ r.h \in DOMAIN handlers /\ r.w \in Workspace /\ vaults[r.w] \in Nat
        /\ r.w = Client(hd, u)
    BY <1>1, <1>2, Context DEF VaultPage, At
  <1>4. PICK last : last = LastVault(r) OBVIOUS
  <1>5. /\ r.after \in Nat /\ r.had \in Nat /\ r.after <= vaults[r.w] /\ r.had <= vaults[r.w]
        /\ r.op \in {"sign", "keys"} /\ r.told = <<>> /\ r.todo = 1..r.after
    BY <1>3 DEF GoodRequest, Home, VaultReq, ReqType
  <1>6. last \in Nat /\ r.after <= last /\ last <= vaults[r.w]
    BY <1>3, <1>4, <1>5, ConfigAssumption DEF LastVault
  <1>7. PICK at : at = IF last < vaults[r.w] THEN "vaults" ELSE "lookup" OBVIOUS
  <1>8. PICK r2 : r2 = [r EXCEPT !.todo = r.todo \cup (r.after + 1)..last, !.after = last, !.at = at]
    OBVIOUS
  <1>9. Become(u, r2) BY <1>1, <1>3, <1>4, <1>7, <1>8 DEF VaultPage
  <1>10. r.todo \cup (r.after + 1)..last = 1..last BY <1>5, <1>6
  <1>11. /\ r2 \in ReqType /\ r2.todo = 1..last /\ r2.after = last /\ r2.at = at /\ r2.h = r.h
         /\ r2.w = r.w /\ r2.op = r.op /\ r2.had = r.had /\ r2.told = r.told /\ r2.key = r.key
         /\ r2.page = r.page /\ r2.before = r.before
    <2>1. r2 = [r EXCEPT !.todo = 1..last, !.after = last, !.at = at] BY <1>8, <1>10
    <2>2. at \in Stage /\ 1..last \in SUBSET Nat BY <1>6, <1>7 DEF Stage
    <2>3. r2 \in ReqType BY <1>3, <1>6, <2>1, <2>2 DEF ReqType
    <2> QED BY <1>3, <2>1, <2>3 DEF ReqType
  <1>12. Home(u, r2, handlers, vaults)
    BY <1>3, <1>2, <1>5, <1>6, <1>7, <1>11 DEF Home
  <1>13. VaultReq(r2, hd)
    <2>1. ToldKeys(r2, hd) BY <1>5, <1>11 DEF ToldKeys
    <2>2. at = "lookup" => r.had <= last BY <1>3, <1>5, <1>6, <1>7
    <2>3. Len(r2.told) = 0 BY <1>5, <1>11
    <2> QED BY <1>5, <1>6, <1>7, <1>11, <2>1, <2>2, <2>3 DEF VaultReq, Enough
  <1>14. ListReq(r2, hd, txs)
    BY <1>2, <1>3, <1>5, <1>7, <1>11 DEF ListReq, GoodRequest
  <1>15. GoodRequest(u, r2, handlers, vaults, txs) BY <1>2, <1>11, <1>12, <1>13, <1>14 DEF GoodRequest
  <1>16. UNCHANGED <<vaults, txs, clock, handlers>> /\ work' \in WorkType
    BY DEF VaultPage, fireblocks, IInv, Types
  <1> QED BY <1>9, <1>11, <1>15, <1>16, Alone

\* The next vault to look up is the one after those told.
LEMMA LookupVaultStep ==
    ASSUME IInv, NEW u \in User, LookupVault(u) PROVE IInv'
  <1>0. Types BY DEF IInv
  <1>1. PICK r : r = req[u] OBVIOUS
  <1>2. PICK hd : hd = handlers[r.h] OBVIOUS
  <1>3. /\ r \in ReqType /\ GoodRequest(u, r, handlers, vaults, txs) /\ r.at = "lookup" /\ r.todo # {}
        /\ r.h \in DOMAIN handlers /\ r.w \in Workspace /\ vaults[r.w] \in Nat
        /\ r.w = Client(hd, u) /\ hd \in HandlerType /\ GoodHandler(hd)
    BY <1>1, <1>2, Context DEF LookupVault, At
  <1>4. PICK n : n = Len(r.told) + 1 OBVIOUS
  <1>5. /\ r.after \in Nat /\ r.told \in Seq(Key \cup Found) /\ n \in Nat /\ r.todo = n..r.after
        /\ r.op \in {"sign", "keys"} /\ Enough(r, hd) /\ (Uniform(hd) => ToldKeys(r, hd))
    BY <1>2, <1>3, <1>4 DEF GoodRequest, VaultReq, ReqType
  <1>6. n <= r.after BY <1>3, <1>5
  <1>7. PICK v : v = CHOOSE x \in r.todo : \A y \in r.todo : x <= y OBVIOUS
  <1>8. v = n
    <2>1. n \in r.todo /\ \A y \in r.todo : n <= y BY <1>5, <1>6
    <2>2. v \in r.todo /\ \A y \in r.todo : v <= y BY <1>7, <2>1
    <2> QED BY <1>5, <2>1, <2>2
  <1>9. PICK key : key = Lookup(r, n) OBVIOUS
  <1>10. key \in Key /\ (Uniform(hd) => key = <<r.w, n>>)
    BY <1>0, <1>2, <1>3, <1>5, <1>9, LookupKey DEF IInv, Types
  <1>11. PICK r2 : r2 = [r EXCEPT !.todo = r.todo \ {n}, !.told = Append(r.told, key)] OBVIOUS
  <1>12. PICK hk : hk = Keep(hd, n, key) OBVIOUS
  <1>13. PICK h2 : h2 = KeepPath(hk, key, n) OBVIOUS
  <1>14. Become(u, r2) /\ handlers' = [handlers EXCEPT ![r.h] = h2]
    <2>1. /\ Become(u, [r EXCEPT !.todo = @ \ {n}, !.told = Append(@, key)])
          /\ handlers' = [handlers EXCEPT ![r.h] = KeepPath(Keep(@, n, key), key, n)]
      BY <1>1, <1>7, <1>8, <1>9 DEF LookupVault
    <2>2. Become(u, r2) BY <1>3, <1>11, <2>1
    <2> QED BY <1>2, <1>12, <1>13, <2>1, <2>2
  <1>15. Uniform(hd) => \A x \in User : key = <<Client(hd, x), n>>
    BY <1>3, <1>10 DEF Uniform
  <1>16. hk \in HandlerType /\ HdGrows(hd, hk) /\ GoodHandler(hk)
    BY <1>3, <1>5, <1>10, <1>12, <1>15, KeepKey
  <1>17. Uniform(hk) => \A x \in User : key = <<Client(hk, x), n>>
    BY <1>15, <1>16, UniformKeeps
  <1>18. h2 \in HandlerType /\ HdGrows(hk, h2) /\ GoodHandler(h2) /\ key \in DOMAIN h2.pathOf
    BY <1>5, <1>10, <1>13, <1>16, <1>17, KeepsPath
  <1>19. HdGrows(hd, h2) BY <1>16, <1>18 DEF HdGrows
  <1>20. /\ handlers' \in Seq(HandlerType) /\ handlers' # <<>> /\ HsGrow(handlers, handlers')
         /\ Caches' /\ handlers'[r.h] = h2
    BY <1>2, <1>3, <1>14, <1>18, <1>19, HandlerReplaced
  <1>21. /\ r2 \in ReqType /\ r2.todo = (n + 1)..r.after /\ r2.told = Append(r.told, key)
         /\ r2.at = r.at /\ r2.h = r.h /\ r2.after = r.after
         /\ r2.w = r.w /\ r2.op = r.op /\ r2.had = r.had /\ r2.key = r.key
         /\ r2.page = r.page /\ r2.before = r.before
    <2>1. r.todo \ {n} = (n + 1)..r.after /\ r.todo \ {n} \in SUBSET Nat BY <1>5
    <2>2. Append(r.told, key) \in Seq(Key \cup Found) BY <1>5, <1>10
    <2> QED BY <1>3, <1>11, <2>1, <2>2 DEF ReqType
  <1>22. Home(u, r2, handlers', vaults)
    <2>1. Home(u, r2, handlers, vaults) BY <1>3, <1>21 DEF GoodRequest, Home
    <2>2. VsGrow(vaults, vaults) /\ vaults \in [Workspace -> Nat] BY <1>0, Same DEF Types
    <2> QED BY <1>20, <1>21, <2>1, <2>2, HomeKeeps
  <1>23. VaultReq(r2, h2)
    <2>1. Enough(r2, h2) BY <1>5, <1>19, <1>21 DEF Enough, HdGrows
    <2>2. Uniform(h2) => ToldKeys(r2, h2)
      <3>1. SUFFICES ASSUME Uniform(h2), NEW k \in DOMAIN r2.told
                     PROVE r2.told[k] = <<r.w, k>> /\ r2.told[k] \in DOMAIN h2.pathOf
        BY <1>21 DEF ToldKeys
      <3>2. Uniform(hd) BY <1>19, <3>1, UniformKeeps
      <3>3. CASE k = n
        <4>1. r2.told[k] = key BY <1>4, <1>5, <1>21, <3>3
        <4> QED BY <1>10, <1>18, <3>2, <3>3, <4>1
      <3>4. CASE k # n
        <4>1. k \in DOMAIN r.told /\ r2.told[k] = r.told[k] BY <1>4, <1>5, <1>10, <1>21, <3>1, <3>4
        <4> QED BY <1>5, <1>19, <3>2, <4>1 DEF ToldKeys, HdGrows
      <3> QED BY <3>3, <3>4
    <2>3. Len(r2.told) = n BY <1>4, <1>5, <1>10, <1>21
    <2> QED BY <1>3, <1>5, <1>6, <1>21, <2>1, <2>2, <2>3 DEF VaultReq
  <1>24. ListReq(r2, h2, txs)
    <2>1. r.at # "format" /\ r.op \notin {"get", "list"} BY <1>3, <1>5
    <2> QED BY <1>3, <1>21, <2>1 DEF ListReq, GoodRequest
  <1>25. UNCHANGED <<vaults, txs, clock>> /\ work' \in WorkType
    BY <1>0 DEF LookupVault, fireblocks, Types
  <1>26. GoodRequest(u, r2, handlers', vaults', txs')
    BY <1>20, <1>21, <1>22, <1>23, <1>24, <1>25 DEF GoodRequest
  <1>27. TxGrows(txs, txs') BY <1>0, <1>25, Same DEF Types
  <1>28. req' = [req EXCEPT ![u] = r2] BY <1>14 DEF Become
  <1>29. txs' \in Seq(Tx) BY <1>0, <1>25 DEF Types
  <1>30. req' \in [User -> ReqType] /\ Requests'
    BY <1>20, <1>21, <1>25, <1>26, <1>27, <1>28, <1>29, OneRequest
  <1>31. Asked' BY <1>20, <1>25, AskedKeeps
  <1> QED BY <1>0, <1>20, <1>25, <1>30, <1>31 DEF IInv, Types, Times

\* When all its vaults are told, the handler knows those there were at the start.
LEMMA VaultsKnownStep ==
    ASSUME IInv, NEW u \in User, VaultsKnown(u) PROVE IInv'
  <1>1. PICK r : r = req[u] OBVIOUS
  <1>2. PICK hd : hd = handlers[r.h] OBVIOUS
  <1>3. /\ r \in ReqType /\ GoodRequest(u, r, handlers, vaults, txs) /\ r.at = "lookup" /\ r.todo = {}
        /\ r.h \in DOMAIN handlers /\ r.w \in Workspace /\ vaults[r.w] \in Nat
    BY <1>1, <1>2, Context DEF VaultsKnown, At
  <1>4. /\ r.after \in Nat /\ r.had \in Nat /\ Len(r.told) \in Nat /\ DOMAIN r.told = 1..Len(r.told)
        /\ r.op \in {"sign", "keys"} /\ Enough(r, hd) /\ (Uniform(hd) => ToldKeys(r, hd))
        /\ r.todo = (Len(r.told) + 1)..r.after /\ Len(r.told) <= r.after
    BY <1>2, <1>3 DEF GoodRequest, VaultReq, ReqType
  <1>5. Len(r.told) = r.after
    <2>1. ~(Len(r.told) + 1 <= r.after)
      <3>1. SUFFICES ASSUME Len(r.told) + 1 <= r.after PROVE FALSE OBVIOUS
      <3>2. r.after \in r.todo BY <1>4, <3>1
      <3> QED BY <1>3, <3>2
    <2> QED BY <1>4, <2>1
  <1>6. PICK at : at = IF r.op = "keys" THEN "done"
                       ELSE IF r.key \in DOMAIN hd.pathOf THEN "create" ELSE "refused"
    OBVIOUS
  <1>7. at \in {"done", "create", "refused"} BY <1>6
  <1>8. PICK r2 : r2 = [r EXCEPT !.at = at] OBVIOUS
  <1>9. Become(u, r2) BY <1>1, <1>2, <1>6, <1>8 DEF VaultsKnown
  <1>10. /\ r2 \in ReqType /\ r2.at = at /\ r2.h = r.h /\ r2.after = r.after
         /\ r2.w = r.w /\ r2.op = r.op /\ r2.had = r.had /\ r2.told = r.told /\ r2.key = r.key
         /\ r2.page = r.page /\ r2.before = r.before
    BY <1>3, <1>7, <1>8 DEF ReqType, Stage
  <1>11. Home(u, r2, handlers, vaults) BY <1>3, <1>10 DEF GoodRequest, Home
  <1>12. VaultReq(r2, hd)
    <2>1. Uniform(hd) => ToldKeys(r2, hd) BY <1>4, <1>10 DEF ToldKeys
    <2>2. ASSUME r.had <= Len(r.told), Uniform(hd), NEW v \in 1..r.had
          PROVE  <<r.w, v>> \in DOMAIN hd.pathOf
      <3>1. v \in DOMAIN r.told BY <1>4, <2>2
      <3>2. ToldKeys(r, hd) BY <1>4, <2>2
      <3> QED BY <3>1, <3>2 DEF ToldKeys
    <2>3. at # "create" => r.had <= Len(r.told) BY <1>4, <1>5, <1>6 DEF Enough
    <2>4. at = "refused" => r.key \notin DOMAIN hd.pathOf BY <1>6
    <2>5. at = "refused" /\ Uniform(hd) => r.key \notin {<<r.w, v>> : v \in 1..r.had}
      BY <2>2, <2>3, <2>4
    <2>6. at = "create" => r.op = "sign" /\ r.key \in DOMAIN hd.pathOf BY <1>4, <1>6
    <2> QED BY <1>4, <1>7, <1>10, <2>1, <2>3, <2>5, <2>6 DEF VaultReq
  <1>13. ListReq(r2, hd, txs) BY <1>2, <1>3, <1>4, <1>7, <1>10 DEF ListReq, GoodRequest
  <1>14. GoodRequest(u, r2, handlers, vaults, txs) BY <1>2, <1>10, <1>11, <1>12, <1>13 DEF GoodRequest
  <1>15. UNCHANGED <<vaults, txs, clock, handlers>> /\ work' \in WorkType
    BY DEF VaultsKnown, fireblocks, IInv, Types
  <1> QED BY <1>9, <1>10, <1>14, <1>15, Alone

\* A request whose transaction may have been created is over.
LEMMA Over ==
    ASSUME IInv, NEW u \in User, NEW r \in ReqType, r = req[u],
           r.at \in {"vaults", "lookup", "create", "page", "format"},
           NEW at, at = "failed" \/ (at = "done" /\ r.at = "create"),
           NEW r2 \in ReqType, r2.at = at, DOMAIN r2.page = {}, r2.h = r.h, r2.w = r.w,
           r2.op = r.op, r2.key = r.key, r2.ids = r.ids, r2.after = r.after, r2.had = r.had,
           r2.told = r.told, r2.before = r.before
    PROVE  GoodRequest(u, r2, handlers, vaults, txs)
  <1>1. PICK hd : hd = handlers[r.h] OBVIOUS
  <1>2. Home(u, r, handlers, vaults) /\ VaultReq(r, hd) /\ ListReq(r, hd, txs)
    BY <1>1 DEF IInv, Requests, GoodRequest
  <1>3. Home(u, r2, handlers, vaults) BY <1>2 DEF Home
  <1>4. at = "done" => r.op = "sign" BY <1>2 DEF VaultReq
  <1>5. VaultReq(r2, hd) BY <1>2, <1>4 DEF VaultReq, ToldKeys
  <1>6. ListReq(r2, hd, txs)
    BY <1>2, <1>4 DEF ListReq, ToldFound, Once, OnPage
  <1> QED BY <1>1, <1>3, <1>5, <1>6 DEF GoodRequest

\* What is created for a request is signed with the key it asked for.
LEMMA CreateFor ==
    ASSUME IInv, NEW u \in User, NEW r, r = req[u], r.at = "create", NEW status \in Status,
           Create(r.w, handlers[r.h].pathOf[r.key], status, r.key, r.h), UNCHANGED handlers
    PROVE  /\ txs' \in Seq(Tx) /\ clock' \in Nat /\ clock' >= 2 /\ TxGrows(txs, txs')
           /\ Times' /\ Asked'
  <1>1. PICK hd : hd = handlers[r.h] OBVIOUS
  <1>2. /\ r \in ReqType /\ VaultReq(r, hd) /\ r.h \in DOMAIN handlers
        /\ r.w \in Workspace /\ r.w = Client(hd, u) /\ hd \in HandlerType /\ GoodHandler(hd)
    BY <1>1, Context DEF GoodRequest
  <1>3. r.key \in DOMAIN hd.pathOf /\ r.key \in Key /\ hd.pathOf[r.key] \in Nat
    BY <1>2, CacheTypes DEF VaultReq
  <1>4. Uniform(hd) => r.key = <<r.w, hd.pathOf[r.key]>> BY <1>2, <1>3 DEF GoodHandler
  <1>5. r.h \in Nat BY <1>2 DEF ReqType
  <1> QED BY <1>1, <1>2, <1>3, <1>4, <1>5, CreateStep

\* A request that becomes another while a transaction is created, or none is.
LEMMA WithCreated ==
    ASSUME IInv, NEW u \in User, NEW r2 \in ReqType, Become(u, r2),
           GoodRequest(u, r2, handlers, vaults, txs), UNCHANGED <<vaults, handlers>>,
           txs' \in Seq(Tx) /\ clock' \in Nat /\ clock' >= 2 /\ TxGrows(txs, txs'),
           Times', Asked', work' \in WorkType
    PROVE  IInv'
  <1>1. Types BY DEF IInv
  <1>2. HsGrow(handlers, handlers') /\ VsGrow(vaults, vaults') BY <1>1, Same DEF Types
  <1>3. GoodRequest(u, r2, handlers', vaults', txs')
    BY <1>1, <1>2, RequestKeeps DEF Types
  <1>4. req' \in [User -> ReqType] /\ Requests' BY <1>1, <1>2, <1>3, OneRequest DEF Types, Become
  <1> QED BY <1>1, <1>4 DEF IInv, Types, Caches

LEMMA CreateTransactionStep ==
    ASSUME IInv, NEW u \in User, CreateTransaction(u) PROVE IInv'
  <1>1. PICK r : r = req[u] OBVIOUS
  <1>2. r \in ReqType /\ r.at = "create" BY <1>1, Context DEF CreateTransaction, At
  <1>3. PICK status \in {"pending", "signed"} :
           Create(r.w, handlers[r.h].pathOf[r.key], status, r.key, r.h)
    BY <1>1 DEF CreateTransaction
  <1>4. UNCHANGED <<vaults, handlers>> /\ work' \in WorkType
    BY DEF CreateTransaction, IInv, Types
  <1>5. /\ txs' \in Seq(Tx) /\ clock' \in Nat /\ clock' >= 2 /\ TxGrows(txs, txs')
        /\ Times' /\ Asked'
    BY <1>1, <1>2, <1>3, <1>4, CreateFor DEF Status
  <1>6. PICK r2 : r2 = [r EXCEPT !.at = "done"] OBVIOUS
  <1>7. Become(u, r2) BY <1>1, <1>6 DEF CreateTransaction
  <1>8. /\ r2 \in ReqType /\ r2.at = "done" /\ r2.page = r.page /\ r2.h = r.h /\ r2.w = r.w
        /\ r2.op = r.op /\ r2.key = r.key /\ r2.ids = r.ids /\ r2.after = r.after /\ r2.had = r.had
        /\ r2.told = r.told /\ r2.before = r.before
    BY <1>2, <1>6 DEF ReqType, Stage
  <1>9. DOMAIN r.page = {}
    BY <1>1, <1>2, Context DEF GoodRequest, ListReq
  <1>10. GoodRequest(u, r2, handlers, vaults, txs) BY <1>1, <1>2, <1>8, <1>9, Over
  <1> QED BY <1>4, <1>5, <1>7, <1>8, <1>10, WithCreated

LEMMA EmptyPage == <<>> \in PageType /\ DOMAIN <<>> = {}
  <1>1. <<>> \in [{} -> Status] OBVIOUS
  <1>2. {} \in SUBSET Nat OBVIOUS
  <1>3. DOMAIN <<>> = {} OBVIOUS
  <1> QED BY <1>1, <1>2, <1>3 DEF PageType

LEMMA FailsStep ==
    ASSUME IInv, NEW u \in User, Fails(u) PROVE IInv'
  <1>0. Types BY DEF IInv
  <1>1. PICK r : r = req[u] OBVIOUS
  <1>2. r \in ReqType /\ r.at \in {"vaults", "lookup", "create", "page", "format"}
    BY <1>1, Context DEF Fails, At
  <1>3. UNCHANGED <<vaults, handlers>> /\ work' \in WorkType
    BY <1>0, SpendType DEF Fails, Types, Count
  <1>4. PICK r2 : r2 = [r EXCEPT !.at = "failed", !.page = <<>>, !.todo = {}] OBVIOUS
  <1>5. Become(u, r2) BY <1>1, <1>4 DEF Fails
  <1>6. /\ r2 \in ReqType /\ r2.at = "failed" /\ DOMAIN r2.page = {} /\ r2.h = r.h /\ r2.w = r.w
        /\ r2.op = r.op /\ r2.key = r.key /\ r2.ids = r.ids /\ r2.after = r.after /\ r2.had = r.had
        /\ r2.told = r.told /\ r2.before = r.before
    <2>1. r2 \in ReqType BY <1>2, <1>4, EmptyPage DEF ReqType, Stage
    <2> QED BY <1>2, <1>4, <2>1, EmptyPage DEF ReqType
  <1>7. GoodRequest(u, r2, handlers, vaults, txs) BY <1>1, <1>2, <1>6, Over
  <1>8. CASE UNCHANGED <<txs, clock>> BY <1>3, <1>5, <1>6, <1>7, <1>8, Alone
  <1>9. CASE r.at = "create" /\ Create(r.w, handlers[r.h].pathOf[r.key], "pending", r.key, r.h)
    <2>1. /\ txs' \in Seq(Tx) /\ clock' \in Nat /\ clock' >= 2 /\ TxGrows(txs, txs')
          /\ Times' /\ Asked'
      BY <1>1, <1>3, <1>9, CreateFor DEF Status
    <2> QED BY <1>3, <1>5, <1>6, <1>7, <2>1, WithCreated
  <1> QED BY <1>1, <1>8, <1>9 DEF Fails, At

-----------------------------------------------------------------------------
(* Lists of transactions *)

LEMMA TxKey ==
    ASSUME NEW tx \in Seq(Tx), NEW i \in DOMAIN tx
    PROVE  /\ tx[i] \in Tx /\ KeyOf(tx[i]) \in Key /\ KeyOf(tx[i]) # None
           /\ i \in Nat /\ tx[i].created \in Nat /\ tx[i].status \in Status
  <1>1. tx[i] \in Tx /\ i \in Nat BY SeqElement
  <1>2. KeyOf(tx[i]) \in Key BY <1>1 DEF Tx, KeyOf, Key
  <1> QED BY <1>1, <1>2, ConfigAssumption DEF Tx, Key, Status

\* A page holds the latest of the transactions that are left; it is empty only if
\* none are.
LEMMA PageHolds ==
    ASSUME NEW r \in ReqType, NEW S \in TxPages(r)
    PROVE  /\ S \subseteq Eligible(r)
           /\ \A i \in S, j \in Eligible(r) \ S : txs[i].created >= txs[j].created
           /\ S = {} => Eligible(r) = {}
  <1>1. S = {} => Cardinality(S) = 0 BY FS_EmptySet
  <1> QED BY <1>1, ConfigAssumption DEF TxPages

LEMMA TxPageStep ==
    ASSUME IInv, NEW u \in User, TxPage(u) PROVE IInv'
  <1>0. Types BY DEF IInv
  <1>1. PICK r : r = req[u] OBVIOUS
  <1>2. PICK hd : hd = handlers[r.h] OBVIOUS
  <1>3. /\ r \in ReqType /\ Home(u, r, handlers, vaults) /\ ListReq(r, hd, txs) /\ r.at = "page"
    BY <1>1, <1>2, Context DEF TxPage, At, GoodRequest
  <1>4. PICK S \in IF r.op = "get" THEN {r.ids} ELSE TxPages(r) :
           Become(u, [r EXCEPT !.page = [i \in S |-> txs[i].status],
                               !.at = IF S = {} THEN "done" ELSE "format"])
    BY <1>1 DEF TxPage
  <1>5. /\ r.op \in {"get", "list"} /\ ToldFound(r, hd, txs) /\ Once(r)
        /\ r.had <= Len(txs) /\ r.ids \subseteq DOMAIN txs /\ r.before \in Nat
        /\ r.op = "get" => /\ r.key = None /\ r.before = 0
                           /\ \E i \in DOMAIN txs : r.ids = {i} /\ txs[i].workspace = r.w
        /\ Uniform(hd) => Covered(r, txs)
    BY <1>3 DEF ListReq, ReqType
  <1>6. /\ S \subseteq DOMAIN txs
        /\ \A j \in S : txs[j].workspace = r.w /\ (r.before = 0 \/ txs[j].created <= r.before)
    <2>1. CASE r.op = "get" BY <1>4, <1>5, <2>1
    <2>2. CASE r.op # "get" BY <1>3, <1>4, <2>2, PageHolds DEF Eligible
    <2> QED BY <2>1, <2>2
  <1>7. PICK pg : pg = [i \in S |-> txs[i].status] OBVIOUS
  <1>8. pg \in PageType /\ DOMAIN pg = S
    <2>1. S \in SUBSET Nat BY <1>0, <1>6 DEF Types
    <2>2. \A i \in S : txs[i].status \in Status BY <1>0, <1>6, TxKey DEF Types
    <2>3. pg \in [S -> Status] BY <1>7, <2>2
    <2> QED BY <2>1, <2>3 DEF PageType
  <1>9. PICK at : at = IF S = {} THEN "done" ELSE "format" OBVIOUS
  <1>10. at \in {"done", "format"} BY <1>9
  <1>11. PICK r2 : r2 = [r EXCEPT !.page = pg, !.at = at] OBVIOUS
  <1>12. Become(u, r2) BY <1>4, <1>7, <1>9, <1>11
  <1>13. /\ r2 \in ReqType /\ r2.at = at /\ r2.page = pg /\ r2.h = r.h /\ r2.w = r.w
         /\ r2.op = r.op /\ r2.key = r.key /\ r2.ids = r.ids /\ r2.after = r.after
         /\ r2.had = r.had /\ r2.told = r.told /\ r2.before = r.before
    <2>1. r2 \in ReqType BY <1>3, <1>8, <1>10, <1>11 DEF ReqType, Stage
    <2> QED BY <1>3, <1>11, <2>1 DEF ReqType
  <1>14. Home(u, r2, handlers, vaults) BY <1>3, <1>13 DEF Home
  <1>15. VaultReq(r2, hd) BY <1>5, <1>10, <1>13 DEF VaultReq
  <1>16. ToldFound(r2, hd, txs) /\ Once(r2) BY <1>5, <1>13 DEF ToldFound, Once
  <1>17. OnPage(r2, txs)
    <2>1. SUFFICES ASSUME NEW j \in S
                   PROVE  /\ j \in DOMAIN txs /\ txs[j].workspace = r.w
                          /\ r.before = 0 \/ txs[j].created <= r.before + 1
                          /\ \A k \in DOMAIN r.told : r.told[k].id # j
                          /\ pg[j] = "strange" <=> txs[j].status = "strange"
      BY <1>8, <1>13 DEF OnPage
    <2>2. j \in DOMAIN txs /\ txs[j].workspace = r.w /\ txs[j].created \in Nat
      BY <1>0, <1>6, TxKey DEF Types
    <2>3. r.before = 0 \/ txs[j].created <= r.before BY <1>6
    <2>4. ASSUME NEW k \in DOMAIN r.told PROVE r.told[k].id # j
      <3>1. r.before # 0 /\ txs[r.told[k].id].created > r.before BY <1>5 DEF ToldFound
      <3> QED BY <1>5, <2>2, <2>3, <3>1
    <2> QED BY <1>5, <1>7, <2>2, <2>3, <2>4
  <1>18. ASSUME Uniform(hd) PROVE Covered(r2, txs)
    <2>1. SUFFICES ASSUME NEW x \in WantedOf(r2, txs)
                   PROVE TiedIn(txs, x) \/ ToldId(r2, x) \/ Ahead(r2, txs, x)
      BY DEF Covered
    <2>2. x \in WantedOf(r, txs) BY <1>13 DEF WantedOf, Matches
    <2>3. x \in DOMAIN txs /\ txs[x].workspace = r.w /\ Matches(r, x, KeyOf(txs[x]))
      BY <1>0, <1>3, <1>5, <2>2 DEF WantedOf, Types, ReqType
    <2>4. CASE TiedIn(txs, x) \/ ToldId(r, x) BY <1>13, <2>4 DEF ToldId
    <2>5. CASE Ahead(r, txs, x)
      <3>1. r.before = 0 \/ txs[x].created <= r.before BY <1>3, <2>5 DEF Ahead
      <3>2. CASE r.op = "get"
        <4>1. x \in r.ids BY <1>0, <1>5, <2>3, <3>2, TxKey DEF Matches, Types
        <4>2. x \in S /\ at = "format" BY <1>4, <1>9, <3>2, <4>1
        <4> QED BY <1>8, <1>13, <4>2 DEF Ahead
      <3>3. CASE r.op = "list"
        <4>1. x \in Eligible(r) BY <2>3, <3>1 DEF Eligible
        <4>2. /\ S # {} /\ \A i \in S, j \in Eligible(r) \ S : txs[i].created >= txs[j].created
          BY <1>3, <1>4, <3>3, <4>1, PageHolds
        <4>3. at = "format" BY <1>9, <4>2
        <4>4. CASE x \in S BY <1>8, <1>13, <4>3, <4>4 DEF Ahead
        <4>5. CASE x \notin S
          <5>1. \A j \in S : txs[x].created <= txs[j].created
            <6>1. \A j \in S : txs[j].created \in Nat /\ txs[j].created >= txs[x].created
              BY <1>0, <1>6, <4>1, <4>2, <4>5, TxKey DEF Types
            <6>2. txs[x].created \in Nat BY <1>0, <2>3, TxKey DEF Types
            <6> QED BY <6>1, <6>2
          <5> QED BY <1>8, <1>13, <3>3, <4>3, <5>1 DEF Ahead
        <4> QED BY <4>4, <4>5
      <3> QED BY <1>5, <3>2, <3>3
    <2> QED BY <1>18, <1>5, <2>2, <2>4, <2>5 DEF Covered
  <1>19. ListReq(r2, hd, txs)
    <2>1. at # "format" => DOMAIN pg = {} BY <1>8, <1>9
    <2>2. r.before = 0 \/ \E i \in DOMAIN txs : r.before < txs[i].created BY <1>3 DEF ListReq
    <2>3. r.op = "get" => DOMAIN pg = r.ids BY <1>4, <1>8
    <2> QED BY <1>5, <1>10, <1>13, <1>16, <1>17, <1>18, <2>1, <2>2, <2>3 DEF ListReq
  <1>20. GoodRequest(u, r2, handlers, vaults, txs) BY <1>2, <1>13, <1>14, <1>15, <1>19 DEF GoodRequest
  <1>21. UNCHANGED <<vaults, txs, clock, handlers>> /\ work' \in WorkType
    BY <1>0 DEF TxPage, fireblocks, Types
  <1> QED BY <1>12, <1>13, <1>20, <1>21, Alone

\* A list of ids that has told as many transactions as there are ids has told all.
LEMMA CompleteTells ==
    ASSUME NEW ids, IsFiniteSet(ids), NEW told \in Seq(Key \cup Found),
           \A k \in DOMAIN told : told[k].id \in ids,
           \A k, m \in DOMAIN told : told[k].id = told[m].id => k = m,
           Len(told) = Cardinality(ids), NEW x \in ids
    PROVE  \E k \in DOMAIN told : told[k].id = x
  <1>1. PICK N : N = 1..Len(told) OBVIOUS
  <1>2. DOMAIN told = N /\ Len(told) \in Nat BY <1>1
  <1>3. PICK f : f = [k \in N |-> told[k].id] OBVIOUS
  <1>4. f \in Injection(N, ids)
    <2>1. f \in [N -> ids] BY <1>2, <1>3
    <2>2. \A k, m \in N : f[k] = f[m] => k = m BY <1>2, <1>3
    <2> QED BY <2>1, <2>2 DEF Injection, IsInjective
  <1>5. Cardinality(N) = Len(told) BY <1>1, <1>2, FS_Interval
  <1>6. f \in Surjection(N, ids) BY <1>4, <1>5, FS_Injection
  <1>7. \E k \in N : f[k] = x BY <1>6 DEF Surjection
  <1> QED BY <1>2, <1>3, <1>7

\* What a request makes of itself and of its handler when it formats transaction i.
FormatTold(r, i, key) ==
    IF r.page[i] # "strange" /\ Matches(r, i, key) THEN Append(r.told, [id |-> i, key |-> key]) ELSE r.told
FormatStage(r, i, told) ==
    IF r.page[i] # "strange" /\ Complete(r, told) THEN "done"
    ELSE IF DOMAIN r.page \ {i} # {} THEN "format"
    ELSE IF r.op = "get" THEN "done" ELSE "page"

Formats(r, r2, i, key) ==
    /\ r2 \in ReqType
    /\ r2.h = r.h /\ r2.w = r.w /\ r2.op = r.op /\ r2.key = r.key /\ r2.ids = r.ids
    /\ r2.after = r.after /\ r2.had = r.had
    /\ r2.told = FormatTold(r, i, key) /\ r2.before = txs[i].created - 1
    /\ r2.at = FormatStage(r, i, r2.told)
    /\ r2.at # "format" => DOMAIN r2.page = {}
    /\ r2.at = "format" => /\ DOMAIN r2.page = DOMAIN r.page \ {i}
                           /\ \A j \in DOMAIN r2.page : r2.page[j] = r.page[j]

\* What a list tells stays in order, and is told once.
LEMMA FormatTells ==
    ASSUME Types, NEW r \in ReqType, NEW hd, ListReq(r, hd, txs), r.at = "format", Times,
           NEW i \in DOMAIN r.page, \A j \in DOMAIN r.page : txs[j].created <= txs[i].created,
           NEW key \in Key, Uniform(hd) => key = KeyOf(txs[i]), NEW r2, Formats(r, r2, i, key)
    PROVE  /\ ToldFound(r2, hd, txs) /\ Once(r2) /\ OnPage(r2, txs)
           /\ \A k \in DOMAIN r.told : k \in DOMAIN r2.told /\ r2.told[k] = r.told[k]
           /\ r.page[i] # "strange" /\ Matches(r, i, key) => ToldId(r2, i)
  <1>1. /\ r.op \in {"get", "list"} /\ ToldFound(r, hd, txs) /\ Once(r) /\ OnPage(r, txs)
        /\ r.before \in Nat /\ r.told \in Seq(Key \cup Found)
    BY DEF ListReq, ReqType
  <1>2. /\ i \in DOMAIN txs /\ txs[i].workspace = r.w /\ i \in Nat
        /\ txs[i].created \in Nat /\ txs[i].created >= 2
        /\ r.before = 0 \/ txs[i].created <= r.before + 1
        /\ \A k \in DOMAIN r.told : r.told[k].id # i
    BY <1>1, TxKey DEF OnPage, Types, Times
  <1>3. /\ r2.before = txs[i].created - 1 /\ r2.before # 0 /\ r2.before \in Nat
        /\ r.before = 0 \/ r2.before <= r.before
    BY <1>1, <1>2 DEF Formats
  <1>4. PICK f : f = [id |-> i, key |-> key] OBVIOUS
  <1>5. f \in Found /\ f.id = i /\ f.key = key BY <1>2, <1>4 DEF Found
  <1>6. \/ r2.told = r.told
        \/ r2.told = Append(r.told, f) /\ (i \in r.ids \/ r.key = key)
    BY <1>4 DEF Formats, FormatTold, Matches
  <1>7. \A k \in DOMAIN r.told : k \in DOMAIN r2.told /\ r2.told[k] = r.told[k]
    BY <1>1, <1>5, <1>6
  <1>8. \A k \in DOMAIN r2.told :
          \/ k \in DOMAIN r.told /\ r2.told[k] = r.told[k]
          \/ k = Len(r.told) + 1 /\ r2.told[k] = f /\ (i \in r.ids \/ r.key = key)
    BY <1>1, <1>5, <1>6
  <1>9. ToldFound(r2, hd, txs)
    <2>1. SUFFICES ASSUME NEW k \in DOMAIN r2.told
                   PROVE  /\ r2.told[k] \in Found /\ r2.told[k].id \in DOMAIN txs
                          /\ r2.told[k].id \in r2.ids \/ r2.key = r2.told[k].key
                          /\ r2.before # 0 /\ txs[r2.told[k].id].created > r2.before
                          /\ Uniform(hd) => r2.told[k].key = KeyOf(txs[r2.told[k].id])
      BY DEF ToldFound
    <2>2. CASE k \in DOMAIN r.told /\ r2.told[k] = r.told[k]
      <3>1. /\ r2.told[k] \in Found /\ r2.told[k].id \in DOMAIN txs
            /\ r2.told[k].id \in r.ids \/ r.key = r2.told[k].key
            /\ r.before # 0 /\ txs[r2.told[k].id].created > r.before
            /\ Uniform(hd) => r2.told[k].key = KeyOf(txs[r2.told[k].id])
        BY <1>1, <2>2 DEF ToldFound
      <3>2. txs[r2.told[k].id].created \in Nat BY <3>1, TxKey DEF Types
      <3>3. txs[r2.told[k].id].created > r2.before BY <1>1, <1>3, <3>1, <3>2
      <3> QED BY <1>3, <3>1, <3>3 DEF Formats
    <2>3. CASE r2.told[k] = f /\ (i \in r.ids \/ r.key = key)
      <3>1. txs[i].created > r2.before BY <1>2, <1>3
      <3> QED BY <1>2, <1>3, <1>5, <2>3, <3>1 DEF Formats
    <2> QED BY <1>8, <2>2, <2>3
  <1>10. Once(r2)
    <2>1. SUFFICES ASSUME NEW k \in DOMAIN r2.told, NEW m \in DOMAIN r2.told,
                          r2.told[k].id = r2.told[m].id
                   PROVE  k = m
      BY DEF Once
    <2> QED BY <1>1, <1>2, <1>5, <1>8, <2>1 DEF Once
  <1>11. OnPage(r2, txs)
    <2>1. CASE r2.at # "format" BY <2>1 DEF Formats, OnPage
    <2>2. CASE r2.at = "format"
      <3>1. SUFFICES ASSUME NEW j \in DOMAIN r2.page
                     PROVE  /\ j \in DOMAIN txs /\ txs[j].workspace = r2.w
                            /\ r2.before = 0 \/ txs[j].created <= r2.before + 1
                            /\ \A k \in DOMAIN r2.told : r2.told[k].id # j
                            /\ r2.page[j] = "strange" <=> txs[j].status = "strange"
        BY DEF OnPage
      <3>2. j \in DOMAIN r.page /\ j # i /\ r2.page[j] = r.page[j] BY <2>2, <3>1 DEF Formats
      <3>3. j \in DOMAIN txs /\ txs[j].workspace = r2.w /\ (r2.page[j] = "strange" <=> txs[j].status = "strange")
        BY <1>1, <3>2 DEF OnPage, Formats
      <3>4. txs[j].created <= r2.before + 1 BY <1>2, <1>3, <3>2
      <3>5. \A k \in DOMAIN r2.told : r2.told[k].id # j
        BY <1>1, <1>5, <1>8, <3>2 DEF OnPage
      <3> QED BY <3>3, <3>4, <3>5
    <2> QED BY <2>1, <2>2
  <1>12. ASSUME r.page[i] # "strange", Matches(r, i, key) PROVE ToldId(r2, i)
    <2>1. r2.told = Append(r.told, f) BY <1>4, <1>12 DEF Formats, FormatTold
    <2>2. Len(r.told) + 1 \in DOMAIN r2.told /\ r2.told[Len(r.told) + 1] = f BY <1>1, <1>5, <2>1
    <2> QED BY <1>5, <2>2 DEF ToldId
  <1> QED BY <1>7, <1>9, <1>10, <1>11, <1>12

\* What a list wants is told, ahead of it, or tied with what it has just formatted.
LEMMA FormatCovers ==
    ASSUME Types, NEW r \in ReqType, NEW hd, ListReq(r, hd, txs), r.at = "format", Times,
           Uniform(hd),
           NEW i \in DOMAIN r.page, \A j \in DOMAIN r.page : txs[j].created <= txs[i].created,
           NEW key \in Key, key = KeyOf(txs[i]), NEW r2, Formats(r, r2, i, key)
    PROVE  Covered(r2, txs)
  <1>1. /\ r.op \in {"get", "list"} /\ ToldFound(r, hd, txs) /\ Once(r) /\ OnPage(r, txs)
        /\ r.had <= Len(txs) /\ r.ids \subseteq DOMAIN txs /\ Covered(r, txs)
        /\ r.op = "get" => r.key = None /\ DOMAIN r.page = r.ids /\ \E j \in DOMAIN txs : r.ids = {j}
    BY DEF ListReq
  <1>2. /\ ToldFound(r2, hd, txs) /\ Once(r2)
        /\ \A k \in DOMAIN r.told : k \in DOMAIN r2.told /\ r2.told[k] = r.told[k]
        /\ r.page[i] # "strange" /\ Matches(r, i, key) => ToldId(r2, i)
    BY FormatTells
  <1>3. /\ i \in DOMAIN txs /\ txs[i].workspace = r.w /\ txs[i].created \in Nat
        /\ r.page[i] = "strange" <=> txs[i].status = "strange"
    BY <1>1, TxKey DEF OnPage, Types
  <1>4. SUFFICES ASSUME NEW x \in WantedOf(r2, txs)
                 PROVE TiedIn(txs, x) \/ ToldId(r2, x) \/ Ahead(r2, txs, x)
    BY DEF Covered
  <1>5. x \in WantedOf(r, txs) BY DEF Formats, WantedOf, Matches
  <1>6. /\ x \in DOMAIN txs /\ txs[x].workspace = r.w /\ txs[x].status # "strange"
        /\ Matches(r, x, KeyOf(txs[x])) /\ txs[x].created \in Nat /\ KeyOf(txs[x]) # None
    <2>1. x \in DOMAIN txs BY <1>1, <1>5 DEF WantedOf, Types, ReqType
    <2> QED BY <1>5, <2>1, TxKey DEF WantedOf, Types
  <1>7. ToldId(r, x) => ToldId(r2, x) BY <1>2 DEF ToldId
  <1>8. x = i => ToldId(r2, x) BY <1>2, <1>3, <1>6
  <1>9. ASSUME Complete(r, r2.told) PROVE ToldId(r2, x)
    <2>1. r.op = "list" /\ r.key = None /\ Len(r2.told) = Cardinality(r.ids) BY <1>9 DEF Complete
    <2>2. x \in r.ids BY <1>6, <2>1 DEF Matches
    <2>3. IsFiniteSet(r.ids)
      <3>1. Len(txs) \in Nat /\ r.ids \in SUBSET (1..Len(txs)) BY <1>1 DEF Types
      <3>2. IsFiniteSet(1..Len(txs))
        <4>1. 1 \in Int /\ Len(txs) \in Int BY <3>1
        <4> QED BY <4>1, FS_Interval
      <3> QED BY <3>1, <3>2, FS_Subset
    <2>4. r2.told \in Seq(Key \cup Found) BY DEF Formats, ReqType
    <2>5. \A k \in DOMAIN r2.told : r2.told[k].id \in r.ids
      <3>1. SUFFICES ASSUME NEW k \in DOMAIN r2.told PROVE r2.told[k].id \in r.ids OBVIOUS
      <3>2. r2.told[k] \in Found /\ (r2.told[k].id \in r.ids \/ r.key = r2.told[k].key)
        BY <1>2 DEF ToldFound, Formats
      <3>3. r2.told[k].key # None BY <3>2, ConfigAssumption DEF Found, Key
      <3> QED BY <2>1, <3>2, <3>3
    <2> QED BY <1>2, <2>1, <2>2, <2>3, <2>4, <2>5, CompleteTells DEF Once, ToldId
  <1>10. PICK st : st = r2.at OBVIOUS
  <1>11. /\ ~Complete(r, r2.told) /\ DOMAIN r.page \ {i} # {} => st = "format"
         /\ ~Complete(r, r2.told) /\ DOMAIN r.page \ {i} = {} /\ r.op = "list" => st = "page"
    BY <1>1, <1>10 DEF Formats, FormatStage
  <1>12. CASE ~Complete(r, r2.told) /\ x # i /\ x \in DOMAIN r.page
    <2>1. st = "format" BY <1>11, <1>12
    <2>2. x \in DOMAIN r2.page BY <1>10, <1>12, <2>1 DEF Formats
    <2> QED BY <1>10, <2>1, <2>2 DEF Ahead
  <1>13. CASE ~Complete(r, r2.told) /\ r.op = "list" /\ x # i
              /\ \A j \in DOMAIN r.page : txs[x].created <= txs[j].created
    <2>1. CASE DOMAIN r.page \ {i} # {}
      <3>1. st = "format" BY <1>11, <1>13, <2>1
      <3>2. \A j \in DOMAIN r2.page : txs[x].created <= txs[j].created
        BY <1>10, <1>13, <3>1 DEF Formats
      <3> QED BY <1>10, <1>13, <3>1, <3>2 DEF Ahead, Formats
    <2>2. CASE DOMAIN r.page \ {i} = {}
      <3>1. st = "page" BY <1>11, <1>13, <2>2
      <3>2. txs[x].created <= txs[i].created BY <1>13
      <3>3. CASE txs[x].created = txs[i].created BY <1>3, <1>6, <1>13, <3>3 DEF TiedIn
      <3>4. CASE txs[x].created # txs[i].created
        <4>1. txs[x].created <= r2.before BY <1>3, <1>6, <3>2, <3>4 DEF Formats
        <4> QED BY <1>10, <3>1, <4>1 DEF Ahead
      <3> QED BY <3>3, <3>4
    <2> QED BY <2>1, <2>2
  <1>14. TiedIn(txs, x) \/ ToldId(r, x) \/ Ahead(r, txs, x) BY <1>1, <1>5 DEF Covered
  <1> QED BY <1>7, <1>8, <1>9, <1>12, <1>13, <1>14 DEF Ahead

\* Formatting a list goes on with one transaction less, or with the next page.
LEMMA FormatList ==
    ASSUME Types, NEW r \in ReqType, NEW hd, ListReq(r, hd, txs), r.at = "format", Times,
           NEW i \in DOMAIN r.page, \A j \in DOMAIN r.page : txs[j].created <= txs[i].created,
           NEW key \in Key, Uniform(hd) => key = KeyOf(txs[i]), NEW r2, Formats(r, r2, i, key)
    PROVE  ListReq(r2, hd, txs)
  <1>1. /\ r.op \in {"get", "list"} /\ OnPage(r, txs)
        /\ r.had <= Len(txs) /\ r.ids \subseteq DOMAIN txs
        /\ r.op = "get" => /\ r.key = None /\ DOMAIN r.page = r.ids
                           /\ \E j \in DOMAIN txs : r.ids = {j} /\ txs[j].workspace = r.w
    BY DEF ListReq
  <1>2. ToldFound(r2, hd, txs) /\ Once(r2) /\ OnPage(r2, txs) BY FormatTells
  <1>3. Uniform(hd) => Covered(r2, txs) BY FormatCovers
  <1>4. \E j \in DOMAIN txs : r2.before < txs[j].created
    <2>1. i \in DOMAIN txs BY <1>1 DEF OnPage
    <2>2. txs[i].created \in Nat BY <2>1, TxKey DEF Types
    <2>3. r2.before < txs[i].created BY <2>2 DEF Formats
    <2> QED BY <2>1, <2>3
  <1>5. r2.op = "get" => r2.at = "done"
    <2>1. SUFFICES ASSUME r.op = "get" PROVE r2.at = "done" BY DEF Formats
    <2>2. DOMAIN r.page \ {i} = {} BY <1>1, <2>1
    <2> QED BY <2>1, <2>2 DEF Formats, FormatStage
  <1>6. r2.op = r.op /\ r2.key = r.key /\ r2.ids = r.ids /\ r2.had = r.had /\ r2.w = r.w
    BY DEF Formats
  <1>7. r2.at # "format" => DOMAIN r2.page = {} BY DEF Formats
  <1> QED BY <1>1, <1>2, <1>3, <1>4, <1>5, <1>6, <1>7 DEF ListReq

\* The key that a transaction is told with is its own.
LEMMA FormatKey ==
    ASSUME IInv, NEW u \in User, NEW r, r = req[u], r.at = "format", NEW i \in DOMAIN r.page,
           NEW key, key = IF r.page[i] = "signed" THEN KeyOf(txs[i]) ELSE Lookup(r, txs[i].vault)
    PROVE  key \in Key /\ (Uniform(handlers[r.h]) => key = KeyOf(txs[i]))
  <1>1. /\ r \in ReqType /\ r.h \in DOMAIN handlers /\ r.w \in Workspace
        /\ r.w = Client(handlers[r.h], u) /\ ListReq(r, handlers[r.h], txs)
    BY Context DEF GoodRequest
  <1>2. i \in DOMAIN txs /\ txs[i].workspace = r.w BY <1>1 DEF ListReq, OnPage
  <1>3. txs[i] \in Tx /\ KeyOf(txs[i]) \in Key BY <1>2, TxKey DEF IInv, Types
  <1>4. txs[i].vault \in Nat /\ KeyOf(txs[i]) = <<r.w, txs[i].vault>> BY <1>2, <1>3 DEF Tx, KeyOf
  <1>5. handlers \in Seq(HandlerType) /\ Caches BY DEF IInv, Types
  <1>6. /\ Lookup(r, txs[i].vault) \in Key
        /\ Uniform(handlers[r.h]) => Lookup(r, txs[i].vault) = <<r.w, txs[i].vault>>
    BY <1>1, <1>4, <1>5, LookupKey
  <1> QED BY <1>3, <1>4, <1>6

LEMMA FormatTransactionStep ==
    ASSUME IInv, NEW u \in User, FormatTransaction(u) PROVE IInv'
  <1>0. Types /\ Times BY DEF IInv
  <1>1. PICK r : r = req[u] OBVIOUS
  <1>2. PICK hd : hd = handlers[r.h] OBVIOUS
  <1>3. /\ r \in ReqType /\ GoodRequest(u, r, handlers, vaults, txs) /\ r.at = "format"
        /\ r.h \in DOMAIN handlers /\ r.w \in Workspace /\ r.w = Client(hd, u)
        /\ hd \in HandlerType /\ GoodHandler(hd)
    BY <1>1, <1>2, Context DEF FormatTransaction, At
  <1>4. PICK i \in DOMAIN r.page : Format(u, i) BY <1>1 DEF FormatTransaction
  <1>5. PICK key : key = IF r.page[i] = "signed" THEN KeyOf(txs[i]) ELSE Lookup(r, txs[i].vault)
    OBVIOUS
  <1>6. key \in Key /\ (Uniform(hd) => key = KeyOf(txs[i]))
    BY <1>1, <1>2, <1>3, <1>5, FormatKey
  <1>7. PICK told : told = FormatTold(r, i, key) OBVIOUS
  <1>8. PICK rest : rest = [j \in DOMAIN r.page \ {i} |-> r.page[j]] OBVIOUS
  <1>9. DOMAIN rest = DOMAIN r.page \ {i} /\ \A j \in DOMAIN rest : rest[j] = r.page[j] BY <1>8
  <1>10. PICK stage : stage = FormatStage(r, i, told) OBVIOUS
  <1>11. PICK pg : pg = IF stage = "format" THEN rest ELSE <<>> OBVIOUS
  <1>12. PICK r2 : r2 = [r EXCEPT !.at = stage, !.told = told, !.before = txs[i].created - 1,
                                  !.page = pg]
    OBVIOUS
  <1>13. /\ \A j \in DOMAIN rest : txs[j].created <= txs[i].created
         /\ Become(u, r2)
         /\ handlers' = IF r.page[i] \in {"signed", "strange"} THEN handlers
                        ELSE [handlers EXCEPT ![r.h] = Keep(hd, txs[i].vault, key)]
    BY <1>1, <1>2, <1>4, <1>5, <1>7, <1>8, <1>9, <1>10, <1>11, <1>12
       DEF Format, FormatTold, FormatStage, Advance, Before
  <1>14. /\ ListReq(r, hd, txs) /\ OnPage(r, txs) /\ r.op \in {"get", "list"}
         /\ i \in DOMAIN txs /\ txs[i].workspace = r.w
    BY <1>2, <1>3 DEF GoodRequest, ListReq, OnPage
  <1>15. txs[i] \in Tx /\ txs[i].created \in Nat /\ txs[i].created - 1 \in Nat /\ i \in Nat
         /\ txs[i].vault \in Nat
    <2>1. txs[i] \in Tx /\ txs[i].created \in Nat /\ i \in Nat BY <1>0, <1>14, TxKey DEF Types
    <2>2. txs[i].created >= 2 BY <1>0, <1>14, <2>1 DEF Types, Times
    <2> QED BY <2>1, <2>2 DEF Tx
  <1>16. \A j \in DOMAIN r.page : txs[j].created <= txs[i].created BY <1>9, <1>13, <1>15
  <1>17. stage \in {"done", "format", "page"} BY <1>10 DEF FormatStage
  <1>18. Formats(r, r2, i, key)
    <2>1. told \in Seq(Key \cup Found)
      <3>1. r.told \in Seq(Key \cup Found) BY <1>3 DEF ReqType
      <3>2. [id |-> i, key |-> key] \in Found BY <1>6, <1>15 DEF Found
      <3> QED BY <1>7, <3>1, <3>2 DEF FormatTold
    <2>2. pg \in PageType
      <3>1. r.page \in PageType BY <1>3 DEF ReqType
      <3>2. PICK S \in SUBSET Nat : r.page \in [S -> Status] BY <3>1 DEF PageType
      <3>3. rest \in [S \ {i} -> Status] BY <1>8, <3>2
      <3>4. rest \in PageType BY <3>2, <3>3 DEF PageType
      <3> QED BY <1>11, <3>4, EmptyPage
    <2>3. r2 \in ReqType BY <1>3, <1>12, <1>15, <1>17, <2>1, <2>2 DEF ReqType, Stage
    <2>4. /\ r2.at = stage /\ r2.told = told /\ r2.before = txs[i].created - 1 /\ r2.page = pg
          /\ r2.h = r.h /\ r2.w = r.w /\ r2.op = r.op /\ r2.key = r.key /\ r2.ids = r.ids
          /\ r2.after = r.after /\ r2.had = r.had
      BY <1>3, <1>12, <2>3 DEF ReqType
    <2>5. stage # "format" => DOMAIN pg = {} BY <1>11, EmptyPage
    <2>6. stage = "format" => pg = rest BY <1>11
    <2> QED BY <1>7, <1>9, <1>10, <2>3, <2>4, <2>5, <2>6 DEF Formats
  <1>19. ListReq(r2, hd, txs) BY <1>0, <1>3, <1>6, <1>14, <1>16, <1>18, FormatList
  <1>20. r2 \in ReqType /\ r2.at \in {"done", "format", "page"} /\ r2.op \in {"get", "list"}
    BY <1>10, <1>14, <1>17, <1>18 DEF Formats, FormatStage
  <1>21. GoodRequest(u, r2, handlers, vaults, txs)
    <2>1. Home(u, r2, handlers, vaults) BY <1>3, <1>18, <1>20 DEF GoodRequest, Home, Formats
    <2>2. VaultReq(r2, hd) BY <1>20 DEF VaultReq
    <2>3. r2.h = r.h BY <1>18 DEF Formats
    <2> QED BY <1>2, <1>19, <2>1, <2>2, <2>3 DEF GoodRequest
  <1>22. UNCHANGED <<vaults, txs, clock>> /\ work' \in WorkType
    BY <1>0 DEF FormatTransaction, fireblocks, Types
  <1>23. CASE handlers' = handlers
    BY <1>13, <1>20, <1>21, <1>22, <1>23, Alone
  <1>24. CASE r.page[i] \notin {"signed", "strange"}
    <2>1. PICK hk : hk = Keep(hd, txs[i].vault, key) OBVIOUS
    <2>2. handlers' = [handlers EXCEPT ![r.h] = hk] BY <1>13, <1>24, <2>1
    <2>3. Uniform(hd) => \A x \in User : key = <<Client(hd, x), txs[i].vault>>
      BY <1>3, <1>6, <1>14 DEF Uniform, KeyOf
    <2>4. hk \in HandlerType /\ HdGrows(hd, hk) /\ GoodHandler(hk)
      BY <1>3, <1>6, <1>15, <2>1, <2>3, KeepKey
    <2>5. /\ handlers' \in Seq(HandlerType) /\ handlers' # <<>> /\ HsGrow(handlers, handlers')
          /\ Caches'
      BY <1>2, <1>3, <2>2, <2>4, HandlerReplaced
    <2>6. VsGrow(vaults, vaults') /\ TxGrows(txs, txs') BY <1>0, <1>22, Same DEF Types
    <2>7. vaults' \in [Workspace -> Nat] /\ txs' \in Seq(Tx) BY <1>0, <1>22 DEF Types
    <2>8. GoodRequest(u, r2, handlers', vaults', txs')
      BY <1>0, <1>20, <1>21, <2>5, <2>6, <2>7, RequestKeeps DEF Types
    <2>9. req' = [req EXCEPT ![u] = r2] BY <1>13 DEF Become
    <2>10. req' \in [User -> ReqType] /\ Requests'
      BY <1>20, <1>22, <2>5, <2>6, <2>7, <2>8, <2>9, OneRequest
    <2>11. Asked' BY <1>22, <2>5, AskedKeeps
    <2> QED BY <1>0, <1>22, <2>5, <2>10, <2>11 DEF IInv, Types, Times
  <1> QED BY <1>13, <1>23, <1>24

-----------------------------------------------------------------------------
(* Invariance *)

LEMMA InitInvariant ==
    ASSUME Init PROVE IInv
  <1>1. PICK hd : hd = Handler(Opens[First], Default[First]) OBVIOUS
  <1>2. hd \in HandlerType /\ GoodHandler(hd) BY <1>1, ConfigAssumption, NewHandler
  <1>3. handlers = <<hd>> BY <1>1 DEF Init
  <1>4. handlers \in Seq(HandlerType) /\ handlers # <<>> /\ DOMAIN handlers = {1} /\ handlers[1] = hd
    BY <1>2, <1>3
  <1>5. txs = <<>> /\ txs \in Seq(Tx) /\ DOMAIN txs = {} BY DEF Init
  <1>6. req = [u \in User |-> Idle] /\ clock = 2 /\ vaults = Vaults /\ work \in Works BY DEF Init
  <1>7. Types BY <1>4, <1>5, <1>6, IdleType, ConfigAssumption DEF Types, WorkType
  <1>8. Times /\ Caches /\ Asked BY <1>2, <1>4, <1>5 DEF Times, Caches, Asked
  <1>9. ASSUME NEW u \in User PROVE GoodRequest(u, Idle, handlers, vaults, txs)
    <2>1. DOMAIN Idle.page = {} /\ Idle.before = 0 BY IdleType, EmptyPage
    <2> QED BY <1>4, <2>1, IdleType DEF GoodRequest, Home, VaultReq, ListReq
  <1> QED BY <1>6, <1>7, <1>8, <1>9 DEF IInv, Requests

LEMMA Invariance ==
    ASSUME IInv, [Next]_vars PROVE IInv'
  <1>1. work.users \subseteq User BY DEF IInv, Types, WorkType
  <1>2. CASE UNCHANGED vars
    BY <1>2 DEF vars, fireblocks, IInv, Types, Times, Caches, Asked, Requests
  <1>3. ASSUME NEW u \in User, GoesOn(u) PROVE IInv'
    BY <1>3, VaultPageStep, LookupVaultStep, VaultsKnownStep, CreateTransactionStep,
       TxPageStep, FormatTransactionStep DEF GoesOn
  <1>4. ASSUME NEW u \in work.users,
               \/ GetKeys(u) \/ GoesOn(u) \/ Fails(u)
               \/ \E w \in Workspace : \E v \in 1..(vaults[w] + 1) : SignTransaction(u, <<w, v>>)
               \/ \E i \in DOMAIN txs : GetTransaction(u, i)
               \/ \E ids \in SUBSET DOMAIN txs : GetTransactions(u, ids, None)
               \/ \E w \in Workspace : \E v \in 1..vaults[w] : GetTransactions(u, {}, <<w, v>>)
        PROVE  IInv'
    BY <1>1, <1>3, <1>4, FailsStep, BeginSteps
  <1>5. CASE Next
    BY <1>4, <1>5, AddVaultStep, CreateElsewhereStep, DecideStep, SetConfigurationStep DEF Next
  <1> QED BY <1>2, <1>5

LEMMA Invariant == Spec => []IInv
  BY InitInvariant, Invariance, PTL DEF Spec

-----------------------------------------------------------------------------
(* Theorems *)

\* Types of Fireblocks, the handlers with their caches and the requests; a request
\* stays with its handler and workspace, and reads no further than its pages go.
THEOREM TypeCorrect == Spec => []TypeOK
  <1>1. ASSUME IInv PROVE TypeOK
    <2>1. vaults \in [Workspace -> Nat] /\ txs \in Seq(Tx) /\ clock \in Nat
      BY <1>1 DEF IInv, Types
    <2>2. \A h \in DOMAIN handlers :
             /\ DOMAIN handlers[h].pathOf \subseteq Key
             /\ \A v \in DOMAIN handlers[h].keyAt : handlers[h].keyAt[v] \in Key
      BY <1>1, SeqElement, CacheTypes DEF IInv, Types
    <2>3. ASSUME NEW u \in User
          PROVE  /\ req[u].h \in DOMAIN handlers /\ req[u].w \in Workspace \cup {None}
                 /\ req[u].at \in {"idle", "vaults", "lookup", "create", "page", "format",
                                   "done", "refused", "failed"}
                 /\ req[u].at # "idle" => req[u].after <= vaults[req[u].w]
                 /\ req[u].before <= clock /\ DOMAIN req[u].page \subseteq DOMAIN txs
      <3>1. PICK r : r = req[u] OBVIOUS
      <3>2. r \in ReqType /\ GoodRequest(u, r, handlers, vaults, txs) BY <1>1, <3>1, Context
      <3>3. r.h \in DOMAIN handlers /\ (r.at # "idle" => r.after <= vaults[r.w])
        BY <3>2 DEF GoodRequest, Home
      <3>4. r.before <= clock
        <4>1. r.before = 0 \/ \E i \in DOMAIN txs : r.before < txs[i].created
          BY <3>2 DEF GoodRequest, ListReq
        <4>2. \A i \in DOMAIN txs : txs[i].created \in 2..clock BY <1>1 DEF IInv, Times
        <4>3. r.before \in Nat /\ clock \in Nat BY <2>1, <3>2 DEF ReqType
        <4> QED BY <4>1, <4>2, <4>3
      <3>5. DOMAIN r.page \subseteq DOMAIN txs
        BY <3>2 DEF GoodRequest, ListReq, OnPage
      <3> QED BY <3>1, <3>2, <3>3, <3>4, <3>5 DEF ReqType, Stage
    <2> QED BY <2>1, <2>2, <2>3 DEF TypeOK
  <1> QED BY <1>1, Invariant, PTL

\* What a request has signed is signed with the key it asked for, for any number of
\* users, workspaces, vaults and configurations: however requests interleave, a
\* handler whose users open one workspace keeps no wrong path of a key.
THEOREM SignsWithKeyAlways == Spec => []SignsWithKey
  <1>1. ASSUME IInv PROVE SignsWithKey
    <2>1. \A i \in DOMAIN txs : AskedIsKey(txs[i], handlers) BY <1>1 DEF IInv, Asked
    <2> QED BY <2>1 DEF SignsWithKey, AskedIsKey, OneWorkspace, Uniform
  <1> QED BY <1>1, Invariant, PTL

\* A key whose vault was there when its request began is known when all the pages of
\* vaults have come, for pages of any size and with vaults added in between.
THEOREM VaultsAreKnownAlways == Spec => []VaultsAreKnown
  <1>1. ASSUME IInv PROVE VaultsAreKnown
    <2>1. SUFFICES ASSUME NEW u \in User, NEW r, r = req[u], OneWorkspace(r.h)
                   PROVE  /\ r.at = "refused" => r.key \notin {<<r.w, v>> : v \in 1..r.had}
                          /\ r.at = "done" /\ r.op = "keys" =>
                             /\ {<<r.w, v>> : v \in 1..r.had} \subseteq {r.told[k] : k \in DOMAIN r.told}
                             /\ \A key \in {r.told[k] : k \in DOMAIN r.told} : key[1] = r.w
      BY DEF VaultsAreKnown
    <2>2. PICK hd : hd = handlers[r.h] OBVIOUS
    <2>3. Uniform(hd) BY <2>1, <2>2 DEF OneWorkspace, Uniform
    <2>4. r \in ReqType /\ VaultReq(r, hd) BY <1>1, <2>1, <2>2, Context DEF GoodRequest
    <2>5. r.at = "refused" => r.key \notin {<<r.w, v>> : v \in 1..r.had} BY <2>3, <2>4 DEF VaultReq
    <2>6. ASSUME r.at = "done", r.op = "keys"
          PROVE  /\ {<<r.w, v>> : v \in 1..r.had} \subseteq {r.told[k] : k \in DOMAIN r.told}
                 /\ \A key \in {r.told[k] : k \in DOMAIN r.told} : key[1] = r.w
      <3>1. r.had <= Len(r.told) /\ r.had \in Nat /\ DOMAIN r.told = 1..Len(r.told) /\ Len(r.told) \in Nat
        BY <2>4, <2>6 DEF VaultReq, ReqType
      <3>2. \A k \in DOMAIN r.told : r.told[k] = <<r.w, k>> BY <2>3, <2>4, <2>6 DEF VaultReq, ToldKeys
      <3>3. \A v \in 1..r.had : v \in DOMAIN r.told BY <3>1
      <3> QED BY <3>2, <3>3
    <2> QED BY <2>5, <2>6
  <1> QED BY <1>1, Invariant, PTL

\* A list tells every transaction it wants, once and with its key, but for one tied
\* with another, for pages of any size, while transactions come and are decided.
THEOREM ListsAllAlways == Spec => []ListsAll
  <1>1. ASSUME IInv PROVE ListsAll
    <2>1. SUFFICES ASSUME NEW u \in User, NEW r, r = req[u], r.at = "done", r.op \in {"get", "list"},
                          OneWorkspace(r.h)
                   PROVE  /\ \A i \in Wanted(r) : Tied(i) \/ \E k \in DOMAIN r.told : r.told[k].id = i
                          /\ \A k, m \in DOMAIN r.told : r.told[k].id = r.told[m].id => k = m
                          /\ \A k \in DOMAIN r.told : r.told[k].key = KeyOf(txs[r.told[k].id])
      BY DEF ListsAll
    <2>2. PICK hd : hd = handlers[r.h] OBVIOUS
    <2>3. Uniform(hd) BY <2>1, <2>2 DEF OneWorkspace, Uniform
    <2>4. ListReq(r, hd, txs) BY <1>1, <2>1, <2>2, Context DEF GoodRequest
    <2>5. Covered(r, txs) /\ Once(r) /\ ToldFound(r, hd, txs) BY <2>1, <2>3, <2>4 DEF ListReq
    <2>6. \A i \in Wanted(r) : Tied(i) \/ \E k \in DOMAIN r.told : r.told[k].id = i
      <3>1. Wanted(r) = WantedOf(r, txs) BY DEF Wanted, WantedOf
      <3> QED BY <2>1, <2>5, <3>1 DEF Covered, Ahead, TiedIn, Tied, ToldId
    <2> QED BY <2>3, <2>5, <2>6 DEF Once, ToldFound
  <1> QED BY <1>1, Invariant, PTL

=============================================================================
