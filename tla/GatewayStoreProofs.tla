------------------------- MODULE GatewayStoreProofs -------------------------
(***************************************************************************)
(* Theorems about GatewayStore, for any users, networks, providers, rows,   *)
(* configurations and earlier releases, and any number of crashes.          *)
(***************************************************************************)
EXTENDS GatewayStore, NaturalsInduction, WellFoundedInduction, TLAPS

Migrations == WalletMigrations \cup SigningMigrations

-----------------------------------------------------------------------------
(* The scripts of the migrations.                                          *)

Making == {"create", "add"}
Copying == {"drop_copy", "create_copy", "fill_copy", "drop", "rename"}

\* The migration that writes a table anew, and the one that makes it.
Rewriter(t) == IF t = "wallets" THEN 6 ELSE 10
Maker(t) == IF t = "wallets" THEN 1 ELSE 8

\* Statement a comes right before the one with number k.
After(s, k, what, t) == k - 1 \in DOMAIN s /\ s[k - 1].do = what /\ s[k - 1].on = t

\* A script makes what its migration should, and only that; it drops a table when
\* the copy is filled, and renames the copy when the table is dropped.
Ordered(s, m, pg) ==
    \A k \in DOMAIN s :
        /\ s[k].do \in Copying =>
              s[k].on \in Rebuilt /\ Rewriter(s[k].on) = m /\ (m = 6 => ~pg)
        /\ s[k].do = "drop" => After(s, k, "fill_copy", s[k].on)
        /\ s[k].do = "rename" => After(s, k, "drop", s[k].on)
        /\ s[k].do = "demote" <=> (m = 7 /\ k = 1)

\* What a script has made it does not drop, and it renames a copy for good.
Lasting(s) ==
    \A j, k \in DOMAIN s : j < k =>
        /\ s[j].do \in Making /\ s[k].do = "drop" =>
              s[j].on # s[k].on /\ s[j].on # Loses[s[k].on]
        /\ s[j].do = "rename" /\ s[k].do \in {"create_copy", "drop"} => s[j].on # s[k].on

Renames(s, t) == \E k \in DOMAIN s : s[k].do = "rename" /\ s[k].on = t
Makes(s, x) ==
    \/ \E k \in DOMAIN s : s[k].do \in Making /\ s[k].on = x
    \/ \E t \in Rebuilt : Renames(s, t) /\ x = Gains[t]

\* It restores all that it drops.
Restores(s, m, pg) ==
    \A t \in Rebuilt : Rewriter(t) = m /\ (m = 6 => ~pg) =>
        Renames(s, t) /\ (m = 10 => Makes(s, Loses[t]))

Complete(s, m) ==
    /\ \A x \in Made(m) : Makes(s, x)
    /\ \A k \in DOMAIN s : s[k].do \in Making => s[k].on \in Made(m)
    /\ \A k \in DOMAIN s : s[k].do = "rename" => Gains[s[k].on] \in Made(m)

Shape(s, m, pg) ==
    /\ Len(s) \in Nat \ {0} /\ DOMAIN s = 1..Len(s)
    /\ Ordered(s, m, pg) /\ Lasting(s) /\ Restores(s, m, pg) /\ Complete(s, m)

\* What the migrations make: the tables, columns, indexes and keys by name.
LEMMA Script6 ==
    ASSUME NEW pg, ~pg
    PROVE  LET s == Script(6, pg) IN
           /\ DOMAIN s = 1..5 /\ Len(s) = 5
           /\ s[1] = Do("drop_copy", "wallets") /\ s[2] = Do("create_copy", "wallets")
           /\ s[3] = Do("fill_copy", "wallets") /\ s[4] = Do("drop", "wallets")
           /\ s[5] = Do("rename", "wallets")
  BY DEF Script, Rebuild

LEMMA Script10 ==
    ASSUME NEW pg \in BOOLEAN
    PROVE  LET s == Script(10, pg) IN
           /\ DOMAIN s = 1..12 /\ Len(s) = 12
           /\ s[1] = Do("drop_copy", "signing_transactions")
           /\ s[2] = Do("drop_copy", "signing_keys")
           /\ s[3] = Do("create_copy", "signing_transactions")
           /\ s[4] = Do("fill_copy", "signing_transactions")
           /\ s[5] = Do("drop", "signing_transactions")
           /\ s[6] = Do("rename", "signing_transactions")
           /\ s[7] = Do("create", "signing_transactions_index")
           /\ s[8] = Do("create_copy", "signing_keys")
           /\ s[9] = Do("fill_copy", "signing_keys")
           /\ s[10] = Do("drop", "signing_keys")
           /\ s[11] = Do("rename", "signing_keys")
           /\ s[12] = Do("create", "signing_keys_index")
  BY DEF Script, Rebuild

\* The first of some migrations.
LEMMA First ==
    ASSUME NEW P \in SUBSET Migrations, P # {}
    PROVE  \E m \in P : \A k \in P : m <= k
  <1>1. P \subseteq Nat
    BY DEF Migrations, WalletMigrations, SigningMigrations
  <1>2. PICK m \in P : \A k \in P : ~ (<<k, m>> \in OpToRel(<, Nat))
    BY <1>1, NatLessThanWellFounded, WFMin
  <1>3. \A k \in P : ~ (k < m)
    BY <1>1, <1>2, Zenon DEF OpToRel
  <1>. QED BY <1>1, <1>3

LEMMA CurrentIsFirst ==
    ASSUME pending \in SUBSET Migrations, pending # {}
    PROVE  Current \in pending /\ \A k \in pending : Current <= k
  BY First DEF Current

LEMMA Made10 ==
    \A x : x \in Made(10) <=>
              x \in {"signing_transactions_index", "signing_keys_index",
                     "transaction_dates_as_text", "key_dates_as_text"}
  <1>1. PICK t : t = Script(10, FALSE)
    OBVIOUS
  <1>2. /\ DOMAIN t = 1..12 /\ Len(t) = 12
        /\ t[1] = Do("drop_copy", "signing_transactions")
        /\ t[2] = Do("drop_copy", "signing_keys")
        /\ t[3] = Do("create_copy", "signing_transactions")
        /\ t[4] = Do("fill_copy", "signing_transactions")
        /\ t[5] = Do("drop", "signing_transactions")
        /\ t[6] = Do("rename", "signing_transactions")
        /\ t[7] = Do("create", "signing_transactions_index")
        /\ t[8] = Do("create_copy", "signing_keys")
        /\ t[9] = Do("fill_copy", "signing_keys")
        /\ t[10] = Do("drop", "signing_keys")
        /\ t[11] = Do("rename", "signing_keys")
        /\ t[12] = Do("create", "signing_keys_index")
    BY <1>1, Script10
  <1>3. \A x : x \in Made(10) <=>
           \/ \E k \in DOMAIN t : t[k].do \in Making /\ t[k].on = x
           \/ \E k \in DOMAIN t : t[k].do = "rename" /\ Gains[t[k].on] = x
    <2>1. 10 \in Migrations
      BY DEF Migrations, SigningMigrations
    <2>. QED BY <1>1 DEF Made, Doing, Making
  <1>4. \A k \in DOMAIN t : t[k].do \in Making =>
           t[k].on \in {"signing_transactions_index", "signing_keys_index"}
    BY <1>2 DEF Do, Making
  <1>5. \A k \in DOMAIN t : t[k].do = "rename" =>
           Gains[t[k].on] \in {"transaction_dates_as_text", "key_dates_as_text"}
    BY <1>2 DEF Do, Gains
  <1>6. /\ t[6].do = "rename" /\ Gains[t[6].on] = "transaction_dates_as_text"
        /\ t[11].do = "rename" /\ Gains[t[11].on] = "key_dates_as_text"
        /\ t[7].do \in Making /\ t[7].on = "signing_transactions_index"
        /\ t[12].do \in Making /\ t[12].on = "signing_keys_index"
        /\ 6 \in DOMAIN t /\ 7 \in DOMAIN t /\ 11 \in DOMAIN t /\ 12 \in DOMAIN t
    BY <1>2 DEF Do, Making, Gains
  <1>. QED BY <1>3, <1>4, <1>5, <1>6

LEMMA Shape10 ==
    ASSUME NEW pg \in BOOLEAN
    PROVE  Shape(Script(10, pg), 10, pg)
  <1>. DEFINE s == Script(10, pg)
  <1>0. /\ DOMAIN s = 1..12 /\ Len(s) = 12
        /\ s[1] = Do("drop_copy", "signing_transactions")
        /\ s[2] = Do("drop_copy", "signing_keys")
        /\ s[3] = Do("create_copy", "signing_transactions")
        /\ s[4] = Do("fill_copy", "signing_transactions")
        /\ s[5] = Do("drop", "signing_transactions")
        /\ s[6] = Do("rename", "signing_transactions")
        /\ s[7] = Do("create", "signing_transactions_index")
        /\ s[8] = Do("create_copy", "signing_keys")
        /\ s[9] = Do("fill_copy", "signing_keys")
        /\ s[10] = Do("drop", "signing_keys")
        /\ s[11] = Do("rename", "signing_keys")
        /\ s[12] = Do("create", "signing_keys_index")
    BY Script10
  <1>00. Complete(s, 10)
    <2>3. \A x \in Made(10) : Makes(s, x)
      BY <1>0, Made10 DEF Makes, Renames, Rebuilt, Do, Making, Gains
    <2>4. \A k \in DOMAIN s : s[k].do \in Making => s[k].on \in Made(10)
      BY <1>0, Made10 DEF Do, Making
    <2>5. \A k \in DOMAIN s : s[k].do = "rename" => Gains[s[k].on] \in Made(10)
      BY <1>0, Made10 DEF Do, Gains
    <2>. QED BY <2>3, <2>4, <2>5 DEF Complete
  <1>. HIDE DEF s
  <1>1. \A k \in DOMAIN s :
           s[k].do \in Copying => s[k].on \in Rebuilt /\ Rewriter(s[k].on) = 10
    BY <1>0 DEF Copying, Rebuilt, Rewriter, Do
  <1>2. \A k \in DOMAIN s : s[k].do = "drop" => After(s, k, "fill_copy", s[k].on)
    BY <1>0 DEF Do, After
  <1>3. \A k \in DOMAIN s : s[k].do = "rename" => After(s, k, "drop", s[k].on)
    BY <1>0 DEF Do, After
  <1>4. \A k \in DOMAIN s : s[k].do # "demote"
    BY <1>0 DEF Do
  <1>5. Ordered(s, 10, pg)
    BY <1>1, <1>2, <1>3, <1>4 DEF Ordered
  <1>6. \A j, k \in DOMAIN s : j < k /\ s[j].do \in Making /\ s[k].do = "drop" =>
              s[j].on # s[k].on /\ s[j].on # Loses[s[k].on]
    BY <1>0 DEF Do, Making, Loses
  <1>7. \A j, k \in DOMAIN s :
           j < k /\ s[j].do = "rename" /\ s[k].do \in {"create_copy", "drop"} => s[j].on # s[k].on
    BY <1>0 DEF Do
  <1>8. Lasting(s)
    BY <1>6, <1>7 DEF Lasting
  <1>9. Restores(s, 10, pg)
    BY <1>0 DEF Restores, Renames, Makes, Making, Rewriter, Rebuilt, Loses, Do
  <1>. QED BY <1>0, <1>00, <1>5, <1>8, <1>9 DEF Shape, s

LEMMA Made6 == \A x : x \in Made(6) <=> x = "composite_key"
  <1>1. PICK t : t = Script(6, FALSE)
    OBVIOUS
  <1>2. /\ DOMAIN t = 1..5 /\ Len(t) = 5
        /\ t[1] = Do("drop_copy", "wallets") /\ t[2] = Do("create_copy", "wallets")
        /\ t[3] = Do("fill_copy", "wallets") /\ t[4] = Do("drop", "wallets")
        /\ t[5] = Do("rename", "wallets")
    BY <1>1, Script6
  <1>3. \A x : x \in Made(6) <=>
           \/ \E k \in DOMAIN t : t[k].do \in Making /\ t[k].on = x
           \/ \E k \in DOMAIN t : t[k].do = "rename" /\ Gains[t[k].on] = x
    BY <1>1 DEF Made, Doing, Making
  <1>4. \A k \in DOMAIN t : t[k].do \notin Making /\ Gains[t[k].on] = "composite_key"
    BY <1>2 DEF Do, Making, Gains
  <1>5. 5 \in DOMAIN t /\ t[5].do = "rename"
    BY <1>2 DEF Do
  <1>. QED BY <1>3, <1>4, <1>5

LEMMA Shape6 ==
    ASSUME NEW pg \in BOOLEAN, ~pg
    PROVE  Shape(Script(6, pg), 6, pg)
  <1>. DEFINE s == Script(6, pg)
  <1>0. /\ DOMAIN s = 1..5 /\ Len(s) = 5
        /\ s[1] = Do("drop_copy", "wallets") /\ s[2] = Do("create_copy", "wallets")
        /\ s[3] = Do("fill_copy", "wallets") /\ s[4] = Do("drop", "wallets")
        /\ s[5] = Do("rename", "wallets")
    BY Script6
  <1>. HIDE DEF s
  <1>1. \A k \in DOMAIN s : s[k].on = "wallets" /\ s[k].do \notin Making /\ s[k].do # "demote"
    BY <1>0 DEF Do, Making
  <1>2. \A k \in DOMAIN s : s[k].do = "drop" => After(s, k, "fill_copy", s[k].on)
    BY <1>0 DEF Do, After
  <1>3. \A k \in DOMAIN s : s[k].do = "rename" => After(s, k, "drop", s[k].on)
    BY <1>0 DEF Do, After
  <1>4. \A j, k \in DOMAIN s : ~(j < k /\ s[j].do = "rename")
    BY <1>0 DEF Do
  <1>5. Renames(s, "wallets")
    BY <1>0 DEF Renames, Do
  <1>6. Ordered(s, 6, pg)
    BY <1>1, <1>2, <1>3 DEF Ordered, Rebuilt, Rewriter
  <1>7. Lasting(s)
    BY <1>1, <1>4 DEF Lasting
  <1>8. Restores(s, 6, pg)
    BY <1>5 DEF Restores, Rewriter
  <1>9. Complete(s, 6)
    BY <1>1, <1>5, Made6 DEF Complete, Makes, Rebuilt, Gains
  <1>. QED BY <1>0, <1>6, <1>7, <1>8, <1>9 DEF Shape, s

LEMMA Shape6Postgres ==
    ASSUME NEW pg \in BOOLEAN, pg
    PROVE  Shape(Script(6, pg), 6, pg)
  <1>1. PICK s : s = Script(6, pg)
    OBVIOUS
  <1>2. /\ DOMAIN s = 1..2 /\ Len(s) = 2
        /\ s[1] = Do("not_null", "wallets") /\ s[2] = Do("create", "composite_key")
    BY <1>1 DEF Script
  <1>3. \A k \in DOMAIN s : s[k].do \notin Copying /\ s[k].do # "demote"
    BY <1>2 DEF Copying, Do
  <1>4. Makes(s, "composite_key") /\ \A k \in DOMAIN s : s[k].do \in Making => s[k].on = "composite_key"
    BY <1>2 DEF Makes, Making, Do
  <1>5. Ordered(s, 6, pg) /\ Lasting(s)
    BY <1>3 DEF Ordered, Lasting, Copying
  <1>6. Restores(s, 6, pg) /\ Complete(s, 6)
    BY <1>3, <1>4, Made6 DEF Restores, Complete, Copying
  <1>7. Len(s) \in Nat \ {0} /\ DOMAIN s = 1..Len(s)
    BY <1>2
  <1>8. Shape(s, 6, pg)
    BY <1>5, <1>6, <1>7 DEF Shape
  <1>. QED BY <1>1, <1>8

LEMMA ShapeOther ==
    ASSUME NEW m \in Migrations \ {6, 10}, NEW pg \in BOOLEAN
    PROVE  Shape(Script(m, pg), m, pg)
  <1>1. PICK s : s = Script(m, pg)
    OBVIOUS
  <1>2. m \in {1, 2, 3, 4, 5, 7, 8, 9}
    BY DEF Migrations, WalletMigrations, SigningMigrations
  <1>3. s = Script(m, FALSE)
    BY <1>1, <1>2 DEF Script
  <1>4. \A k \in DOMAIN s : s[k].do \notin Copying
    BY <1>1, <1>2 DEF Copying, Do, Script
  <1>5. \A k \in DOMAIN s : s[k].do = "demote" <=> (m = 7 /\ k = 1)
    BY <1>1, <1>2 DEF Do, Script
  <1>6. Len(s) \in Nat \ {0} /\ DOMAIN s = 1..Len(s)
    <2>1. m \in {1, 8} => Len(s) = 5 /\ DOMAIN s = 1..5
      BY <1>1 DEF Script
    <2>2. m \in {2, 5, 7} => Len(s) = 2 /\ DOMAIN s = 1..2
      BY <1>1 DEF Script
    <2>3. m \in {3, 4, 9} => Len(s) = 1 /\ DOMAIN s = 1..1
      BY <1>1 DEF Script
    <2>4. CASE m \in {1, 8}
      BY <2>1, <2>4
    <2>5. CASE m \in {2, 5, 7}
      BY <2>2, <2>5
    <2>6. CASE m \in {3, 4, 9}
      BY <2>3, <2>6
    <2>. QED BY <1>2, <2>4, <2>5, <2>6
  <1>7. \A x : x \in Made(m) <=>
           \/ \E k \in DOMAIN s : s[k].do \in Making /\ s[k].on = x
           \/ \E k \in DOMAIN s : s[k].do = "rename" /\ Gains[s[k].on] = x
    BY <1>3 DEF Made, Doing, Making
  <1>8. Ordered(s, m, pg) /\ Lasting(s)
    BY <1>2, <1>4, <1>5 DEF Ordered, Lasting, Copying
  <1>9. Restores(s, m, pg)
    BY <1>2 DEF Restores, Rewriter, Rebuilt
  <1>10. Complete(s, m)
    BY <1>4, <1>7 DEF Complete, Makes, Copying
  <1>. QED BY <1>1, <1>6, <1>8, <1>9, <1>10 DEF Shape

\* Every script is in shape.
LEMMA Shapes ==
    ASSUME NEW m \in Migrations, NEW pg \in BOOLEAN
    PROVE  Shape(Script(m, pg), m, pg)
  BY Shape6, Shape6Postgres, Shape10, ShapeOther

LEMMA Names ==
    /\ \A m \in Migrations : \A t \in Rebuilt : Copy[t] \notin Made(m)
    /\ \A m \in Migrations : "one_primary" \in Made(m) => m = 7
    /\ \A t \in Rebuilt : Maker(t) \in Migrations /\ t \in Made(Maker(t))
    /\ \A m \in Migrations : \A t \in Rebuilt : t \in Made(m) => m = Maker(t)
  <1>1. ASSUME NEW m \in Migrations
        PROVE  /\ \A t \in Rebuilt : Copy[t] \notin Made(m)
               /\ "one_primary" \in Made(m) => m = 7
               /\ \A t \in Rebuilt : t \in Made(m) => m = Maker(t)
    <2>1. CASE m = 6
      BY <2>1, Made6 DEF Rebuilt, Copy, Maker
    <2>2. CASE m = 10
      BY <2>2, Made10 DEF Rebuilt, Copy, Maker
    <2>3. CASE m \in Migrations \ {6, 10}
      <3>1. m \in {1, 2, 3, 4, 5, 7, 8, 9}
        BY <2>3 DEF Migrations, WalletMigrations, SigningMigrations
      <3>2. PICK s : s = Script(m, FALSE)
        OBVIOUS
      <3>3. Complete(s, m) /\ Ordered(s, m, FALSE)
        BY <3>2, Shapes DEF Shape
      <3>4. \A k \in DOMAIN s : s[k].do # "rename"
        BY <3>1, <3>3 DEF Ordered, Copying, Rewriter
      <3>5. \A x \in Made(m) : \E k \in DOMAIN s : s[k].do \in Making /\ s[k].on = x
        BY <3>3, <3>4 DEF Complete, Makes, Renames
      <3>6. \A k \in DOMAIN s : s[k].on \notin {"wallets_new", "signing_keys_tmp", "signing_transactions_tmp"}
        BY <3>1, <3>2 DEF Script, Do
      <3>7. m # 7 => \A k \in DOMAIN s : s[k].on # "one_primary"
        BY <3>1, <3>2 DEF Script, Do
      <3>8. \A t \in Rebuilt : Copy[t] \in {"wallets_new", "signing_keys_tmp", "signing_transactions_tmp"}
        BY DEF Rebuilt, Copy
      <3>9. m # 1 => \A k \in DOMAIN s : s[k].do \in Making => s[k].on # "wallets"
        <4>1. m \notin {1, 7} => \A k \in DOMAIN s : s[k].on # "wallets"
          BY <3>1, <3>2 DEF Script, Do
        <4>2. m = 7 => s[1].do = "demote" /\ DOMAIN s = 1..2 /\ s[2].on = "one_primary"
          BY <3>2 DEF Script, Do
        <4>. QED BY <4>1, <4>2 DEF Making
      <3>10. m # 8 => \A k \in DOMAIN s : s[k].on \notin {"signing_keys", "signing_transactions"}
        BY <3>1, <3>2 DEF Script, Do
      <3>11. \A t \in Rebuilt : t \in Made(m) => m = Maker(t)
        BY <3>5, <3>9, <3>10 DEF Rebuilt, Maker
      <3>. QED BY <3>5, <3>6, <3>7, <3>8, <3>11
    <2>. QED BY <2>1, <2>2, <2>3
  <1>2. "wallets" \in Made(1)
    BY DEF Made, Doing, Script, Do
  <1>3. "signing_keys" \in Made(8) /\ "signing_transactions" \in Made(8)
    BY DEF Made, Doing, Script, Do
  <1>4. \A t \in Rebuilt : Maker(t) \in Migrations /\ t \in Made(Maker(t))
    BY <1>2, <1>3 DEF Rebuilt, Maker, Migrations, WalletMigrations, SigningMigrations
  <1>. QED BY <1>1, <1>4

-----------------------------------------------------------------------------
(* Types.                                                                  *)

LEMMA SchemaHolds ==
    ASSUME NEW m \in Migrations, NEW x \in Made(m)
    PROVE  x \in FullSchema
  BY DEF FullSchema, Migrations

\* What a statement is about.
LEMMA StatementType ==
    ASSUME MigrationOK, Migrating
    PROVE  /\ Current \in pending /\ Current \in Migrations
           /\ \A k \in pending : Current <= k
           /\ Shape(Statements, Current, postgres)
           /\ step <= Len(Statements) => step \in DOMAIN Statements
  <1>1. pending \in SUBSET Migrations /\ pending # {}
    BY DEF MigrationOK, Migrating, Migrations
  <1>2. Current \in pending /\ \A k \in pending : Current <= k
    BY <1>1, CurrentIsFirst
  <1>3. postgres \in BOOLEAN
    BY DEF MigrationOK
  <1>4. Shape(Statements, Current, postgres)
    BY <1>1, <1>2, <1>3, Shapes DEF Statements
  <1>5. step <= Len(Statements) => step \in DOMAIN Statements
    BY <1>4 DEF Shape, MigrationOK
  <1>. QED BY <1>1, <1>2, <1>4, <1>5

LEMMA MadeType ==
    ASSUME MigrationOK, Migrating, step \in DOMAIN Statements
    PROVE  /\ Statement.do \in Making => Statement.on \in FullSchema
           /\ Statement.do \in Copying => Statement.on \in Rebuilt
           /\ Statement.do = "rename" => Gains[Statement.on] \in FullSchema
  <1>1. Shape(Statements, Current, postgres) /\ Current \in Migrations
    BY StatementType
  <1>2. Statement.do \in Making => Statement.on \in Made(Current)
    BY <1>1 DEF Shape, Complete, Statement
  <1>3. Statement.do \in Copying => Statement.on \in Rebuilt
    BY <1>1 DEF Shape, Ordered, Statement
  <1>4. Statement.do = "rename" => Gains[Statement.on] \in Made(Current)
    BY <1>1 DEF Shape, Complete, Statement
  <1>. QED BY <1>1, <1>2, <1>3, <1>4, SchemaHolds

LEMMA RebuiltInSchema == Rebuilt \subseteq FullSchema
  BY Names, SchemaHolds

\* A provider that is about to be stored is one, and so is a wallet.
StageKnown ==
    \A u \in User :
        /\ req[u].at = "insert_idp" => req[u].idp \in Idp
        /\ req[u].at = "insert_wallet" => req[u].wallet \in WalletRow

LEMMA TypeInit ==
    ASSUME GatewayInit
    PROVE  TypeOK /\ StageKnown
  <1>. USE DEF GatewayInit, Init
  <1>1. PICK v \in 0..7, s \in 0..3, signing \in {{}, SigningRow} :
          /\ log = (1..v) \cup (8..(7 + s))
          /\ idps = IF v = 0 THEN {} ELSE ConfigIdps
          /\ \E table \in LeftBy(v) :
                rows = [t \in Rebuilt |-> IF t = "wallets" THEN table ELSE signing]
          /\ created \in {v > 0, TRUE}
    OBVIOUS
  <1>2. log \subseteq WalletMigrations \cup SigningMigrations
    BY <1>1 DEF WalletMigrations, SigningMigrations
  <1>3. objects \subseteq FullSchema
    BY <1>2, SchemaHolds DEF Migrations
  <1>4. RowsOK(rows)
    BY <1>1, OldWalletsAssumption DEF RowsOK, LeftBy, Rebuilt
  <1>5. RowsOK(copy)
    BY DEF RowsOK, Rebuilt
  <1>6. idps \subseteq Idp
    BY <1>1, ConfigAssumption
  <1>7. networks \in [Network -> NetworkRow \cup {Null}]
    BY ConfigAssumption DEF NetworkRow
  <1>8. sessions \in [User -> Network \cup {Null}]
    BY ConfigAssumption
  <1>9. TablesOK
    BY <1>4, <1>6, <1>7, <1>8 DEF TablesOK
  <1>10. RegistryOK
    BY <1>9, RegistryAssumption DEF RegistryOK, RegistryInit, Request, Stages, Idle, Stage
  <1>11. {postgres, existed, created, fresh} \subseteq BOOLEAN
    <2>1. postgres \in BOOLEAN /\ fresh = FALSE /\ existed = created
      OBVIOUS
    <2>2. (v > 0) \in BOOLEAN
      OBVIOUS
    <2>3. created \in BOOLEAN
      BY <1>1, <2>2, Zenon
    <2>. QED BY <2>1, <2>3
  <1>12. MigrationOK
    BY <1>2, <1>3, <1>5, <1>11, BoundsAssumption DEF MigrationOK, Phases
  <1>. QED BY <1>10, <1>12 DEF TypeOK, StageKnown, RegistryInit, Idle, Stage

LEMMA TypeStart ==
    ASSUME TypeOK, StartStep
    PROVE  TypeOK'
  <1>. USE DEF TypeOK
  <1>1. req' \in [User -> Request] /\ requests' \in 0..MaxRequests
    BY DEF StartStep, RegistryOK, Idle, Stage, Stages, Request
  <1>2. CASE StartGateway
    <2>1. TablesOK'
      BY <1>2 DEF StartGateway, tables, RegistryOK, TablesOK
    <2>2. MigrationOK'
      BY <1>2 DEF StartGateway, tables, counts, Enter, MigrationOK, Phases
    <2>. QED BY <1>1, <2>1, <2>2 DEF RegistryOK
  <1>3. ASSUME NEW c \in {"db_up", "db_bootstrap"}, StartCommand(c)
        PROVE  TypeOK'
    <2>1. TablesOK'
      BY <1>3 DEF StartCommand, tables, RegistryOK, TablesOK
    <2>2. commands' \in 0..MaxCommands
      BY <1>3, BoundsAssumption DEF StartCommand, MigrationOK
    <2>3. /\ phase' \in Phases /\ pending' \subseteq WalletMigrations \cup SigningMigrations
          /\ load' \subseteq Config /\ step' = 1
      BY <1>3 DEF StartCommand, Enter, Phases
    <2>4. MigrationOK'
      <3>1. /\ created' = TRUE /\ fresh' = FALSE /\ command' = c
            /\ UNCHANGED <<postgres, existed, objects, copy, log, crashes>>
        BY <1>3 DEF StartCommand
      <3>2. {postgres', existed', created', fresh'} \subseteq BOOLEAN
        BY <3>1 DEF MigrationOK
      <3>3. RowsOK(copy')
        BY <3>1 DEF MigrationOK
      <3>. QED BY <2>2, <2>3, <3>1, <3>2, <3>3 DEF MigrationOK
    <2>. QED BY <1>1, <2>1, <2>4 DEF RegistryOK
  <1>4. ASSUME Exit PROVE TablesOK' /\ MigrationOK'
    <2>1. TablesOK'
      BY <1>4 DEF Exit, tables, RegistryOK, TablesOK
    <2>2. /\ phase' = "down" /\ pending' = {} /\ load' = {} /\ step' = 1
          /\ command' = "none" /\ fresh' = FALSE /\ UNCHANGED <<database, counts>>
      BY <1>4 DEF Exit, Down, Enter
    <2>3. {postgres', existed', created', fresh'} \subseteq BOOLEAN
      BY <2>2 DEF database, MigrationOK
    <2>4. RowsOK(copy')
      BY <2>2 DEF database, MigrationOK
    <2>. QED BY <2>1, <2>2, <2>3, <2>4 DEF database, counts, MigrationOK, Phases
  <1>5. ASSUME Executed, objects' \subseteq FullSchema \cup {Copy[t] : t \in Rebuilt},
               RowsOK(rows'), RowsOK(copy')
        PROVE  TablesOK' /\ MigrationOK'
    BY <1>5 DEF Executed, counts, RegistryOK, TablesOK, MigrationOK, RowsOK
  <1>. DEFINE t == Statement.on
  <1>6. ASSUME NEW what, At(what)
        PROVE  /\ what \in Making => t \in FullSchema
               /\ what \in Copying => t \in Rebuilt
               /\ what = "rename" => Gains[t] \in FullSchema
    BY <1>6, StatementType, MadeType DEF At
  <1>7. RowsOK(rows) /\ RowsOK(copy) /\ objects \subseteq FullSchema \cup {Copy[x] : x \in Rebuilt}
    BY DEF RegistryOK, TablesOK, MigrationOK
  <1>8. CASE CreateObject
    BY <1>1, <1>5, <1>6, <1>7, <1>8 DEF CreateObject, Making, RegistryOK
  <1>9. CASE AddObject
    BY <1>1, <1>4, <1>5, <1>6, <1>7, <1>9 DEF AddObject, Making, RegistryOK
  <1>10. CASE DropCopy
    <2>1. t \in Rebuilt
      BY <1>6, <1>10 DEF DropCopy, Copying
    <2>2. RowsOK(copy')
      BY <1>7, <1>10, <2>1 DEF DropCopy, RowsOK, Rebuilt
    <2>3. RowsOK(rows') /\ objects' \subseteq FullSchema \cup {Copy[x] : x \in Rebuilt} /\ Executed
      BY <1>7, <1>10 DEF DropCopy
    <2>. QED BY <1>1, <1>5, <2>2, <2>3 DEF RegistryOK
  <1>11. CASE CreateCopy
    <2>1. t \in Rebuilt
      BY <1>6, <1>11 DEF CreateCopy, Copying
    <2>. QED BY <1>1, <1>5, <1>7, <1>11, <2>1 DEF CreateCopy, RegistryOK
  <1>12. CASE FillCopy
    <2>1. t \in Rebuilt
      BY <1>6, <1>12 DEF FillCopy, Copying
    <2>2. CASE Exit
      BY <1>1, <1>4, <2>2 DEF RegistryOK
    <2>3. CASE ~Exit
      <3>1. copy' = [copy EXCEPT ![t] = rows[t]] /\ Executed /\ UNCHANGED <<objects, rows>>
        BY <1>12, <2>3 DEF FillCopy
      <3>2. RowsOK(copy')
        BY <1>7, <2>1, <3>1 DEF RowsOK, Rebuilt
      <3>. QED BY <1>1, <1>5, <1>7, <3>1, <3>2 DEF RegistryOK
    <2>. QED BY <2>2, <2>3
  <1>13. CASE DropTable
    <2>1. t \in Rebuilt
      BY <1>6, <1>13 DEF DropTable, Copying
    <2>2. RowsOK(rows')
      BY <1>7, <1>13, <2>1 DEF DropTable, RowsOK, Rebuilt
    <2>. QED BY <1>1, <1>5, <1>7, <1>13, <2>2 DEF DropTable, RegistryOK
  <1>14. CASE RenameCopy
    <2>1. t \in Rebuilt /\ Gains[t] \in FullSchema /\ t \in FullSchema
      BY <1>6, <1>14, RebuiltInSchema DEF RenameCopy, Copying
    <2>2. RowsOK(rows')
      BY <1>7, <1>14, <2>1 DEF RenameCopy, RowsOK, Rebuilt
    <2>3. RowsOK(copy')
      BY <1>7, <1>14, <2>1 DEF RenameCopy, RowsOK, Rebuilt
    <2>4. objects' \subseteq FullSchema \cup {Copy[x] : x \in Rebuilt} /\ Executed
      BY <1>7, <1>14, <2>1 DEF RenameCopy
    <2>. QED BY <1>1, <1>5, <2>2, <2>3, <2>4 DEF RegistryOK
  <1>15. CASE CheckNotNull
    BY <1>1, <1>4, <1>5, <1>7, <1>15 DEF CheckNotNull, RegistryOK
  <1>16. CASE Demote
    <2>1. PICK stay \in SUBSET Primaries(rows["wallets"]) :
            rows' = [rows EXCEPT !["wallets"] =
                        stay \cup {Demoted(w) : w \in rows["wallets"] \ stay}]
      BY <1>16 DEF Demote
    <2>2. \A w \in WalletRow : Demoted(w) \in WalletRow
      BY DEF Demoted, WalletRow
    <2>3. rows'["wallets"] \subseteq WalletRow
      BY <1>7, <2>1, <2>2 DEF RowsOK, Primaries, Rebuilt
    <2>4. RowsOK(rows')
      BY <1>7, <2>1, <2>3 DEF RowsOK, Rebuilt
    <2>. QED BY <1>1, <1>5, <1>7, <1>16, <2>4 DEF Demote, RegistryOK
  <1>17. CASE LogMigration
    <2>1. Current \in WalletMigrations \cup SigningMigrations
      BY <1>17, StatementType DEF LogMigration, Migrations
    <2>2. TablesOK'
      BY <1>17 DEF LogMigration, tables, RegistryOK, TablesOK
    <2>3. MigrationOK'
      BY <1>17, <2>1 DEF LogMigration, counts, MigrationOK
    <2>. QED BY <1>1, <2>2, <2>3 DEF RegistryOK
  <1>18. CASE WalletsMigrated \/ Loaded \/ Ready \/ Crash
    <2>1. TablesOK'
      BY <1>18 DEF WalletsMigrated, Loaded, Ready, Crash, tables, RegistryOK, TablesOK
    <2>2. /\ phase' \in Phases /\ pending' \subseteq WalletMigrations \cup SigningMigrations
          /\ load' \subseteq Config /\ step' = 1
          /\ command' \in {"none", "gateway", "db_up", "db_bootstrap"} /\ fresh' \in BOOLEAN
      BY <1>18 DEF WalletsMigrated, Loaded, Ready, Crash, Down, Enter, Phases, MigrationOK
    <2>3. UNCHANGED database
      BY <1>18 DEF WalletsMigrated, Loaded, Ready, Crash
    <2>4. crashes' \in 0..MaxCrashes /\ commands' \in 0..MaxCommands
      BY <1>18, BoundsAssumption DEF WalletsMigrated, Loaded, Ready, Crash, counts, MigrationOK
    <2>5. MigrationOK'
      BY <2>2, <2>3, <2>4 DEF database, MigrationOK
    <2>. QED BY <1>1, <2>1, <2>5 DEF RegistryOK
  <1>19. ASSUME NEW i \in ConfigIdps, LoadIdp(i)
         PROVE  TypeOK'
    <2>1. CASE Exit
      BY <1>1, <1>4, <2>1 DEF RegistryOK
    <2>2. CASE ~Exit
      <3>1. TablesOK'
        BY <1>19, <2>2, ConfigAssumption DEF LoadIdp, RegistryOK, TablesOK
      <3>2. MigrationOK'
        BY <1>19, <2>2 DEF LoadIdp, database, counts, MigrationOK
      <3>. QED BY <1>1, <3>1, <3>2 DEF RegistryOK
    <2>. QED BY <2>1, <2>2
  <1>20. ASSUME NEW n \in DOMAIN ConfigNetworks, LoadNetwork(n)
         PROVE  TypeOK'
    <2>1. CASE Exit
      BY <1>1, <1>4, <2>1 DEF RegistryOK
    <2>2. CASE ~Exit
      <3>1. networks' \in [Network -> NetworkRow \cup {Null}]
        BY <1>20, <2>2, ConfigAssumption DEF LoadNetwork, InsertNetwork, NetworkRow, RegistryOK, TablesOK
      <3>2. TablesOK'
        BY <1>20, <2>2, <3>1 DEF LoadNetwork, RegistryOK, TablesOK
      <3>3. MigrationOK'
        BY <1>20, <2>2 DEF LoadNetwork, database, counts, MigrationOK
      <3>. QED BY <1>1, <3>2, <3>3 DEF RegistryOK
    <2>. QED BY <2>1, <2>2
  <1>. QED BY <1>2, <1>3, <1>8, <1>9, <1>10, <1>11, <1>12, <1>13, <1>14, <1>15, <1>16,
              <1>17, <1>18, <1>19, <1>20 DEF StartStep, StartNext, Proceed

LEMMA StageType ==
    ASSUME NEW at \in Stages, NEW n \in Network \cup {Null}, NEW i \in Idp \cup {Null}
    PROVE  Stage(at, n, i) \in Request
  BY DEF Stage, Request

LEMMA DeleteType ==
    ASSUME TablesOK, NEW S, DeleteNetworks(S), UNCHANGED sessions, idps' \subseteq Idp
    PROVE  TablesOK'
  <1>1. networks' \in [Network -> NetworkRow \cup {Null}]
    BY DEF DeleteNetworks, TablesOK
  <1>2. RowsOK(rows') /\ RowsOK(due')
    BY DEF DeleteNetworks, TablesOK, RowsOK, Rebuilt
  <1>. QED BY <1>1, <1>2 DEF TablesOK

\* The rows of addWallet: a primary wallet takes over from those of its group.
With(table, w, primary) ==
    {IF primary /\ v.network = w.network /\ v.user = w.user THEN Demoted(v) ELSE v : v \in table}
    \cup {w}

LEMMA AddedWallet ==
    ASSUME NEW u \in User, TypeOK, StageKnown, AddsWallet(u)
    PROVE  /\ Done(u) /\ UNCHANGED <<idps, networks, sessions>>
           /\ \/ UNCHANGED <<rows, due>>
              \/ \E primary \in BOOLEAN, w \in WalletRow :
                    /\ w.primary = primary
                    /\ Key(w) \notin Keys(rows["wallets"])
                    /\ rows' = [rows EXCEPT !["wallets"] = With(rows["wallets"], w, primary)]
                    /\ due' = [due EXCEPT !["wallets"] = With(due["wallets"], w, primary)]
  <1>. DEFINE wallet == req[u].wallet
  <1>1. wallet \in WalletRow /\ wallet.primary \in BOOLEAN
    BY DEF StageKnown, AddsWallet, Reached, WalletRow
  <1>2. \A table : With(table, wallet, wallet.primary) =
          {IF wallet.primary /\ w.network = wallet.network /\ w.user = wallet.user
           THEN Demoted(w) ELSE w : w \in table}
          \cup {wallet}
    BY DEF With
  <1>3. \/ UNCHANGED <<rows, due>>
        \/ /\ Key(wallet) \notin Keys(rows["wallets"])
           /\ rows' = [rows EXCEPT !["wallets"] = With(rows["wallets"], wallet, wallet.primary)]
           /\ due' = [due EXCEPT !["wallets"] = With(due["wallets"], wallet, wallet.primary)]
    <2>. HIDE DEF wallet
    <2>. QED BY <1>2 DEF AddsWallet, wallet
  <1>. QED BY <1>1, <1>3 DEF AddsWallet

\* What addWallet decides before its transaction.
LEMMA DecidedWallet ==
    ASSUME NEW u \in User, NEW p \in Party, NEW asked \in BOOLEAN, LookAtWallets(u, p, asked)
    PROVE  \E wallet :
              /\ wallet = [party |-> p, network |-> req[u].network, user |-> u,
                           primary |-> wallet.primary]
              /\ wallet.primary \in BOOLEAN
              /\ \/ Continue(u, [req[u] EXCEPT !.at = "insert_wallet", !.wallet = wallet])
                 \/ Continue(u, Idle)
  <1>. DEFINE here == {w \in rows["wallets"] : w.user = u /\ w.network = sessions[u]}
              primary == asked \/ here = {}
              wallet == [party |-> p, network |-> req[u].network, user |-> u,
                         primary |-> primary]
  <1>1. wallet.primary = primary /\ primary \in BOOLEAN
    OBVIOUS
  <1>2. \/ Continue(u, [req[u] EXCEPT !.at = "insert_wallet", !.wallet = wallet])
        \/ Continue(u, Idle)
    <2>1. CASE /\ sessions[u] # Null /\ sessions[u] \in VisibleTo(u)
               /\ Key(wallet) \notin Keys(here)
      <3>. HIDE DEF wallet, here
      <3>. QED BY <2>1 DEF LookAtWallets, wallet, primary, here
    <2>2. CASE ~(/\ sessions[u] # Null /\ sessions[u] \in VisibleTo(u)
                 /\ Key(wallet) \notin Keys(here))
      <3>. HIDE DEF wallet, here
      <3>. QED BY <2>2 DEF LookAtWallets, wallet, primary, here
    <2>. QED BY <2>1, <2>2
  <1>3. wallet = [party |-> p, network |-> req[u].network, user |-> u, primary |-> wallet.primary]
    BY <1>1
  <1>. HIDE DEF wallet
  <1>. QED BY <1>1, <1>2, <1>3

LEMMA WithType ==
    ASSUME NEW table \in SUBSET WalletRow, NEW w \in WalletRow, NEW primary
    PROVE  With(table, w, primary) \subseteq WalletRow
  BY DEF With, Demoted, WalletRow

LEMMA TypeServe ==
    ASSUME TypeOK, StageKnown, ServeStep
    PROVE  TypeOK'
  <1>1. MigrationOK'
    BY DEF ServeStep, database, process, counts, TypeOK, MigrationOK
  <1>2. PICK u \in User : Requested(u) \/ Continued(u)
    BY DEF ServeStep, RegistryNext
  <1>. USE DEF TypeOK, RegistryOK
  <1>3. ASSUME Asks(u) PROVE requests' \in 0..MaxRequests
    BY <1>3, RegistryAssumption DEF Asks
  <1>4. Idle \in Request
    BY StageType DEF Idle, Stages
  <1>5. ASSUME SameTables PROVE TablesOK'
    BY <1>5 DEF SameTables, TablesOK
  <1>6. ASSUME Done(u) PROVE req' \in [User -> Request] /\ requests' \in 0..MaxRequests
    BY <1>4, <1>6 DEF Done, Continue
  <1>7. ASSUME NEW n \in Network, NEW i \in Idp, AddNetwork(u, n, i) PROVE RegistryOK'
    BY <1>3, <1>5, <1>7, StageType DEF AddNetwork, Stages
  <1>8. ASSUME NEW n \in Network, RemoveNetwork(u, n) PROVE RegistryOK'
    BY <1>3, <1>8, DeleteType DEF RemoveNetwork, TablesOK
  <1>9. ASSUME NEW n \in Network, AddSession(u, n) PROVE RegistryOK'
    BY <1>3, <1>9 DEF AddSession, TablesOK
  <1>10. ASSUME NEW i \in Idp, AddIdp(u, i) \/ RemoveIdp(u, i) PROVE RegistryOK'
    BY <1>3, <1>5, <1>10, StageType DEF AddIdp, RemoveIdp, Stages
  <1>11. ASSUME RemoveSession(u) PROVE RegistryOK'
    BY <1>3, <1>11 DEF RemoveSession, TablesOK
  <1>12. ASSUME CreateWallet(u) PROVE RegistryOK'
    BY <1>3, <1>5, <1>12, StageType DEF CreateWallet, Stages, VisibleTo
  <1>13. ASSUME UpdateNetwork(u) PROVE RegistryOK'
    <2>1. networks' \in [Network -> NetworkRow \cup {Null}]
      <3>1. CASE networks' = networks
        BY <3>1 DEF TablesOK
      <3>2. CASE networks[req[u].network] # Null /\ req[u].idp \in idps /\ req[u].network \in Network
        <4>1. networks' = [networks EXCEPT ![req[u].network].idp = req[u].idp]
          BY <1>13, <3>2 DEF UpdateNetwork
        <4>2. networks[req[u].network] \in NetworkRow /\ req[u].idp \in Idp
          BY <3>2 DEF TablesOK
        <4>. QED BY <4>1, <4>2 DEF TablesOK, NetworkRow
      <3>3. CASE networks' # networks /\ req[u].network \notin Network
        <4>1. networks' = [networks EXCEPT ![req[u].network].idp = req[u].idp]
          BY <1>13, <3>3 DEF UpdateNetwork
        <4>. QED BY <3>3, <4>1 DEF TablesOK
      <3>. QED BY <1>13, <3>1, <3>2, <3>3 DEF UpdateNetwork
    <2>. QED BY <1>6, <1>13, <2>1 DEF UpdateNetwork, TablesOK
  <1>14. ASSUME FindIdp(u) PROVE RegistryOK'
    <2>1. [req[u] EXCEPT !.at = "insert_network"] \in Request
      BY DEF Request, Stages
    <2>. QED BY <1>4, <1>5, <1>14, <2>1 DEF FindIdp, Continue
  <1>15. ASSUME AddsNetwork(u) PROVE RegistryOK'
    <2>1. networks' \in [Network -> NetworkRow \cup {Null}]
      BY <1>15 DEF AddsNetwork, InsertNetwork, TablesOK, NetworkRow
    <2>. QED BY <1>6, <1>15, <2>1 DEF AddsNetwork, TablesOK
  <1>16. ASSUME AddsIdp(u) PROVE RegistryOK'
    BY <1>6, <1>16 DEF AddsIdp, TablesOK, StageKnown, Reached
  <1>17. ASSUME DeleteIdp(u) PROVE RegistryOK'
    BY <1>6, <1>17, DeleteType DEF DeleteIdp, TablesOK
  <1>18. ASSUME NEW p \in Party, NEW asked \in BOOLEAN, LookAtWallets(u, p, asked)
         PROVE  RegistryOK'
    <2>1. PICK wallet : /\ wallet = [party |-> p, network |-> req[u].network, user |-> u,
                                     primary |-> wallet.primary]
                        /\ wallet.primary \in BOOLEAN
                        /\ \/ Continue(u, [req[u] EXCEPT !.at = "insert_wallet", !.wallet = wallet])
                           \/ Continue(u, Idle)
      BY <1>18, DecidedWallet
    <2>2. wallet \in WalletRow
      BY <2>1 DEF WalletRow, Request
    <2>3. [req[u] EXCEPT !.at = "insert_wallet", !.wallet = wallet] \in Request
      BY <2>2 DEF Request, Stages
    <2>. QED BY <1>4, <1>5, <1>18, <2>1, <2>3 DEF LookAtWallets, Continue
  <1>19. ASSUME AddsWallet(u) PROVE RegistryOK'
    <2>1. Done(u) /\ UNCHANGED <<idps, networks, sessions>>
      BY <1>19, AddedWallet
    <2>2. RowsOK(rows) /\ RowsOK(due)
      BY DEF TablesOK
    <2>3. RowsOK(rows') /\ RowsOK(due')
      <3>1. CASE UNCHANGED <<rows, due>>
        BY <2>2, <3>1
      <3>2. ASSUME NEW primary \in BOOLEAN, NEW w \in WalletRow,
                   rows' = [rows EXCEPT !["wallets"] = With(rows["wallets"], w, primary)],
                   due' = [due EXCEPT !["wallets"] = With(due["wallets"], w, primary)]
            PROVE  RowsOK(rows') /\ RowsOK(due')
        BY <2>2, <3>2, WithType DEF RowsOK, Rebuilt
      <3>. QED BY <1>19, <3>1, <3>2, AddedWallet
    <2>. QED BY <1>6, <2>1, <2>3 DEF TablesOK
  <1>. QED BY <1>1, <1>2, <1>7, <1>8, <1>9, <1>10, <1>11, <1>12, <1>13, <1>14, <1>15, <1>16,
              <1>17, <1>18, <1>19 DEF Requested, Continued

LEMMA StageStaysKnown ==
    ASSUME TypeOK, StageKnown, GatewayNext
    PROVE  StageKnown'
  <1>. USE DEF StageKnown, TypeOK, RegistryOK, Idle, Stage
  <1>1. CASE StartStep
    BY <1>1 DEF StartStep
  <1>2. ASSUME NEW u \in User, NEW r, r.at = "insert_idp" => r.idp \in Idp,
               r.at = "insert_wallet" => r.wallet \in WalletRow,
               req' = [req EXCEPT ![u] = r]
        PROVE  StageKnown'
    BY <1>2
  <1>3. ASSUME NEW u \in User, Continued(u) PROVE StageKnown'
    <2>1. CASE FindIdp(u)
      <3>1. CASE req[u].idp \in idps
        BY <1>2, <2>1, <3>1 DEF FindIdp, Continue, Request
      <3>2. CASE req[u].idp \notin idps
        BY <1>2, <2>1, <3>2 DEF FindIdp, Continue
      <3>. QED BY <3>1, <3>2
    <2>2. CASE Done(u)
      BY <1>2, <2>2 DEF Done, Continue
    <2>3. ASSUME NEW p \in Party, NEW asked \in BOOLEAN, LookAtWallets(u, p, asked)
          PROVE  StageKnown'
      <3>1. PICK wallet : /\ wallet = [party |-> p, network |-> req[u].network, user |-> u,
                                       primary |-> wallet.primary]
                          /\ wallet.primary \in BOOLEAN
                          /\ \/ Continue(u, [req[u] EXCEPT !.at = "insert_wallet", !.wallet = wallet])
                             \/ Continue(u, Idle)
        BY <2>3, DecidedWallet
      <3>2. wallet \in WalletRow
        BY <3>1 DEF WalletRow, Request
      <3>3. PICK r : r = [req[u] EXCEPT !.at = "insert_wallet", !.wallet = wallet]
        OBVIOUS
      <3>4. r.at = "insert_wallet" /\ r.wallet = wallet
        BY <3>3 DEF Request
      <3>5. CASE Continue(u, r)
        BY <1>2, <3>2, <3>4, <3>5 DEF Continue
      <3>6. CASE Continue(u, Idle)
        BY <1>2, <3>6 DEF Continue
      <3>. QED BY <3>1, <3>3, <3>5, <3>6
    <2>. QED BY <1>3, <2>1, <2>2, <2>3
             DEF Continued, UpdateNetwork, AddsNetwork, AddsIdp, DeleteIdp, AddsWallet
  <1>4. ASSUME NEW u \in User, Requested(u) PROVE StageKnown'
    <2>1. ASSUME NEW n \in Network, NEW i \in Idp, AddNetwork(u, n, i) PROVE StageKnown'
      BY <1>2, <2>1 DEF AddNetwork
    <2>2. CASE UNCHANGED req
      BY <2>2
    <2>3. ASSUME NEW i \in Idp, AddIdp(u, i) \/ RemoveIdp(u, i) PROVE StageKnown'
      BY <1>2, <2>3 DEF AddIdp, RemoveIdp
    <2>4. CASE CreateWallet(u)
      BY <1>2, <2>4 DEF CreateWallet
    <2>. QED BY <1>4, <2>1, <2>2, <2>3, <2>4 DEF Requested, RemoveNetwork, AddSession, RemoveSession
  <1>. QED BY <1>1, <1>3, <1>4 DEF GatewayNext, ServeStep, RegistryNext

\* Types: the databases, the process, the requests of the user API.
THEOREM TypeCorrect == Spec => []TypeOK
  <1>1. TypeOK /\ StageKnown /\ [GatewayNext]_vars => (TypeOK /\ StageKnown)'
    <2>1. ASSUME TypeOK, StageKnown, GatewayNext PROVE (TypeOK /\ StageKnown)'
      BY <2>1, TypeStart, TypeServe, StageStaysKnown DEF GatewayNext
    <2>2. ASSUME TypeOK, StageKnown, UNCHANGED vars PROVE (TypeOK /\ StageKnown)'
      BY <2>2 DEF vars, database, process, tables, counts, registry, TypeOK, StageKnown, RegistryOK,
                  MigrationOK, TablesOK
    <2>. QED BY <2>1, <2>2
  <1>. QED BY <1>1, TypeInit, PTL DEF Spec, Safety

-----------------------------------------------------------------------------
(***************************************************************************)
(* The schema.  A migration is logged after its last statement, so what the *)
(* logged ones make is there, but for a table that is being written anew:   *)
(* it may be lost, and with it an index, until the migration that does so   *)
(* is logged.  That migration fails if the table is not there.             *)
(***************************************************************************)
Unwritten(lg, pg) == {t \in Rebuilt : Rewriter(t) \notin lg /\ ~(t = "wallets" /\ pg)}

Kept(lg, pg, ob) ==
    \A m \in lg : \A x \in Made(m) :
        x \in ob \/ \E t \in Unwritten(lg, pg) : x = t \/ x = Loses[t]

NoCopies(lg, pg, ob) == \A t \in Rebuilt : Copy[t] \in ob => t \in Unwritten(lg, pg)

\* What the statements before number k have made and renamed is there.
SoFar(s, k, ob) ==
    \A j \in 1..(k - 1) : j \in DOMAIN s =>
        /\ s[j].do \in Making => s[j].on \in ob
        /\ s[j].do = "rename" =>
              s[j].on \in ob /\ Gains[s[j].on] \in ob /\ Copy[s[j].on] \notin ob

\* The migrations are logged in their order, the process does what is left.
Log ==
    /\ \A m \in log : m \notin {1, 8} => m - 1 \in log
    /\ phase = "migrate_wallets" => pending = WalletMigrations \ log
    /\ phase = "load" => command = "db_bootstrap" \/ WalletMigrations \subseteq log
    /\ phase = "migrate_signing" =>
          pending = SigningMigrations \ log /\ WalletMigrations \subseteq log
    /\ phase = "serving" => Migrations \subseteq log

Schema ==
    /\ Kept(log, postgres, objects) /\ NoCopies(log, postgres, objects)
    /\ Migrating => SoFar(Statements, step, objects)

LEMMA LogNext ==
    ASSUME TypeOK, Log, GatewayNext
    PROVE  Log'
  <1>. USE DEF Log
  <1>1. CASE UNCHANGED <<log, phase, command, pending>>
    BY <1>1
  <1>2. CASE UNCHANGED log /\ Down
    BY <1>2 DEF Down, Enter
  <1>3. CASE StartGateway
    BY <1>3 DEF StartGateway, Enter
  <1>4. ASSUME NEW c \in {"db_up", "db_bootstrap"}, StartCommand(c) PROVE Log'
    BY <1>4 DEF StartCommand, Enter
  <1>5. CASE LogMigration
    <2>1. MigrationOK /\ Migrating
      BY <1>5 DEF LogMigration, TypeOK
    <2>2. Current \in pending /\ Current \in Migrations /\ \A k \in pending : Current <= k
      BY <2>1, StatementType
    <2>3. log' = log \cup {Current} /\ pending' = pending \ {Current} /\ UNCHANGED <<phase, command>>
      BY <1>5 DEF LogMigration
    <2>4. Current \notin {1, 8} => Current - 1 \in log
      <3>1. CASE phase = "migrate_wallets"
        BY <2>2, <3>1 DEF WalletMigrations
      <3>2. CASE phase = "migrate_signing"
        BY <2>2, <3>2 DEF SigningMigrations
      <3>. QED BY <2>1, <3>1, <3>2 DEF Migrating
    <2>. QED BY <2>3, <2>4
  <1>6. CASE WalletsMigrated
    BY <1>6 DEF WalletsMigrated, Down, Enter, database
  <1>7. CASE Loaded
    BY <1>7 DEF Loaded, Down, Enter, database
  <1>8. CASE Ready
    BY <1>8 DEF Ready, Enter, database, Migrations
  <1>9. CASE Exit \/ Crash
    BY <1>2, <1>9 DEF Exit, Crash, database
  <1>10. CASE Executed
    BY <1>1, <1>10 DEF Executed
  <1>11. ASSUME NEW i \in ConfigIdps, LoadIdp(i) PROVE Log'
    BY <1>1, <1>9, <1>11 DEF LoadIdp, database
  <1>12. ASSUME NEW n \in DOMAIN ConfigNetworks, LoadNetwork(n) PROVE Log'
    BY <1>1, <1>9, <1>12 DEF LoadNetwork, database
  <1>13. CASE ServeStep
    BY <1>1, <1>13 DEF ServeStep, database, process
  <1>. QED BY <1>3, <1>4, <1>5, <1>6, <1>7, <1>8, <1>9, <1>10, <1>11, <1>12, <1>13
           DEF GatewayNext, StartStep, StartNext, Proceed, CreateObject, AddObject, DropCopy,
               CreateCopy, FillCopy, DropTable, RenameCopy, CheckNotNull, Demote

LEMMA SameScript ==
    ASSUME UNCHANGED <<pending, postgres>>
    PROVE  Current' = Current /\ Statements' = Statements
  BY DEF Current, Statements

\* The names of the tables, their copies, and what they gain and lose.
LEMMA TableNames ==
    \A t, x \in Rebuilt :
        /\ Copy[t] = Copy[x] => t = x
        /\ x # Loses[t] /\ x # Copy[t] /\ Gains[x] # t /\ Gains[x] # Loses[t] /\ Gains[x] # Copy[t]
  BY DEF Rebuilt, Copy, Gains, Loses

\* What is known when a statement is executed.
LEMMA AtStatement ==
    ASSUME TypeOK, Log, Schema, NEW what, At(what)
    PROVE  /\ Migrating /\ step \in DOMAIN Statements /\ Statement = Statements[step]
           /\ Statement.do = what /\ Current \in Migrations /\ Current \notin log
           /\ Shape(Statements, Current, postgres)
           /\ SoFar(Statements, step, objects)
           /\ Kept(log, postgres, objects) /\ NoCopies(log, postgres, objects)
           /\ log \subseteq Migrations /\ postgres \in BOOLEAN
           /\ what \in Copying => Statement.on \in Unwritten(log, postgres)
  <1>1. MigrationOK /\ Migrating /\ Statement.do = what /\ step <= Len(Statements)
    BY DEF At, TypeOK
  <1>2. /\ Current \in pending /\ Current \in Migrations
        /\ Shape(Statements, Current, postgres) /\ step \in DOMAIN Statements
    BY <1>1, StatementType
  <1>3. Current \notin log
    BY <1>1, <1>2 DEF Log, Migrating
  <1>4. what \in Copying => Statement.on \in Unwritten(log, postgres)
    BY <1>1, <1>2, <1>3 DEF Shape, Ordered, Statement, Unwritten, Rewriter
  <1>5. log \subseteq Migrations /\ postgres \in BOOLEAN
    BY <1>1 DEF MigrationOK, Migrations
  <1>. QED BY <1>1, <1>2, <1>3, <1>4, <1>5 DEF Schema, Statement

LEMMA SchemaStays ==
    ASSUME Schema, Executed \/ step' = 1 \/ ~Migrating',
           UNCHANGED <<log, postgres, objects>>,
           Executed => TypeOK /\ Log /\ \E what : At(what) /\ what \notin Making \cup {"rename"}
    PROVE  Schema'
  <1>1. Kept(log, postgres, objects)' /\ NoCopies(log, postgres, objects)'
    BY DEF Schema
  <1>2. CASE Executed
    <2>1. PICK what : At(what) /\ what \notin Making \cup {"rename"}
      BY <1>2
    <2>2. /\ step \in DOMAIN Statements /\ Statements[step].do = what
          /\ SoFar(Statements, step, objects) /\ Shape(Statements, Current, postgres)
      BY <1>2, <2>1, AtStatement
    <2>3. Statements' = Statements /\ step' = step + 1
      BY <1>2, SameScript DEF Executed
    <2>4. \A j \in 1..((step + 1) - 1) : j \in 1..(step - 1) \/ j = step
      BY <2>2 DEF Shape
    <2>5. SoFar(Statements, step + 1, objects)
      BY <2>1, <2>2, <2>4 DEF SoFar
    <2>. QED BY <1>1, <2>3, <2>5 DEF Schema
  <1>3. CASE step' = 1
    BY <1>1, <1>3 DEF Schema, SoFar
  <1>. QED BY <1>1, <1>2, <1>3 DEF Schema

\* SoFar one statement further.
LEMMA OneFurther ==
    ASSUME NEW s, NEW k \in DOMAIN s, DOMAIN s \subseteq Nat \ {0}, NEW ob,
           \A j \in 1..(k - 1) : j \in DOMAIN s =>
              /\ s[j].do \in Making => s[j].on \in ob
              /\ s[j].do = "rename" =>
                    s[j].on \in ob /\ Gains[s[j].on] \in ob /\ Copy[s[j].on] \notin ob,
           s[k].do \in Making => s[k].on \in ob,
           s[k].do = "rename" =>
                    s[k].on \in ob /\ Gains[s[k].on] \in ob /\ Copy[s[k].on] \notin ob
    PROVE  SoFar(s, k + 1, ob)
  <1>1. \A j \in 1..((k + 1) - 1) : j \in 1..(k - 1) \/ j = k
    OBVIOUS
  <1>. QED BY <1>1 DEF SoFar

LEMMA SchemaExecutes ==
    ASSUME Schema, Executed, Migrating, 
           Kept(log, postgres, objects'), NoCopies(log, postgres, objects'),
           SoFar(Statements, step + 1, objects')
    PROVE  Schema'
  <1>1. Statements' = Statements /\ step' = step + 1 /\ UNCHANGED <<log, postgres>>
    BY SameScript DEF Executed
  <1>. QED BY <1>1 DEF Schema

LEMMA SchemaMakes ==
    ASSUME TypeOK, Log, Schema, NEW what \in Making, At(what), Executed,
           objects' = objects \cup {Statement.on}
    PROVE  Schema'
  <1>. DEFINE s == Statements
  <1>1. /\ Migrating /\ step \in DOMAIN s /\ Statement = s[step] /\ s[step].do = what
        /\ Current \in Migrations /\ Shape(s, Current, postgres) /\ SoFar(s, step, objects)
        /\ Kept(log, postgres, objects) /\ NoCopies(log, postgres, objects)
    BY AtStatement
  <1>2. Statement.on \in Made(Current)
    BY <1>1 DEF Shape, Complete
  <1>3. \A t \in Rebuilt : Copy[t] # Statement.on
    BY <1>1, <1>2, Names
  <1>4. Kept(log, postgres, objects') /\ NoCopies(log, postgres, objects')
    BY <1>1, <1>3 DEF Kept, NoCopies
  <1>5. \A j \in DOMAIN s : s[j].do = "rename" => s[j].on \in Rebuilt
    BY <1>1 DEF Shape, Ordered, Copying
  <1>6. SoFar(s, step + 1, objects')
    <2>1. \A j \in 1..(step - 1) : j \in DOMAIN s =>
              /\ s[j].do \in Making => s[j].on \in objects'
              /\ s[j].do = "rename" =>
                    s[j].on \in objects' /\ Gains[s[j].on] \in objects' /\ Copy[s[j].on] \notin objects'
      BY <1>1, <1>3, <1>5 DEF SoFar
    <2>2. s[step].do # "rename" /\ s[step].on \in objects'
      BY <1>1 DEF Making
    <2>. QED BY <1>1, <2>1, <2>2, OneFurther DEF Shape
  <1>. QED BY <1>1, <1>4, <1>6, SchemaExecutes

LEMMA SchemaDropsCopy ==
    ASSUME TypeOK, Log, Schema, DropCopy
    PROVE  Schema'
  <1>. DEFINE s == Statements
              t == Statement.on
  <1>1. /\ Migrating /\ step \in DOMAIN s /\ Statement = s[step] /\ s[step].do = "drop_copy"
        /\ Current \in Migrations /\ Shape(s, Current, postgres) /\ SoFar(s, step, objects)
        /\ Kept(log, postgres, objects) /\ NoCopies(log, postgres, objects)
        /\ log \subseteq Migrations /\ t \in Rebuilt
    BY AtStatement DEF DropCopy, Copying, Unwritten
  <1>2. objects' = objects \ {Copy[t]} /\ Executed
    BY DEF DropCopy
  <1>3. Kept(log, postgres, objects') /\ NoCopies(log, postgres, objects')
    BY <1>1, <1>2, Names DEF Kept, NoCopies
  <1>4. \A j \in DOMAIN s :
           /\ s[j].do \in Making => s[j].on # Copy[t]
           /\ s[j].do = "rename" => s[j].on # Copy[t] /\ Gains[s[j].on] # Copy[t]
    BY <1>1, Names, TableNames DEF Shape, Ordered, Complete, Copying
  <1>5. SoFar(s, step + 1, objects')
    <2>1. \A j \in 1..(step - 1) : j \in DOMAIN s =>
              /\ s[j].do \in Making => s[j].on \in objects'
              /\ s[j].do = "rename" =>
                    s[j].on \in objects' /\ Gains[s[j].on] \in objects' /\ Copy[s[j].on] \notin objects'
      BY <1>1, <1>2, <1>4 DEF SoFar
    <2>2. s[step].do # "rename" /\ s[step].do \notin Making
      BY <1>1 DEF Making
    <2>. QED BY <1>1, <2>1, <2>2, OneFurther DEF Shape
  <1>. QED BY <1>1, <1>2, <1>3, <1>5, SchemaExecutes

LEMMA SchemaCreatesCopy ==
    ASSUME TypeOK, Log, Schema, CreateCopy
    PROVE  Schema'
  <1>. DEFINE s == Statements
              t == Statement.on
  <1>1. /\ Migrating /\ step \in DOMAIN s /\ Statement = s[step] /\ s[step].do = "create_copy"
        /\ Current \in Migrations /\ Shape(s, Current, postgres) /\ SoFar(s, step, objects)
        /\ Kept(log, postgres, objects) /\ NoCopies(log, postgres, objects)
        /\ log \subseteq Migrations /\ t \in Unwritten(log, postgres) /\ t \in Rebuilt
    BY AtStatement DEF CreateCopy, Copying, Unwritten
  <1>2. objects' = objects \cup {Copy[t]} /\ Executed
    BY DEF CreateCopy
  <1>3. Kept(log, postgres, objects') /\ NoCopies(log, postgres, objects')
    BY <1>1, <1>2, TableNames DEF Kept, NoCopies
  <1>4. \A j \in 1..(step - 1) : j \in DOMAIN s /\ s[j].do = "rename" => Copy[s[j].on] # Copy[t]
    <2>1. \A j \in 1..(step - 1) : j \in DOMAIN s /\ s[j].do = "rename" =>
              s[j].on \in Rebuilt /\ s[j].on # t
      BY <1>1 DEF Shape, Ordered, Lasting, Copying
    <2>. QED BY <1>1, <2>1, TableNames
  <1>5. SoFar(s, step + 1, objects')
    <2>1. \A j \in 1..(step - 1) : j \in DOMAIN s =>
              /\ s[j].do \in Making => s[j].on \in objects'
              /\ s[j].do = "rename" =>
                    s[j].on \in objects' /\ Gains[s[j].on] \in objects' /\ Copy[s[j].on] \notin objects'
      BY <1>1, <1>2, <1>4 DEF SoFar
    <2>2. s[step].do # "rename" /\ s[step].do \notin Making
      BY <1>1 DEF Making
    <2>. QED BY <1>1, <2>1, <2>2, OneFurther DEF Shape
  <1>. QED BY <1>1, <1>2, <1>3, <1>5, SchemaExecutes

LEMMA SchemaDrops ==
    ASSUME TypeOK, Log, Schema, DropTable
    PROVE  Schema'
  <1>. DEFINE s == Statements
              t == Statement.on
  <1>1. /\ Migrating /\ step \in DOMAIN s /\ Statement = s[step] /\ s[step].do = "drop"
        /\ Current \in Migrations /\ Shape(s, Current, postgres) /\ SoFar(s, step, objects)
        /\ Kept(log, postgres, objects) /\ NoCopies(log, postgres, objects)
        /\ log \subseteq Migrations /\ t \in Unwritten(log, postgres) /\ t \in Rebuilt
    BY AtStatement DEF DropTable, Copying, Unwritten
  <1>2. objects' = objects \ {t, Loses[t]} /\ Executed
    BY DEF DropTable
  <1>3. Kept(log, postgres, objects') /\ NoCopies(log, postgres, objects')
    BY <1>1, <1>2 DEF Kept, NoCopies
  <1>4. \A j \in 1..(step - 1) : j \in DOMAIN s =>
           /\ s[j].do \in Making => s[j].on # t /\ s[j].on # Loses[t]
           /\ s[j].do = "rename" => s[j].on \in Rebuilt /\ s[j].on # t
    BY <1>1 DEF Shape, Ordered, Lasting, Copying
  <1>5. SoFar(s, step + 1, objects')
    <2>1. \A j \in 1..(step - 1) : j \in DOMAIN s =>
              /\ s[j].do \in Making => s[j].on \in objects'
              /\ s[j].do = "rename" =>
                    s[j].on \in objects' /\ Gains[s[j].on] \in objects' /\ Copy[s[j].on] \notin objects'
      BY <1>1, <1>2, <1>4, TableNames DEF SoFar
    <2>2. s[step].do # "rename" /\ s[step].do \notin Making
      BY <1>1 DEF Making
    <2>. QED BY <1>1, <2>1, <2>2, OneFurther DEF Shape
  <1>. QED BY <1>1, <1>2, <1>3, <1>5, SchemaExecutes

LEMMA SchemaRenames ==
    ASSUME TypeOK, Log, Schema, RenameCopy
    PROVE  Schema'
  <1>. DEFINE s == Statements
              t == Statement.on
  <1>1. /\ Migrating /\ step \in DOMAIN s /\ Statement = s[step] /\ s[step].do = "rename"
        /\ Current \in Migrations /\ Shape(s, Current, postgres) /\ SoFar(s, step, objects)
        /\ Kept(log, postgres, objects) /\ NoCopies(log, postgres, objects)
        /\ log \subseteq Migrations /\ t \in Rebuilt
    BY AtStatement DEF RenameCopy, Copying, Unwritten
  <1>2. objects' = (objects \ {Copy[t]}) \cup {t, Gains[t]} /\ Executed
    BY DEF RenameCopy
  <1>3. Kept(log, postgres, objects') /\ NoCopies(log, postgres, objects')
    BY <1>1, <1>2, Names, TableNames DEF Kept, NoCopies
  <1>4. \A j \in DOMAIN s :
           /\ s[j].do \in Making => s[j].on # Copy[t]
           /\ s[j].do = "rename" => s[j].on \in Rebuilt
    BY <1>1, Names DEF Shape, Ordered, Complete, Copying
  <1>5. SoFar(s, step + 1, objects')
    <2>1. \A j \in 1..(step - 1) : j \in DOMAIN s =>
              /\ s[j].do \in Making => s[j].on \in objects'
              /\ s[j].do = "rename" =>
                    s[j].on \in objects' /\ Gains[s[j].on] \in objects' /\ Copy[s[j].on] \notin objects'
      BY <1>1, <1>2, <1>4, TableNames DEF SoFar
    <2>2. s[step].do \notin Making
      BY <1>1 DEF Making
    <2>3. t \in objects' /\ Gains[t] \in objects' /\ Copy[t] \notin objects'
      BY <1>1, <1>2, TableNames
    <2>. QED BY <1>1, <2>1, <2>2, <2>3, OneFurther DEF Shape
  <1>. QED BY <1>1, <1>2, <1>3, <1>5, SchemaExecutes

\* All of a script is done: what its migration makes is there.
LEMMA LoggedIsMade ==
    ASSUME TypeOK, Log, Schema, LogMigration
    PROVE  /\ Current \in Migrations /\ Shape(Statements, Current, postgres)
           /\ Current \notin log /\ log \subseteq Migrations
           /\ \A x : Makes(Statements, x) => x \in objects
           /\ \A t \in Rebuilt : Renames(Statements, t) => t \in objects /\ Copy[t] \notin objects
           /\ Made(Current) \subseteq objects
  <1>. DEFINE s == Statements
              m == Current
  <1>1. Migrating /\ step > Len(s) /\ MigrationOK /\ step \in Nat
    BY DEF LogMigration, TypeOK, MigrationOK
  <1>2. m \in pending /\ m \in Migrations /\ Shape(s, m, postgres)
    BY <1>1, StatementType
  <1>3. m \notin log /\ log \subseteq Migrations
    BY <1>1, <1>2 DEF Log, Migrating, MigrationOK, Migrations
  <1>4. \A j \in DOMAIN s :
          /\ s[j].do \in Making => s[j].on \in objects
          /\ s[j].do = "rename" =>
                s[j].on \in objects /\ Gains[s[j].on] \in objects /\ Copy[s[j].on] \notin objects
    <2>1. \A j \in DOMAIN s : j \in 1..(step - 1)
      BY <1>1, <1>2 DEF Shape
    <2>. QED BY <1>1, <2>1 DEF Schema, SoFar
  <1>5. \A x : Makes(s, x) => x \in objects
    BY <1>4 DEF Makes, Renames
  <1>6. \A t \in Rebuilt : Renames(s, t) => t \in objects /\ Copy[t] \notin objects
    BY <1>4 DEF Renames
  <1>7. \A x \in Made(m) : x \in objects
    BY <1>2, <1>5 DEF Shape, Complete
  <1>. QED BY <1>2, <1>3, <1>5, <1>6, <1>7

\* Its migration can be logged.
LEMMA SchemaLogs ==
    ASSUME TypeOK, Log, Schema, LogMigration
    PROVE  Schema'
  <1>. DEFINE s == Statements
              m == Current
  <1>1. m \in Migrations /\ Shape(s, m, postgres)
    BY LoggedIsMade
  <1>2. m \notin log /\ log \subseteq Migrations
    BY LoggedIsMade
  <1>3. \A x : Makes(s, x) => x \in objects
    BY LoggedIsMade
  <1>4. \A t \in Rebuilt : Renames(s, t) => t \in objects /\ Copy[t] \notin objects
    BY LoggedIsMade
  <1>5. \A x \in Made(m) : x \in objects
    BY LoggedIsMade
  <1>6. log' = log \cup {m} /\ step' = 1 /\ UNCHANGED <<objects, postgres>>
    BY DEF LogMigration
  <1>. HIDE DEF s, m
  <1>7. ASSUME NEW t \in Unwritten(log, postgres), t \notin Unwritten(log', postgres)
        PROVE  /\ Copy[t] \notin objects /\ t \in objects
               /\ Loses[t] \in objects \/ \A k \in log : Loses[t] \notin Made(k)
    <2>1. t \in Rebuilt /\ Rewriter(t) = m /\ (m = 6 => ~postgres)
      BY <1>6, <1>7 DEF Unwritten, Rewriter
    <2>2. Renames(s, t) /\ (m = 10 => Makes(s, Loses[t]))
      BY <1>1, <2>1 DEF Shape, Restores
    <2>3. CASE m = 10
      BY <1>3, <1>4, <2>1, <2>2, <2>3
    <2>4. CASE m = 6
      <3>1. Loses[t] = "one_primary"
        BY <2>1, <2>4 DEF Rewriter, Loses
      <3>2. 7 \notin log
        BY <1>2, <2>4 DEF Log
      <3>. QED BY <1>2, <1>4, <2>1, <2>2, <3>1, <3>2, Names
    <2>. QED BY <2>1, <2>3, <2>4 DEF Rewriter
  <1>8. Kept(log', postgres, objects)
    <2>1. ASSUME NEW k \in log, NEW x \in Made(k), x \notin objects
          PROVE  \E t \in Unwritten(log', postgres) : x = t \/ x = Loses[t]
      <3>1. PICK t \in Unwritten(log, postgres) : x = t \/ x = Loses[t]
        BY <2>1 DEF Schema, Kept
      <3>. QED BY <1>7, <2>1, <3>1
    <2>. QED BY <1>5, <1>6, <2>1 DEF Kept
  <1>9. NoCopies(log', postgres, objects)
    BY <1>7 DEF Schema, NoCopies
  <1>. QED BY <1>6, <1>8, <1>9 DEF Schema, SoFar

LEMMA SchemaNext ==
    ASSUME TypeOK, Log, Schema, GatewayNext
    PROVE  Schema'
  <1>1. ASSUME UNCHANGED <<log, postgres, objects>>, step' = 1 \/ ~Migrating'
        PROVE  Schema'
    BY <1>1, SchemaStays DEF Schema, SoFar
  <1>2. CASE Exit \/ Crash
    BY <1>1, <1>2 DEF Exit, Crash, Down, Enter, database
  <1>3. CASE StartGateway
    BY <1>1, <1>3 DEF StartGateway, Enter
  <1>4. ASSUME NEW c \in {"db_up", "db_bootstrap"}, StartCommand(c) PROVE Schema'
    BY <1>1, <1>4 DEF StartCommand, Enter
  <1>5. CASE WalletsMigrated \/ Loaded \/ Ready
    BY <1>1, <1>5 DEF WalletsMigrated, Loaded, Ready, Down, Enter, database
  <1>6. CASE CreateObject
    BY <1>6, SchemaMakes DEF CreateObject, Making
  <1>7. CASE AddObject
    BY <1>2, <1>7, SchemaMakes DEF AddObject, Making
  <1>8. ASSUME NEW what, At(what), what \notin Making \cup {"rename"}, UNCHANGED objects, Executed
        PROVE  Schema'
    BY <1>8, SchemaStays DEF Executed
  <1>9. CASE FillCopy
    BY <1>2, <1>8, <1>9 DEF FillCopy, Making
  <1>10. CASE CheckNotNull
    BY <1>2, <1>8, <1>10 DEF CheckNotNull, Making
  <1>11. CASE Demote
    BY <1>8, <1>11 DEF Demote, Making
  <1>12. CASE ServeStep
    <2>1. UNCHANGED <<log, postgres, objects>> /\ ~Migrating'
      BY <1>12 DEF ServeStep, database, process, Migrating
    <2>. QED BY <1>1, <2>1
  <1>13. ASSUME NEW i \in ConfigIdps, LoadIdp(i) PROVE Schema'
    BY <1>1, <1>2, <1>13 DEF LoadIdp, database, Migrating
  <1>14. ASSUME NEW n \in DOMAIN ConfigNetworks, LoadNetwork(n) PROVE Schema'
    BY <1>1, <1>2, <1>14 DEF LoadNetwork, database, Migrating
  <1>. QED BY <1>2, <1>3, <1>4, <1>5, <1>6, <1>7, <1>9, <1>10, <1>11, <1>12, <1>13, <1>14,
              SchemaDropsCopy, SchemaCreatesCopy, SchemaDrops, SchemaRenames, SchemaLogs
           DEF GatewayNext, StartStep, StartNext, Proceed

LEMMA SchemaInit ==
    ASSUME GatewayInit
    PROVE  Log /\ Schema
  <1>1. phase = "down" /\ objects = UNION {Made(m) : m \in log}
    BY DEF GatewayInit, Init
  <1>2. PICK v \in 0..7, s \in 0..3 : log = (1..v) \cup (8..(7 + s))
    BY DEF GatewayInit, Init
  <1>3. \A m \in log : m \notin {1, 8} => m - 1 \in log
    BY <1>2
  <1>4. log \subseteq Migrations
    BY <1>2 DEF Migrations, WalletMigrations, SigningMigrations
  <1>5. \A t \in Rebuilt : Copy[t] \notin objects
    BY <1>1, <1>4, Names
  <1>. QED BY <1>1, <1>3, <1>5 DEF Log, Schema, Kept, NoCopies, Migrating

LEMMA ServingSchema ==
    ASSUME TypeOK, Log, Schema
    PROVE  ServesFullSchema
  <1>1. SUFFICES ASSUME phase = "serving" PROVE objects = FullSchema
    BY DEF ServesFullSchema
  <1>2. Migrations \subseteq log
    BY <1>1 DEF Log
  <1>3. Unwritten(log, postgres) = {}
    BY <1>2 DEF Unwritten, Rewriter, Migrations, WalletMigrations, SigningMigrations
  <1>4. \A m \in Migrations : Made(m) \subseteq objects
    BY <1>2, <1>3 DEF Schema, Kept
  <1>5. FullSchema \subseteq objects
    BY <1>4 DEF FullSchema, Migrations
  <1>6. objects \subseteq FullSchema
    BY <1>3 DEF Schema, NoCopies, TypeOK, MigrationOK
  <1>. QED BY <1>5, <1>6

-----------------------------------------------------------------------------
(***************************************************************************)
(* The rows.  A table that is there holds what its users are due; so does   *)
(* the filled copy of one that is dropped.  A table that a crash has taken  *)
(* is never filled again, and without it the gateway does not get to serve. *)
(***************************************************************************)
SameGroup(v, w) == v.network = w.network /\ v.user = w.user

\* Every wallet, and for every primary one that is due a primary one of its group.
Promised(table, owed) ==
    /\ Keys(table) = Keys(owed)
    /\ Primaries(table) \subseteq Primaries(owed)
    /\ \A v \in Primaries(owed) : \E w \in Primaries(table) : SameGroup(w, v)

Faithful(t, table, owed) == IF t = "wallets" THEN Promised(table, owed) ELSE table = owed

JustDone(s, k, ob, cp, rw, du) ==
    k > 1 => \A t \in Rebuilt :
        /\ After(s, k, "fill_copy", t) => t \in ob /\ cp[t] = rw[t]
        /\ After(s, k, "drop", t) => Faithful(t, cp[t], du[t])

Here(lg, ob, rw, du) ==
    \A t \in Rebuilt : t \in ob \/ Maker(t) \notin lg => Faithful(t, rw[t], du[t])

Data ==
    /\ Here(log, objects, rows, due)
    /\ Migrating => JustDone(Statements, step, objects, copy, rows, due)
    /\ 7 \in log \/ (Migrating /\ Current = 7 /\ step > 1) => OnePerGroup(rows["wallets"])

LEMMA SameIsFaithful == \A t, table : Faithful(t, table, table)
  BY DEF Faithful, Promised, SameGroup

\* The wallets that do not hang on the networks of S.
Outside(S, table) == {w \in table : w.network \notin S}

LEMMA FilterIsFaithful ==
    ASSUME NEW table \in SUBSET WalletRow, NEW owed \in SUBSET WalletRow, NEW S,
           Promised(table, owed)
    PROVE  /\ Promised(Outside(S, table), Outside(S, owed))
           /\ OnePerGroup(table) => OnePerGroup(Outside(S, table))
  <1>. USE DEF Outside
  <1>1. ASSUME NEW a \in SUBSET WalletRow, NEW b \in SUBSET WalletRow, Keys(a) \subseteq Keys(b)
        PROVE  Keys(Outside(S, a)) \subseteq Keys(Outside(S, b))
    BY <1>1 DEF Keys, Key
  <1>2. Keys(Outside(S, table)) = Keys(Outside(S, owed))
    <2>1. Keys(table) = Keys(owed)
      BY DEF Promised
    <2>2. Keys(Outside(S, table)) \subseteq Keys(Outside(S, owed))
      BY <1>1, <2>1
    <2>3. Keys(Outside(S, owed)) \subseteq Keys(Outside(S, table))
      BY <1>1, <2>1
    <2>. QED BY <2>2, <2>3
  <1>3. Primaries(Outside(S, table)) \subseteq Primaries(Outside(S, owed))
    BY DEF Promised, Primaries
  <1>4. \A v \in Primaries(Outside(S, owed)) : \E w \in Primaries(Outside(S, table)) : SameGroup(w, v)
    BY DEF Promised, Primaries, SameGroup
  <1>5. OnePerGroup(table) => OnePerGroup(Outside(S, table))
    BY DEF OnePerGroup, Primaries
  <1>. HIDE DEF Outside
  <1>. QED BY <1>2, <1>3, <1>4, <1>5 DEF Promised

LEMMA DemotedKey ==
    ASSUME NEW w \in WalletRow
    PROVE  /\ Key(Demoted(w)) = Key(w) /\ Demoted(w).primary = FALSE
           /\ Demoted(w).network = w.network /\ Demoted(w).user = w.user
  BY DEF Key, Demoted, WalletRow

LEMMA WithIsFaithful ==
    ASSUME NEW table \in SUBSET WalletRow, NEW owed \in SUBSET WalletRow, NEW w \in WalletRow,
           Promised(table, owed), NEW primary \in BOOLEAN, w.primary = primary
    PROVE  /\ Promised(With(table, w, primary), With(owed, w, primary))
           /\ OnePerGroup(table) => OnePerGroup(With(table, w, primary))
  <1>1. ASSUME NEW a \in SUBSET WalletRow
        PROVE  /\ Keys(With(a, w, primary)) = Keys(a) \cup {Key(w)}
               /\ \A v : v \in Primaries(With(a, w, primary)) <=>
                     \/ v = w /\ primary
                     \/ v \in Primaries(a) /\ ~(primary /\ SameGroup(v, w))
    <2>. DEFINE New(v) == IF primary /\ SameGroup(v, w) THEN Demoted(v) ELSE v
    <2>1. With(a, w, primary) = {New(v) : v \in a} \cup {w}
      BY DEF With, SameGroup
    <2>2. \A v \in a : Key(New(v)) = Key(v)
      BY DemotedKey
    <2>3. \A v \in a : New(v).primary <=> (v.primary /\ ~(primary /\ SameGroup(v, w)))
      BY DemotedKey
    <2>4. \A v \in a : New(v).primary => New(v) = v
      BY DemotedKey
    <2>. HIDE DEF New
    <2>5. Keys(With(a, w, primary)) = Keys(a) \cup {Key(w)}
      BY <2>1, <2>2 DEF Keys
    <2>. QED BY <2>1, <2>3, <2>4, <2>5 DEF Primaries
  <1>2. Keys(With(table, w, primary)) = Keys(With(owed, w, primary))
    BY <1>1 DEF Promised
  <1>3. Primaries(With(table, w, primary)) \subseteq Primaries(With(owed, w, primary))
    BY <1>1 DEF Promised
  <1>4. ASSUME NEW v \in Primaries(With(owed, w, primary))
        PROVE  \E x \in Primaries(With(table, w, primary)) : SameGroup(x, v)
    <2>1. CASE v = w /\ primary
      BY <1>1, <2>1 DEF SameGroup
    <2>2. CASE v \in Primaries(owed) /\ ~(primary /\ SameGroup(v, w))
      <3>1. PICK x \in Primaries(table) : SameGroup(x, v)
        BY <2>2 DEF Promised
      <3>2. ~(primary /\ SameGroup(x, w))
        BY <2>2, <3>1 DEF SameGroup
      <3>. QED BY <1>1, <3>1, <3>2
    <2>. QED BY <1>1, <1>4, <2>1, <2>2
  <1>5. OnePerGroup(table) => OnePerGroup(With(table, w, primary))
    BY <1>1 DEF OnePerGroup, SameGroup
  <1>. QED BY <1>2, <1>3, <1>4, <1>5 DEF Promised

LEMMA DemoteIsFaithful ==
    ASSUME NEW table \in SUBSET WalletRow, NEW owed,
           NEW stay \in SUBSET Primaries(table), OnePerGroup(stay),
           \A v \in Primaries(table) : \E w \in stay : v.network = w.network /\ v.user = w.user
    PROVE  LET new == stay \cup {Demoted(w) : w \in table \ stay} IN
           OnePerGroup(new) /\ (Promised(table, owed) => Promised(new, owed))
  <1>. DEFINE new == stay \cup {Demoted(w) : w \in table \ stay}
  <1>1. Primaries(new) = stay
    <2>1. \A w \in stay : w \in table /\ w.primary
      BY DEF Primaries
    <2>2. \A w \in table \ stay : ~Demoted(w).primary
      BY DemotedKey
    <2>. QED BY <2>1, <2>2 DEF Primaries
  <1>2. Keys(new) = Keys(table)
    <2>1. stay \subseteq table
      BY DEF Primaries
    <2>2. \A w \in table \ stay : Key(Demoted(w)) = Key(w) /\ Demoted(w) \in new
      BY DemotedKey
    <2>3. \A w \in new : \E v \in table : Key(w) = Key(v)
      BY <2>1, <2>2
    <2>4. \A v \in table : \E w \in new : Key(w) = Key(v)
      BY <2>1, <2>2
    <2>. HIDE DEF new
    <2>. QED BY <2>3, <2>4 DEF Keys
  <1>3. OnePerGroup(new)
    <2>1. Primaries(stay) = stay
      BY DEF Primaries
    <2>. QED BY <1>1, <2>1 DEF OnePerGroup
  <1>4. ASSUME Promised(table, owed) PROVE Promised(new, owed)
    <2>1. ASSUME NEW v \in Primaries(owed) PROVE \E w \in Primaries(new) : SameGroup(w, v)
      <3>1. PICK x \in Primaries(table) : SameGroup(x, v)
        BY <1>4 DEF Promised
      <3>2. PICK w \in stay : x.network = w.network /\ x.user = w.user
        BY <3>1
      <3>3. SameGroup(w, v)
        BY <3>1, <3>2 DEF SameGroup
      <3>. HIDE DEF new
      <3>. QED BY <1>1, <3>2, <3>3
    <2>2. \A v \in Primaries(owed) : \E w \in Primaries(new) : SameGroup(w, v)
      BY <2>1
    <2>3. stay \subseteq Primaries(table) /\ Primaries(new) = stay /\ Keys(new) = Keys(table)
      BY <1>1, <1>2
    <2>. HIDE DEF new
    <2>. QED BY <1>4, <2>2, <2>3 DEF Promised
  <1>. QED BY <1>3, <1>4

\* A statement that leaves the rows alone, and fills no copy.
LEMMA DataExecutes ==
    ASSUME TypeOK, Executed, Migrating, step \in DOMAIN Statements,
           Here(log, objects', rows', due),
           \A t \in Rebuilt :
              /\ Statement.do = "fill_copy" /\ Statement.on = t =>
                    t \in objects' /\ copy'[t] = rows'[t]
              /\ Statement.do = "drop" /\ Statement.on = t => Faithful(t, copy'[t], due[t]),
           7 \in log \/ Current = 7 => OnePerGroup(rows'["wallets"])
    PROVE  Data'
  <1>1. /\ Statements' = Statements /\ Current' = Current /\ step' = step + 1
        /\ UNCHANGED <<log, due>>
    BY SameScript DEF Executed
  <1>2. step \in Nat \ {0} /\ (step + 1) - 1 = step
    BY DEF TypeOK, MigrationOK
  <1>3. JustDone(Statements, step + 1, objects', copy', rows', due)
    BY <1>2 DEF JustDone, After, Statement
  <1>. QED BY <1>1, <1>3 DEF Data

LEMMA DataStays ==
    ASSUME Data, step' = 1 \/ ~Migrating', UNCHANGED <<log, objects, rows, due>>
    PROVE  Data'
  BY DEF Data, JustDone

LEMMA TypeRows ==
    ASSUME TypeOK
    PROVE  /\ DOMAIN rows = Rebuilt /\ DOMAIN copy = Rebuilt /\ DOMAIN due = Rebuilt
           /\ rows["wallets"] \subseteq WalletRow /\ due["wallets"] \subseteq WalletRow
           /\ "wallets" \in Rebuilt
  BY DEF TypeOK, RegistryOK, MigrationOK, TablesOK, RowsOK, Rebuilt

\* Statements that change neither rows nor copies.
LEMMA DataMakes ==
    ASSUME TypeOK, Log, Schema, Data, NEW what \in Making, At(what), Executed,
           objects' = objects \cup {Statement.on}, UNCHANGED <<copy, rows>>
    PROVE  Data'
  <1>1. /\ Migrating /\ step \in DOMAIN Statements /\ Statement = Statements[step]
        /\ Statement.do = what /\ Current \in Migrations /\ Current \notin log
        /\ Shape(Statements, Current, postgres)
    BY AtStatement
  <1>2. Statement.on \in Made(Current)
    BY <1>1 DEF Shape, Complete
  <1>3. Here(log, objects', rows, due)
    BY <1>1, <1>2, Names DEF Data, Here
  <1>4. Statement.do \notin {"fill_copy", "drop", "demote"}
    BY <1>1 DEF Making
  <1>5. Current = 7 => step > 1
    BY <1>1, <1>4 DEF Shape, Ordered
  <1>. QED BY <1>1, <1>3, <1>4, <1>5, DataExecutes DEF Data

LEMMA DataCopies ==
    ASSUME TypeOK, Log, Schema, Data, NEW what, At(what), Executed,
           what \in {"drop_copy", "create_copy", "not_null"},
           \A t \in Rebuilt : t \in objects' => t \in objects, UNCHANGED rows
    PROVE  Data'
  <1>1. /\ Migrating /\ step \in DOMAIN Statements /\ Statement = Statements[step]
        /\ Statement.do = what /\ Shape(Statements, Current, postgres)
    BY AtStatement
  <1>2. Here(log, objects', rows, due)
    BY DEF Data, Here
  <1>3. Statement.do \notin {"fill_copy", "drop", "demote"}
    BY <1>1
  <1>4. Current = 7 => step > 1
    BY <1>1, <1>3 DEF Shape, Ordered
  <1>. QED BY <1>1, <1>2, <1>3, <1>4, DataExecutes DEF Data

\* What a statement on a table's copy knows.
LEMMA CopyStatement ==
    ASSUME TypeOK, Log, Schema, NEW what \in Copying, At(what)
    PROVE  /\ Statement.on \in Rebuilt /\ Rewriter(Statement.on) = Current /\ Current \in {6, 10}
           /\ Current \notin log /\ Maker(Statement.on) \in log
           /\ Statement.on = "wallets" => 7 \notin log
  <1>1. /\ Migrating /\ step \in DOMAIN Statements /\ Statement = Statements[step]
        /\ Statement.do = what /\ Current \in Migrations /\ Current \notin log
        /\ Shape(Statements, Current, postgres) /\ log \subseteq Migrations
    BY AtStatement
  <1>2. Statement.on \in Rebuilt /\ Rewriter(Statement.on) = Current /\ Current \in {6, 10}
    BY <1>1 DEF Shape, Ordered, Rewriter
  <1>3. Current \in pending /\ \A k \in pending : Current <= k
    BY <1>1, StatementType DEF TypeOK
  <1>4. Maker(Statement.on) \in log
    <2>1. CASE Current = 6
      <3>1. Maker(Statement.on) = 1 /\ phase = "migrate_wallets"
        BY <1>1, <1>2, <1>3, <2>1 DEF Maker, Rewriter, Log, Migrating, SigningMigrations
      <3>. QED BY <1>3, <2>1, <3>1 DEF Log, WalletMigrations
    <2>2. CASE Current = 10
      <3>1. Maker(Statement.on) = 8 /\ phase = "migrate_signing"
        BY <1>1, <1>2, <1>3, <2>2 DEF Maker, Rewriter, Log, Migrating, WalletMigrations
      <3>. QED BY <1>3, <2>2, <3>1 DEF Log, SigningMigrations
    <2>. QED BY <1>2, <2>1, <2>2
  <1>5. Statement.on = "wallets" => 7 \notin log
    BY <1>1, <1>2 DEF Rewriter, Log
  <1>. QED BY <1>1, <1>2, <1>4, <1>5

LEMMA DataFills ==
    ASSUME TypeOK, Log, Schema, Data, FillCopy
    PROVE  Data'
  <1>1. CASE Exit
    BY <1>1, DataStays DEF Exit, Down, Enter, database, tables
  <1>2. CASE ~Exit
    <2>1. /\ Statement.on \in objects /\ copy' = [copy EXCEPT ![Statement.on] = rows[Statement.on]]
          /\ Executed /\ UNCHANGED <<objects, rows>>
      BY <1>2 DEF FillCopy
    <2>2. /\ Migrating /\ step \in DOMAIN Statements /\ Statement.do = "fill_copy"
          /\ Statement.on \in Rebuilt /\ Current \in {6, 10}
      BY AtStatement, CopyStatement DEF FillCopy, Copying
    <2>. QED BY <2>1, <2>2, TypeRows, DataExecutes DEF Data
  <1>. QED BY <1>1, <1>2

LEMMA DataDrops ==
    ASSUME TypeOK, Log, Schema, Data, DropTable
    PROVE  Data'
  <1>. DEFINE t == Statement.on
  <1>1. /\ objects' = objects \ {t, Loses[t]} /\ rows' = [rows EXCEPT ![t] = {}]
        /\ Executed /\ UNCHANGED copy
    BY DEF DropTable
  <1>2. /\ Migrating /\ step \in DOMAIN Statements /\ Statement = Statements[step]
        /\ Statement.do = "drop" /\ t \in Rebuilt /\ Current \in {6, 10}
        /\ Maker(t) \in log /\ Shape(Statements, Current, postgres)
        /\ t = "wallets" => 7 \notin log
    BY AtStatement, CopyStatement DEF DropTable, Copying
  <1>3. After(Statements, step, "fill_copy", t) /\ step > 1
    BY <1>2 DEF Shape, Ordered, After
  <1>4. t \in objects /\ copy[t] = rows[t]
    BY <1>2, <1>3 DEF Data, JustDone
  <1>5. Faithful(t, copy[t], due[t])
    BY <1>2, <1>4 DEF Data, Here
  <1>6. Here(log, objects', rows', due)
    BY <1>1, <1>2, TypeRows DEF Data, Here
  <1>7. 7 \in log => OnePerGroup(rows'["wallets"])
    BY <1>1, <1>2, TypeRows DEF Data
  <1>. QED BY <1>1, <1>2, <1>5, <1>6, <1>7, DataExecutes

LEMMA DataRenames ==
    ASSUME TypeOK, Log, Schema, Data, RenameCopy
    PROVE  Data'
  <1>. DEFINE t == Statement.on
  <1>1. /\ objects' = (objects \ {Copy[t]}) \cup {t, Gains[t]} /\ rows' = [rows EXCEPT ![t] = copy[t]]
        /\ Executed
    BY DEF RenameCopy
  <1>2. /\ Migrating /\ step \in DOMAIN Statements /\ Statement = Statements[step]
        /\ Statement.do = "rename" /\ t \in Rebuilt /\ Current \in {6, 10}
        /\ Shape(Statements, Current, postgres)
        /\ t = "wallets" => 7 \notin log
    BY AtStatement, CopyStatement DEF RenameCopy, Copying
  <1>3. After(Statements, step, "drop", t) /\ step > 1
    BY <1>2 DEF Shape, Ordered, After
  <1>4. Faithful(t, copy[t], due[t])
    BY <1>2, <1>3 DEF Data, JustDone
  <1>5. Here(log, objects', rows', due)
    BY <1>1, <1>2, <1>4, TypeRows, TableNames DEF Data, Here
  <1>6. 7 \in log => OnePerGroup(rows'["wallets"])
    BY <1>1, <1>2, TypeRows DEF Data
  <1>. QED BY <1>1, <1>2, <1>5, <1>6, DataExecutes

LEMMA DataDemotes ==
    ASSUME TypeOK, Log, Schema, Data, Demote
    PROVE  Data'
  <1>1. PICK stay \in SUBSET Primaries(rows["wallets"]) :
          /\ OnePerGroup(stay)
          /\ \A v \in Primaries(rows["wallets"]) :
                \E w \in stay : v.network = w.network /\ v.user = w.user
          /\ rows' = [rows EXCEPT !["wallets"] =
                         stay \cup {Demoted(w) : w \in rows["wallets"] \ stay}]
    BY DEF Demote
  <1>2. /\ Migrating /\ step \in DOMAIN Statements /\ Statement.do = "demote"
        /\ Executed /\ UNCHANGED <<objects, copy>>
    BY AtStatement DEF Demote
  <1>3. /\ OnePerGroup(rows'["wallets"])
        /\ Promised(rows["wallets"], due["wallets"]) => Promised(rows'["wallets"], due["wallets"])
    <2>1. rows'["wallets"] = stay \cup {Demoted(w) : w \in rows["wallets"] \ stay}
      BY <1>1, TypeRows
    <2>. QED BY <1>1, <2>1, TypeRows, DemoteIsFaithful
  <1>4. Here(log, objects', rows', due)
    <2>1. \A t \in Rebuilt : Faithful(t, rows[t], due[t]) => Faithful(t, rows'[t], due[t])
      BY <1>1, <1>3, TypeRows DEF Faithful
    <2>. QED BY <1>2, <2>1 DEF Data, Here
  <1>. QED BY <1>2, <1>3, <1>4, DataExecutes

LEMMA DataLogs ==
    ASSUME TypeOK, Log, Schema, Data, LogMigration
    PROVE  Data'
  <1>1. /\ log' = log \cup {Current} /\ step' = 1 /\ UNCHANGED <<objects, rows, due>>
        /\ Migrating /\ step > Len(Statements)
    BY DEF LogMigration, tables
  <1>2. Shape(Statements, Current, postgres) /\ step \in Nat
    BY <1>1, StatementType DEF TypeOK, MigrationOK
  <1>3. step > 1
    BY <1>1, <1>2 DEF Shape
  <1>4. 7 \in log' => OnePerGroup(rows["wallets"])
    BY <1>1, <1>3 DEF Data
  <1>. QED BY <1>1, <1>4 DEF Data, Here, JustDone

LEMMA DataServes ==
    ASSUME TypeOK, StageKnown, Log, Schema, Data, ServeStep
    PROVE  Data'
  <1>1. UNCHANGED <<log, objects>> /\ ~Migrating' /\ phase = "serving"
    BY DEF ServeStep, database, process, Migrating
  <1>2. PICK u \in User : Requested(u) \/ Continued(u)
    BY DEF ServeStep, RegistryNext
  <1>3. objects = FullSchema /\ 7 \in log
    BY <1>1, ServingSchema DEF ServesFullSchema, Log, Migrations, WalletMigrations
  <1>4. Promised(rows["wallets"], due["wallets"]) /\ OnePerGroup(rows["wallets"])
    BY <1>3, RebuiltInSchema DEF Data, Here, Faithful, Rebuilt
  <1>5. CASE UNCHANGED <<rows, due>>
    BY <1>1, <1>5 DEF Data
  <1>6. ASSUME Promised(rows'["wallets"], due'["wallets"]), OnePerGroup(rows'["wallets"]),
               \A t \in Rebuilt \ {"wallets"} : rows'[t] = rows[t] /\ due'[t] = due[t]
        PROVE  Data'
    <2>1. Here(log, objects, rows', due')
      BY <1>6 DEF Data, Here, Faithful
    <2>. QED BY <1>1, <1>6, <2>1 DEF Data
  <1>7. ASSUME NEW S, DeleteNetworks(S) PROVE Data'
    <2>1. /\ rows'["wallets"] = {w \in rows["wallets"] : w.network \notin S}
          /\ due'["wallets"] = {w \in due["wallets"] : w.network \notin S}
          /\ \A t \in Rebuilt \ {"wallets"} : rows'[t] = rows[t] /\ due'[t] = due[t]
      BY <1>7, TypeRows DEF DeleteNetworks
    <2>2. /\ Promised(Outside(S, rows["wallets"]), Outside(S, due["wallets"]))
          /\ OnePerGroup(Outside(S, rows["wallets"]))
      BY <1>4, TypeRows, FilterIsFaithful
    <2>3. /\ rows'["wallets"] = Outside(S, rows["wallets"])
          /\ due'["wallets"] = Outside(S, due["wallets"])
      BY <2>1 DEF Outside
    <2>4. Promised(rows'["wallets"], due'["wallets"]) /\ OnePerGroup(rows'["wallets"])
      BY <2>2, <2>3
    <2>. QED BY <1>6, <2>1, <2>4
  <1>8. ASSUME AddsWallet(u) PROVE Data'
    <2>1. ASSUME NEW primary \in BOOLEAN, NEW w \in WalletRow, w.primary = primary,
                 rows' = [rows EXCEPT !["wallets"] = With(rows["wallets"], w, primary)],
                 due' = [due EXCEPT !["wallets"] = With(due["wallets"], w, primary)]
          PROVE  Data'
      <3>1. /\ rows'["wallets"] = With(rows["wallets"], w, primary)
            /\ due'["wallets"] = With(due["wallets"], w, primary)
            /\ \A t \in Rebuilt \ {"wallets"} : rows'[t] = rows[t] /\ due'[t] = due[t]
        BY <2>1, TypeRows
      <3>. QED BY <1>4, <1>6, <2>1, <3>1, TypeRows, WithIsFaithful
    <2>. QED BY <1>5, <1>8, <2>1, AddedWallet
  <1>9. CASE Requested(u)
    BY <1>5, <1>7, <1>9 DEF Requested, AddNetwork, RemoveNetwork, AddSession, AddIdp, RemoveIdp,
                            RemoveSession, CreateWallet, SameTables
  <1>10. CASE Continued(u)
    <2>1. CASE UpdateNetwork(u) \/ FindIdp(u) \/ AddsNetwork(u) \/ AddsIdp(u)
      BY <1>5, <2>1 DEF UpdateNetwork, FindIdp, AddsNetwork, AddsIdp, SameTables
    <2>2. CASE DeleteIdp(u)
      <3>1. PICK S : DeleteNetworks(S)
        BY <2>2 DEF DeleteIdp
      <3>. QED BY <1>7, <3>1
    <2>3. CASE \E p \in Party, asked \in BOOLEAN : LookAtWallets(u, p, asked)
      BY <1>5, <2>3 DEF LookAtWallets, SameTables
    <2>. QED BY <1>8, <1>10, <2>1, <2>2, <2>3 DEF Continued
  <1>. QED BY <1>2, <1>9, <1>10

LEMMA DataNext ==
    ASSUME TypeOK, StageKnown, Log, Schema, Data, GatewayNext
    PROVE  Data'
  <1>1. CASE Exit \/ Crash
    BY <1>1, DataStays DEF Exit, Crash, Down, Enter, database, tables
  <1>2. CASE StartGateway
    BY <1>2, DataStays DEF StartGateway, Enter, tables
  <1>3. ASSUME NEW c \in {"db_up", "db_bootstrap"}, StartCommand(c) PROVE Data'
    BY <1>3, DataStays DEF StartCommand, Enter, tables
  <1>4. CASE WalletsMigrated \/ Loaded \/ Ready
    BY <1>4, DataStays DEF WalletsMigrated, Loaded, Ready, Down, Enter, database, tables
  <1>5. CASE CreateObject
    BY <1>5, DataMakes DEF CreateObject, Making
  <1>6. CASE AddObject
    BY <1>1, <1>6, DataMakes DEF AddObject, Making
  <1>7. CASE DropCopy
    BY <1>7, DataCopies DEF DropCopy
  <1>8. CASE CreateCopy
    <2>1. At("create_copy") /\ objects' = objects \cup {Copy[Statement.on]} /\ Executed /\ UNCHANGED rows
      BY <1>8 DEF CreateCopy
    <2>2. \A t \in Rebuilt : t \in objects' => t \in objects
      BY <2>1, CopyStatement, TableNames DEF Copying
    <2>. QED BY <2>1, <2>2, DataCopies
  <1>9. CASE CheckNotNull
    BY <1>1, <1>9, DataCopies DEF CheckNotNull
  <1>10. ASSUME NEW i \in ConfigIdps, LoadIdp(i) PROVE Data'
    BY <1>1, <1>10, DataStays DEF LoadIdp, database, Migrating
  <1>11. ASSUME NEW n \in DOMAIN ConfigNetworks, LoadNetwork(n) PROVE Data'
    BY <1>1, <1>11, DataStays DEF LoadNetwork, database, Migrating
  <1>. QED BY <1>1, <1>2, <1>3, <1>4, <1>5, <1>6, <1>7, <1>8, <1>9, <1>10, <1>11,
              DataFills, DataDrops, DataRenames, DataDemotes, DataLogs, DataServes
           DEF GatewayNext, StartStep, StartNext, Proceed

LEMMA DataInit ==
    ASSUME GatewayInit
    PROVE  Data
  <1>1. phase = "down" /\ due = rows
    BY DEF GatewayInit, Init
  <1>2. 7 \in log => OnePerGroup(rows["wallets"])
    <2>1. PICK v \in 0..7, s \in 0..3, signing \in {{}, SigningRow} :
            /\ log = (1..v) \cup (8..(7 + s))
            /\ \E table \in LeftBy(v) :
                  rows = [t \in Rebuilt |-> IF t = "wallets" THEN table ELSE signing]
      BY DEF GatewayInit, Init
    <2>2. rows["wallets"] \in LeftBy(v)
      BY <2>1 DEF Rebuilt
    <2>3. 7 \in log => v >= 7
      BY <2>1
    <2>. QED BY <2>2, <2>3 DEF LeftBy
  <1>. QED BY <1>1, <1>2, SameIsFaithful DEF Data, Here, Migrating

LEMMA ServingRows ==
    ASSUME TypeOK, Log, Schema, Data
    PROVE  ServesEveryRow
  <1>1. SUFFICES ASSUME phase = "serving"
        PROVE  /\ \A t \in Rebuilt \ {"wallets"} : rows[t] = due[t]
               /\ Promised(rows["wallets"], due["wallets"]) /\ OnePerGroup(rows["wallets"])
    BY DEF ServesEveryRow, Promised, SameGroup
  <1>2. \A t \in Rebuilt : t \in objects
    BY <1>1, ServingSchema, RebuiltInSchema DEF ServesFullSchema
  <1>3. 7 \in log
    BY <1>1 DEF Log, Migrations, WalletMigrations
  <1>. QED BY <1>2, <1>3 DEF Data, Here, Faithful, Rebuilt

IInv == TypeOK /\ StageKnown /\ Log /\ Schema /\ Data

LEMMA Invariant == Spec => []IInv
  <1>1. GatewayInit => IInv
    BY TypeInit, SchemaInit, DataInit DEF IInv
  <1>2. IInv /\ [GatewayNext]_vars => IInv'
    <2>1. ASSUME IInv, GatewayNext PROVE IInv'
      <3>1. TypeOK'
        BY <2>1, TypeStart, TypeServe DEF IInv, GatewayNext
      <3>. QED BY <2>1, <3>1, StageStaysKnown, LogNext, SchemaNext, DataNext DEF IInv
    <2>2. ASSUME IInv, UNCHANGED vars PROVE IInv'
      <3>. USE <2>2 DEF IInv, vars, database, process, tables, counts, registry
      <3>1. TypeOK' /\ StageKnown' /\ Log'
        BY DEF TypeOK, StageKnown, RegistryOK, MigrationOK, TablesOK, Log
      <3>2. Schema' /\ Data'
        BY SameScript DEF Schema, Data, Migrating
      <3>. QED BY <3>1, <3>2
    <2>. QED BY <2>1, <2>2
  <1>. QED BY <1>1, <1>2, PTL DEF Spec, Safety

(***************************************************************************)
(* Wherever starts crash, a gateway that serves has the whole schema: a     *)
(* table that a crash has taken halfway through a migration is not made     *)
(* again, so the migration fails on every later start and none serves.      *)
(***************************************************************************)
THEOREM ServesFullSchemaAlways == Spec => []ServesFullSchema
  <1>1. IInv => ServesFullSchema
    BY ServingSchema DEF IInv
  <1>. QED BY <1>1, Invariant, PTL

(***************************************************************************)
(* Through every order of starts, crashes, migrations and requests, a       *)
(* gateway that serves has the rows it is due: a copied table is Faithful   *)
(* from the copy to the rename, and 007 keeps one primary wallet of each    *)
(* group, which addWallet's demotion then keeps.                           *)
(***************************************************************************)
THEOREM ServesEveryRowAlways == Spec => []ServesEveryRow
  <1>1. IInv => ServesEveryRow
    BY ServingRows DEF IInv
  <1>. QED BY <1>1, Invariant, PTL

-----------------------------------------------------------------------------
(***************************************************************************)
(* The configuration.  A start of a new database that nothing has touched   *)
(* does not fail: it finds no wallet, and no column before it adds it.      *)
(***************************************************************************)
Columns == {"created_at", "signed_at", "origin", "session_id", "disabled", "reason"}

\* Every column is added by one statement of one migration.
LEMMA ColumnsOnce ==
    ASSUME NEW pg \in BOOLEAN, NEW m \in WalletMigrations, NEW n \in WalletMigrations,
           NEW j \in DOMAIN Script(m, pg), NEW k \in DOMAIN Script(n, pg),
           Script(m, pg)[j].do = "add"
    PROVE  /\ Script(m, pg)[j].on \in Columns
           /\ Script(m, pg)[j].on = Script(n, pg)[k].on => m = n /\ j = k
  <1>1. PICK a : a = Script(m, pg)
    OBVIOUS
  <1>2. PICK b : b = Script(n, pg)
    OBVIOUS
  <1>3. ASSUME NEW c, NEW i \in WalletMigrations, c = Script(i, pg)
        PROVE  /\ i = 2 => /\ DOMAIN c = 1..2
                           /\ c[1].on = "created_at" /\ c[2].on = "signed_at"
               /\ i = 3 => DOMAIN c = 1..1 /\ c[1].on = "origin"
               /\ i = 4 => DOMAIN c = 1..1 /\ c[1].on = "session_id"
               /\ i = 5 => DOMAIN c = 1..2 /\ c[1].on = "disabled" /\ c[2].on = "reason"
               /\ i \in {1, 6, 7} => \A x \in DOMAIN c : c[x].do # "add" /\ c[x].on \notin Columns
               /\ i \in {1, 2, 3, 4, 5, 6, 7}
    <2>1. i \in {1, 2, 3, 4, 5, 6, 7}
      BY DEF WalletMigrations
    <2>2. i = 2 => DOMAIN c = 1..2 /\ c[1].on = "created_at" /\ c[2].on = "signed_at"
      BY <1>3 DEF Script, Do
    <2>3. i = 3 => DOMAIN c = 1..1 /\ c[1].on = "origin"
      BY <1>3 DEF Script, Do
    <2>4. i = 4 => DOMAIN c = 1..1 /\ c[1].on = "session_id"
      BY <1>3 DEF Script, Do
    <2>5. i = 5 => DOMAIN c = 1..2 /\ c[1].on = "disabled" /\ c[2].on = "reason"
      BY <1>3 DEF Script, Do
    <2>6. i \in {1, 7} => \A x \in DOMAIN c : c[x].do # "add" /\ c[x].on \notin Columns
      <3>1. CASE i = 1
        <4>1. /\ DOMAIN c = 1..5
              /\ c[1] = Do("create", "idps") /\ c[2] = Do("create", "networks")
              /\ c[3] = Do("create", "wallets") /\ c[4] = Do("create", "transactions")
              /\ c[5] = Do("create", "sessions")
          BY <1>3, <3>1 DEF Script
        <4>2. \A x \in DOMAIN c : c[x].do # "add" /\ c[x].on \notin Columns
          BY <4>1 DEF Do, Columns
        <4>. QED BY <3>1, <4>2
      <3>2. CASE i = 7
        <4>1. /\ DOMAIN c = 1..2
              /\ c[1] = Do("demote", "wallets") /\ c[2] = Do("create", "one_primary")
          BY <1>3, <3>2 DEF Script
        <4>2. \A x \in DOMAIN c : c[x].do # "add" /\ c[x].on \notin Columns
          BY <4>1 DEF Do, Columns
        <4>. QED BY <3>2, <4>2
      <3>. QED BY <3>1, <3>2
    <2>7. CASE i = 6 /\ pg
      BY <1>3, <2>1, <2>7 DEF Script, Do, Columns
    <2>8. CASE i = 6 /\ ~pg
      <3>1. /\ DOMAIN c = 1..5
            /\ c[1] = Do("drop_copy", "wallets") /\ c[2] = Do("create_copy", "wallets")
            /\ c[3] = Do("fill_copy", "wallets") /\ c[4] = Do("drop", "wallets")
            /\ c[5] = Do("rename", "wallets")
        BY <1>3, <2>8, Script6
      <3>2. \A x \in DOMAIN c : c[x].do # "add" /\ c[x].on \notin Columns
        BY <3>1 DEF Do, Columns
      <3>. QED BY <2>8, <3>2
    <2>. QED BY <2>1, <2>2, <2>3, <2>4, <2>5, <2>6, <2>7, <2>8
  <1>4. m \in {2, 3, 4, 5} /\ a[j].on \in Columns
    <2>1. m \in {2, 3, 4, 5}
      BY <1>1, <1>3
    <2>. QED BY <1>1, <1>3, <2>1 DEF Columns
  <1>5. a[j].on = b[k].on => m = n /\ j = k
    <2>1. n \in {1, 6, 7} => b[k].on \notin Columns
      BY <1>2, <1>3
    <2>2. n \in {1, 2, 3, 4, 5, 6, 7}
      BY <1>3
    <2>3. n \in {2, 3, 4, 5} /\ a[j].on = b[k].on => m = n /\ j = k
      BY <1>1, <1>2, <1>3, <1>4
    <2>. QED BY <1>4, <2>1, <2>2, <2>3
  <1>. QED BY <1>1, <1>2, <1>4, <1>5

\* The columns that are still to be added are not there.
NotYet(lg, pg, now, k, ob) ==
    \A m \in WalletMigrations \ lg : \A j \in DOMAIN Script(m, pg) :
        Script(m, pg)[j].do = "add" /\ (m = now => j >= k) => Script(m, pg)[j].on \notin ob

NoRows == \A t \in Rebuilt : rows[t] = {} /\ copy[t] = {}

Unloaded == idps = {} /\ \A n \in DOMAIN ConfigNetworks : networks[n] = Null

\* The database is new.
New == phase = "down" /\ ~created /\ log = {} /\ objects = {} /\ NoRows /\ Unloaded

\* The first start migrates it.
FirstStart ==
    /\ phase = "migrate_wallets" /\ fresh /\ created /\ command = "gateway"
    /\ NoRows /\ Unloaded
    /\ NotYet(log, postgres, Current, step, objects)
    /\ 1 \in log => "wallets" \in objects \/ At("rename")

\* What is not stored is yet to be loaded.
Loading ==
    /\ phase = "load" /\ command = "gateway" /\ created
    /\ \A i \in ConfigIdps : i \in idps <=> i \notin load
    /\ \A n \in DOMAIN ConfigNetworks : networks[n] = Null <=> n \in load

Settled ==
    /\ phase # "load" /\ (phase = "migrate_wallets" => ~fresh) /\ created
    /\ Configured

ConfigInv ==
    Undisturbed /\ ~existed /\ phase # "serving" => New \/ FirstStart \/ Loading \/ Settled

LEMMA ConfigInit ==
    ASSUME GatewayInit
    PROVE  ConfigInv
  <1>1. PICK v \in 0..7, s \in 0..3, signing \in {{}, SigningRow} :
          /\ v = 0 => s = 0
          /\ s = 0 => signing = {}
          /\ created \in {v > 0, TRUE}
          /\ log = (1..v) \cup (8..(7 + s))
          /\ idps = IF v = 0 THEN {} ELSE ConfigIdps
          /\ \E table \in LeftBy(v) :
                rows = [t \in Rebuilt |-> IF t = "wallets" THEN table ELSE signing]
    BY DEF GatewayInit, Init
  <1>2. /\ networks = [n \in Network |->
                          IF log # {} /\ n \in DOMAIN ConfigNetworks
                          THEN [owner |-> Null, idp |-> ConfigNetworks[n]] ELSE Null]
        /\ objects = UNION {Made(m) : m \in log} /\ copy = [t \in Rebuilt |-> {}]
        /\ phase = "down" /\ existed = created
    BY DEF GatewayInit, Init
  <1>3. CASE ~existed
    <2>0. v = 0
      <3>1. ~(v > 0)
        BY <1>1, <1>2, <1>3, Zenon
      <3>. QED BY <3>1
    <2>1. log = {} /\ ~created
      <3>1. s = 0 /\ (1..v) \cup (8..(7 + s)) = {}
        BY <1>1, <2>0
      <3>. QED BY <1>1, <1>2, <1>3, <3>1
    <2>2. objects = {}
      BY <1>2, <2>1
    <2>3. PICK table \in LeftBy(v) :
             rows = [t \in Rebuilt |-> IF t = "wallets" THEN table ELSE signing]
      BY <1>1
    <2>4. table = {} /\ signing = {}
      BY <1>1, <2>0, <2>3 DEF LeftBy
    <2>5. NoRows
      BY <1>2, <2>3, <2>4 DEF NoRows
    <2>6. Unloaded
      BY <1>1, <1>2, <2>0, <2>1, ConfigAssumption DEF Unloaded
    <2>. QED BY <1>2, <2>1, <2>2, <2>5, <2>6 DEF New, ConfigInv
  <1>. QED BY <1>3 DEF ConfigInv

\* A statement of the first start: it is not one of a migration it has not come to.
LEMMA StillNotYet ==
    ASSUME TypeOK, Log, Schema, FirstStart, NEW what, At(what), Executed,
           \A x \in objects' : x \in objects \/ x \notin Columns
                               \/ (what \in Making /\ x = Statement.on)
    PROVE  NotYet(log, postgres, Current, step, objects)'
  <1>1. /\ step \in DOMAIN Statements /\ Statement = Statements[step] /\ Statement.do = what
        /\ Current \notin log /\ postgres \in BOOLEAN /\ Shape(Statements, Current, postgres)
    BY AtStatement
  <1>2. Current \in WalletMigrations
    <2>1. MigrationOK /\ Migrating
      BY DEF TypeOK, At
    <2>2. Current \in pending
      BY <2>1, StatementType
    <2>. QED BY <2>2 DEF FirstStart, Log
  <1>3. Current' = Current /\ step' = step + 1 /\ log' = log /\ postgres' = postgres
    BY SameScript DEF Executed
  <1>4. step \in Nat /\ \A j \in DOMAIN Statements : j \in Nat
    BY <1>1 DEF Shape
  <1>5. PICK now, k : now = Current /\ k = step
    OBVIOUS
  <1>6. ASSUME NEW m \in WalletMigrations \ log, NEW j \in DOMAIN Script(m, postgres),
               Script(m, postgres)[j].do = "add", m = now => j >= k + 1
        PROVE  Script(m, postgres)[j].on \notin objects'
    <2>1. Script(m, postgres)[j].on \notin objects
      <3>1. m = now => j >= k
        BY <1>4, <1>5, <1>6 DEF Statements
      <3>. QED BY <1>5, <1>6, <3>1 DEF FirstStart, NotYet
    <2>2. Script(m, postgres)[j].on \in Columns
      BY <1>1, <1>6, ColumnsOnce
    <2>3. Script(m, postgres)[j].on # Statement.on
      <3>1. k \in DOMAIN Script(now, postgres) /\ Statement = Script(now, postgres)[k]
        BY <1>1, <1>5 DEF Statements
      <3>2. Script(m, postgres)[j].on = Script(now, postgres)[k].on => m = now /\ j = k
        BY <1>1, <1>2, <1>5, <1>6, <3>1, ColumnsOnce
      <3>. QED BY <1>4, <1>5, <1>6, <3>1, <3>2
    <2>. QED BY <2>1, <2>2, <2>3
  <1>. QED BY <1>3, <1>5, <1>6 DEF NotYet

\* Migration 6 is the only one that the wallet database is written anew by.
LEMMA OnlyWallets ==
    ASSUME TypeOK, Log, Schema, FirstStart, NEW what \in Copying, At(what)
    PROVE  /\ Statement.on = "wallets" /\ Current = 6 /\ ~postgres /\ 1 \in log
           /\ Current \in WalletMigrations
  <1>1. /\ step \in DOMAIN Statements /\ Statement = Statements[step] /\ Statement.do = what
        /\ Current \notin log /\ postgres \in BOOLEAN /\ Shape(Statements, Current, postgres)
    BY AtStatement
  <1>2. /\ Current \in WalletMigrations /\ \A m \in WalletMigrations \ log : Current <= m
    <2>1. MigrationOK /\ Migrating
      BY DEF TypeOK, At
    <2>2. Current \in pending /\ \A m \in pending : Current <= m
      BY <2>1, StatementType
    <2>. QED BY <2>2 DEF FirstStart, Log
  <1>3. /\ Statement.on \in Rebuilt /\ Rewriter(Statement.on) = Current
        /\ (Current = 6 => ~postgres)
    BY <1>1 DEF Shape, Ordered
  <1>4. Current = 6 /\ Statement.on = "wallets"
    BY <1>2, <1>3 DEF WalletMigrations, Rewriter
  <1>5. 1 \in log
    BY <1>2, <1>4 DEF WalletMigrations
  <1>. QED BY <1>1, <1>2, <1>3, <1>4, <1>5

\* What a statement leaves as it is.
LEMMA FirstExecutes ==
    ASSUME TypeOK, Log, Schema, FirstStart, NEW what, At(what), Executed, NoRows',
           \A x \in objects' : x \in objects \/ x \notin Columns
                               \/ (what \in Making /\ x = Statement.on),
           1 \in log => "wallets" \in objects' \/ At("rename")'
    PROVE  FirstStart'
  <1>1. /\ UNCHANGED <<phase, fresh, created, command, idps, networks, log>>
    BY DEF Executed
  <1>2. Unloaded'
    BY <1>1 DEF FirstStart, Unloaded
  <1>. QED BY <1>1, <1>2, StillNotYet DEF FirstStart

LEMMA NotColumns ==
    \A t \in Rebuilt : t \notin Columns /\ Gains[t] \notin Columns /\ Copy[t] \notin Columns
  BY DEF Rebuilt, Columns, Gains, Copy

\* No statement of the first start fails, and none makes a row.
LEMMA FirstProceeds ==
    ASSUME TypeOK, Log, Schema, FirstStart,
           CreateObject \/ AddObject \/ DropCopy \/ CreateCopy \/ FillCopy \/ DropTable
             \/ RenameCopy \/ CheckNotNull \/ Demote
    PROVE  FirstStart'
  <1>1. /\ \A w \in rows["wallets"] : FALSE
        /\ Primaries(rows["wallets"]) = {}
    BY DEF FirstStart, NoRows, Rebuilt, Primaries
  <1>2. ASSUME NEW what, At(what), what # "rename" PROVE ~At("rename")
    BY <1>2 DEF At
  <1>3. CASE CreateObject
    <2>1. At("create") /\ objects' = objects \cup {Statement.on} /\ Executed /\ UNCHANGED <<copy, rows>>
      BY <1>3 DEF CreateObject
    <2>2. NoRows' /\ (1 \in log => "wallets" \in objects')
      BY <1>2, <2>1 DEF FirstStart, NoRows
    <2>. QED BY <2>1, <2>2, FirstExecutes DEF Making
  <1>4. CASE AddObject
    <2>1. At("add")
      BY <1>4 DEF AddObject
    <2>2. /\ step \in DOMAIN Statements /\ Statement = Statements[step] /\ Statement.do = "add"
          /\ Current \notin log /\ Shape(Statements, Current, postgres)
      BY <2>1, AtStatement
    <2>3. Current \in WalletMigrations
      <3>1. MigrationOK /\ Migrating
        BY <2>1 DEF TypeOK, At
      <3>2. Current \in pending
        BY <3>1, StatementType
      <3>. QED BY <3>2 DEF FirstStart, Log
    <2>4. step >= step
      BY <2>2 DEF Shape
    <2>5. Statement.on \notin objects
      BY <2>2, <2>3, <2>4 DEF FirstStart, NotYet, Statements
    <2>6. objects' = objects \cup {Statement.on} /\ Executed /\ UNCHANGED <<copy, rows>>
      BY <1>4, <2>5 DEF AddObject
    <2>7. NoRows' /\ (1 \in log => "wallets" \in objects')
      BY <1>2, <2>1, <2>6 DEF FirstStart, NoRows
    <2>. QED BY <2>1, <2>6, <2>7, FirstExecutes DEF Making
  <1>5. CASE DropCopy
    <2>1. /\ At("drop_copy") /\ objects' = objects \ {Copy[Statement.on]} /\ Executed
          /\ copy' = [copy EXCEPT ![Statement.on] = {}] /\ UNCHANGED rows
      BY <1>5 DEF DropCopy
    <2>2. Statement.on = "wallets"
      BY <2>1, OnlyWallets DEF Copying
    <2>3. DOMAIN copy = Rebuilt
      BY DEF TypeOK, MigrationOK, RowsOK
    <2>4. NoRows'
      BY <2>1, <2>3 DEF FirstStart, NoRows
    <2>5. 1 \in log => "wallets" \in objects'
      BY <1>2, <2>1, <2>2 DEF FirstStart, Copy
    <2>. QED BY <2>1, <2>4, <2>5, FirstExecutes
  <1>6. CASE CreateCopy
    <2>1. /\ At("create_copy") /\ objects' = objects \cup {Copy[Statement.on]} /\ Executed
          /\ UNCHANGED <<copy, rows>>
      BY <1>6 DEF CreateCopy
    <2>2. Statement.on \in Rebuilt
      BY <2>1, OnlyWallets DEF Copying, Rebuilt
    <2>3. Copy[Statement.on] \notin Columns
      BY <2>2, NotColumns
    <2>4. NoRows' /\ (1 \in log => "wallets" \in objects')
      BY <1>2, <2>1 DEF FirstStart, NoRows
    <2>. QED BY <2>1, <2>3, <2>4, FirstExecutes
  <1>7. CASE FillCopy
    <2>1. At("fill_copy")
      BY <1>7 DEF FillCopy
    <2>2. Statement.on = "wallets" /\ "wallets" \in objects
      BY <1>2, <2>1, OnlyWallets DEF Copying, FirstStart
    <2>3. /\ copy' = [copy EXCEPT ![Statement.on] = rows[Statement.on]] /\ Executed
          /\ UNCHANGED <<objects, rows>>
      BY <1>1, <1>7, <2>2 DEF FillCopy
    <2>4. DOMAIN copy = Rebuilt
      BY DEF TypeOK, MigrationOK, RowsOK
    <2>5. NoRows'
      BY <2>2, <2>3, <2>4 DEF FirstStart, NoRows, Rebuilt
    <2>. QED BY <2>1, <2>2, <2>3, <2>5, FirstExecutes
  <1>8. CASE DropTable
    <2>1. /\ At("drop") /\ objects' = objects \ {Statement.on, Loses[Statement.on]} /\ Executed
          /\ rows' = [rows EXCEPT ![Statement.on] = {}] /\ UNCHANGED copy
      BY <1>8 DEF DropTable
    <2>2. DOMAIN rows = Rebuilt
      BY DEF TypeOK, RegistryOK, TablesOK, RowsOK
    <2>3. NoRows'
      BY <2>1, <2>2 DEF FirstStart, NoRows
    <2>4. At("rename")'
      <3>1. Current = 6 /\ ~postgres /\ postgres \in BOOLEAN
        BY <2>1, OnlyWallets DEF Copying, TypeOK, MigrationOK
      <3>2. /\ step \in DOMAIN Statements /\ Statements[step].do = "drop"
        BY <2>1, AtStatement
      <3>3. PICK s : s = Statements
        OBVIOUS
      <3>4. /\ DOMAIN s = 1..5 /\ Len(s) = 5
            /\ s[1] = Do("drop_copy", "wallets") /\ s[2] = Do("create_copy", "wallets")
            /\ s[3] = Do("fill_copy", "wallets") /\ s[4] = Do("drop", "wallets")
            /\ s[5] = Do("rename", "wallets")
        BY <3>1, <3>3, Script6 DEF Statements
      <3>5. step = 4 /\ s[5].do = "rename"
        BY <3>2, <3>3, <3>4 DEF Do
      <3>6. Statements' = s /\ step' = 5 /\ pending' = pending /\ phase' = phase
        BY <2>1, <3>3, <3>5, SameScript DEF Executed
      <3>7. Migrating'
        BY <2>1, <3>6 DEF At, Migrating
      <3>. QED BY <3>4, <3>5, <3>6, <3>7 DEF At, Statement
    <2>. QED BY <2>1, <2>3, <2>4, FirstExecutes
  <1>9. CASE RenameCopy
    <2>1. /\ At("rename")
          /\ objects' = (objects \ {Copy[Statement.on]}) \cup {Statement.on, Gains[Statement.on]}
          /\ rows' = [rows EXCEPT ![Statement.on] = copy[Statement.on]]
          /\ copy' = [copy EXCEPT ![Statement.on] = {}] /\ Executed
      BY <1>9 DEF RenameCopy
    <2>2. Statement.on = "wallets" /\ Statement.on \in Rebuilt
      BY <2>1, OnlyWallets DEF Copying, Rebuilt
    <2>3. Gains[Statement.on] \notin Columns /\ Statement.on \notin Columns
      BY <2>2, NotColumns
    <2>4. DOMAIN rows = Rebuilt /\ DOMAIN copy = Rebuilt
      BY DEF TypeOK, RegistryOK, TablesOK, MigrationOK, RowsOK
    <2>5. NoRows'
      BY <2>1, <2>2, <2>4 DEF FirstStart, NoRows
    <2>. QED BY <2>1, <2>2, <2>3, <2>5, FirstExecutes
  <1>10. CASE CheckNotNull
    <2>1. At("not_null") /\ Executed /\ UNCHANGED <<objects, copy, rows>>
      BY <1>1, <1>10 DEF CheckNotNull
    <2>2. NoRows' /\ (1 \in log => "wallets" \in objects')
      BY <1>2, <2>1 DEF FirstStart, NoRows
    <2>. QED BY <2>1, <2>2, FirstExecutes
  <1>11. CASE Demote
    <2>1. PICK stay \in SUBSET Primaries(rows["wallets"]) :
             rows' = [rows EXCEPT !["wallets"] = stay \cup {Demoted(w) : w \in @ \ stay}]
      BY <1>11 DEF Demote
    <2>2. At("demote") /\ Executed /\ UNCHANGED <<objects, copy>>
      BY <1>11 DEF Demote
    <2>3. stay \cup {Demoted(w) : w \in rows["wallets"] \ stay} = {}
      BY <1>1
    <2>4. DOMAIN rows = Rebuilt
      BY DEF TypeOK, RegistryOK, TablesOK, RowsOK
    <2>5. NoRows'
      BY <2>1, <2>2, <2>3, <2>4 DEF FirstStart, NoRows
    <2>6. 1 \in log => "wallets" \in objects'
      BY <1>2, <2>2 DEF FirstStart
    <2>. QED BY <2>2, <2>5, <2>6, FirstExecutes
  <1>. QED BY <1>3, <1>4, <1>5, <1>6, <1>7, <1>8, <1>9, <1>10, <1>11


\* Once a migration is logged, the next one has added none of its columns.
LEMMA FirstLogs ==
    ASSUME TypeOK, Log, Schema, FirstStart, LogMigration
    PROVE  FirstStart'
  <1>1. /\ Migrating /\ log' = log \cup {Current} /\ pending' = pending \ {Current} /\ step' = 1
        /\ UNCHANGED <<postgres, objects, copy, rows, phase, command, fresh, created, idps, networks>>
    BY DEF LogMigration, tables
  <1>2. NoRows' /\ Unloaded'
    BY <1>1 DEF FirstStart, NoRows, Unloaded
  <1>3. PICK now, k : now = Current /\ k = step
    OBVIOUS
  <1>4. NotYet(log, postgres, Current, step, objects)'
    <2>1. ASSUME NEW m \in WalletMigrations \ log', NEW j \in DOMAIN Script(m, postgres),
                 Script(m, postgres)[j].do = "add"
          PROVE  Script(m, postgres)[j].on \notin objects
      BY <1>1, <1>3, <2>1 DEF FirstStart, NotYet
    <2>. QED BY <1>1, <2>1 DEF NotYet
  <1>5. "wallets" \in objects \/ 1 \notin log'
    <2>1. ~At("rename")
      BY DEF LogMigration, At, TypeOK, MigrationOK
    <2>2. Current = 1 => "wallets" \in objects
      <3>1. Made(Current) \subseteq objects
        BY LoggedIsMade
      <3>2. "wallets" \in Made(1)
        BY Names DEF Rebuilt, Maker
      <3>. QED BY <3>1, <3>2
    <2>. QED BY <1>1, <2>1, <2>2 DEF FirstStart
  <1>. QED BY <1>1, <1>2, <1>4, <1>5 DEF FirstStart

\* All of the configuration is loaded.
LEMMA LoadProceeds ==
    ASSUME TypeOK, Log, Schema, Loading,
           \/ \E i \in ConfigIdps : LoadIdp(i)
           \/ \E n \in DOMAIN ConfigNetworks : LoadNetwork(n)
           \/ Loaded
    PROVE  Loading' \/ Settled'
  <1>1. WalletMigrations \subseteq log
    BY DEF Loading, Log
  <1>2. "idps" \in objects /\ "networks" \in objects
    <2>1. "idps" \in Made(1) /\ "networks" \in Made(1)
      BY DEF Made, Doing, Script, Do
    <2>2. \A t \in Rebuilt : "idps" # t /\ "idps" # Loses[t] /\ "networks" # t /\ "networks" # Loses[t]
      BY DEF Rebuilt, Loses
    <2>3. 1 \in log
      BY <1>1 DEF WalletMigrations
    <2>. QED BY <2>1, <2>2, <2>3 DEF Schema, Kept, Unwritten
  <1>3. /\ \A i \in ConfigIdps : i \in Idp /\ i \notin DOMAIN ConfigNetworks
        /\ \A n \in DOMAIN ConfigNetworks : /\ n \in Network /\ n \notin ConfigIdps
                                            /\ ConfigNetworks[n] \in ConfigIdps
    BY ConfigAssumption, KindsAssumption
  <1>4. ASSUME NEW i \in ConfigIdps, LoadIdp(i) PROVE Loading'
    <2>1. i \in load /\ i \notin idps
      BY <1>4 DEF LoadIdp, Loading
    <2>2. /\ idps' = idps \cup {i} /\ load' = load \ {i}
          /\ UNCHANGED <<phase, command, created, networks>>
      BY <1>2, <1>4, <2>1 DEF LoadIdp, database
    <2>. QED BY <1>3, <2>1, <2>2 DEF Loading
  <1>5. ASSUME NEW n \in DOMAIN ConfigNetworks, LoadNetwork(n) PROVE Loading'
    <2>1. load \cap Idp = {} /\ n \in load /\ networks[n] = Null
      BY <1>5 DEF LoadNetwork, Loading
    <2>2. ConfigNetworks[n] \in idps
      BY <1>3, <2>1 DEF Loading
    <2>3. /\ networks' = [networks EXCEPT ![n] = [owner |-> Null, idp |-> ConfigNetworks[n]]]
          /\ load' = load \ {n} /\ UNCHANGED <<phase, command, created, idps>>
      BY <1>2, <1>5, <2>1, <2>2 DEF LoadNetwork, InsertNetwork, database
    <2>4. [owner |-> Null, idp |-> ConfigNetworks[n]] \in NetworkRow
      BY <1>3 DEF NetworkRow
    <2>5. PICK row : row = [owner |-> Null, idp |-> ConfigNetworks[n]] /\ row # Null
      BY <2>4, TablesAssumption
    <2>6. networks \in [Network -> NetworkRow \cup {Null}]
      BY DEF TypeOK, RegistryOK, TablesOK
    <2>7. \A x \in DOMAIN ConfigNetworks : networks'[x] = IF x = n THEN row ELSE networks[x]
      BY <1>3, <2>3, <2>5, <2>6
    <2>. QED BY <1>3, <2>1, <2>3, <2>5, <2>7 DEF Loading
  <1>6. CASE Loaded
    <2>1. load = {} /\ UNCHANGED <<created, idps, networks>> /\ phase' = "migrate_signing"
      BY <1>6 DEF Loaded, Loading, Enter, database, tables
    <2>. QED BY <2>1 DEF Loading, Settled, Configured
  <1>. QED BY <1>4, <1>5, <1>6

\* What a start leaves of a configuration that is there.
LEMMA SettledStays ==
    ASSUME TypeOK, Log, Settled, StartNext, phase' # "serving", crashes' = 0, commands' = 0,
           phase # "serving"
    PROVE  Settled'
  <1>1. /\ crashes \in Nat /\ commands \in Nat
    BY DEF TypeOK, MigrationOK, BoundsAssumption
  <1>2. ~Crash /\ \A c \in {"db_up", "db_bootstrap"} : ~StartCommand(c)
    BY <1>1 DEF Crash, StartCommand
  <1>3. CASE StartGateway
    BY <1>3 DEF StartGateway, Enter, tables, Settled, Configured
  <1>4. CASE Exit
    BY <1>4 DEF Exit, Down, Enter, database, tables, Settled, Configured
  <1>5. CASE Executed
    BY <1>5 DEF Executed, Settled, Configured
  <1>6. CASE LogMigration
    BY <1>6 DEF LogMigration, tables, Settled, Configured
  <1>7. CASE WalletsMigrated
    BY <1>7 DEF WalletsMigrated, Down, Enter, database, tables, Settled, Configured
  <1>8. ~Loaded /\ (\A i \in ConfigIdps : ~LoadIdp(i))
        /\ (\A n \in DOMAIN ConfigNetworks : ~LoadNetwork(n))
    BY DEF Settled, Loaded, LoadIdp, LoadNetwork
  <1>9. ~Ready
    BY DEF Ready, Enter
  <1>. QED BY <1>2, <1>3, <1>4, <1>5, <1>6, <1>7, <1>8, <1>9
           DEF StartNext, Proceed, CreateObject, AddObject, DropCopy, CreateCopy, FillCopy,
               DropTable, RenameCopy, CheckNotNull, Demote

LEMMA ConfigNext ==
    ASSUME TypeOK, Log, Schema, ConfigInv, GatewayNext
    PROVE  ConfigInv'
  <1>1. SUFFICES ASSUME crashes' = 0, commands' = 0, ~existed', phase' # "serving"
                 PROVE  New' \/ FirstStart' \/ Loading' \/ Settled'
    BY DEF ConfigInv, Undisturbed
  <1>2. /\ crashes \in Nat /\ commands \in Nat
    BY DEF TypeOK, MigrationOK, BoundsAssumption
  <1>3. StartNext /\ ~Crash /\ \A c \in {"db_up", "db_bootstrap"} : ~StartCommand(c)
    <2>1. ~ServeStep
      BY <1>1 DEF ServeStep, process
    <2>. QED BY <1>1, <1>2, <2>1 DEF Crash, StartCommand, GatewayNext, StartStep
  <1>4. StartGateway \/ Proceed
    BY <1>3 DEF StartNext
  <1>5. phase # "serving"
    BY <1>4 DEF StartGateway, Proceed, CreateObject, AddObject, DropCopy, CreateCopy, FillCopy,
                DropTable, RenameCopy, CheckNotNull, Demote, LogMigration, WalletsMigrated,
                LoadIdp, LoadNetwork, Loaded, Ready, At, Migrating
  <1>6. crashes = 0 /\ commands = 0 /\ ~existed
    <2>1. CASE StartGateway
      BY <1>1, <2>1 DEF StartGateway, counts
    <2>2. CASE Exit \/ Executed \/ LogMigration \/ WalletsMigrated \/ Loaded \/ Ready
      BY <1>1, <2>2 DEF Exit, Executed, LogMigration, WalletsMigrated, Loaded, Ready, counts,
                        database
    <2>3. CASE \E i \in ConfigIdps : LoadIdp(i)
      BY <1>1, <2>2, <2>3 DEF LoadIdp, counts, database
    <2>4. CASE \E n \in DOMAIN ConfigNetworks : LoadNetwork(n)
      BY <1>1, <2>2, <2>4 DEF LoadNetwork, counts, database
    <2>. QED BY <1>4, <2>1, <2>2, <2>3, <2>4
             DEF Proceed, CreateObject, AddObject, DropCopy, CreateCopy, FillCopy,
                 DropTable, RenameCopy, CheckNotNull, Demote
  <1>7. CASE New
    <2>1. StartGateway
      BY <1>4, <1>7 DEF New, Proceed, CreateObject, AddObject, DropCopy, CreateCopy, FillCopy,
                DropTable, RenameCopy, CheckNotNull, Demote, LogMigration, WalletsMigrated,
                LoadIdp, LoadNetwork, Loaded, Ready, At, Migrating
    <2>2. /\ phase' = "migrate_wallets" /\ fresh' = TRUE /\ created' = TRUE /\ command' = "gateway"
          /\ UNCHANGED <<postgres, objects, copy, log, rows, idps, networks>>
      BY <1>7, <2>1 DEF StartGateway, Enter, tables, New
    <2>3. NoRows' /\ Unloaded'
      BY <1>7, <2>2 DEF New, NoRows, Unloaded
    <2>4. objects' = {} /\ log' = {}
      BY <1>7, <2>2 DEF New
    <2>5. NotYet(log, postgres, Current, step, objects)'
      BY <2>4 DEF NotYet
    <2>. QED BY <2>2, <2>3, <2>4, <2>5 DEF FirstStart
  <1>8. CASE FirstStart
    <2>1. ~StartGateway /\ ~Loaded /\ ~Ready /\ (\A i \in ConfigIdps : ~LoadIdp(i))
          /\ (\A n \in DOMAIN ConfigNetworks : ~LoadNetwork(n))
      BY <1>8 DEF FirstStart, StartGateway, Loaded, Ready, LoadIdp, LoadNetwork
    <2>2. CASE WalletsMigrated
      <3>1. /\ phase' = "load" /\ load' = Config
            /\ UNCHANGED <<command, created, idps, networks>>
        BY <1>8, <2>2 DEF FirstStart, WalletsMigrated, Enter, database, tables
      <3>. QED BY <1>8, <3>1 DEF FirstStart, Unloaded, Loading, Config
    <2>. QED BY <1>4, <1>8, <2>1, <2>2, FirstProceeds, FirstLogs DEF Proceed
  <1>9. CASE Loading
    <2>1. \/ \E i \in ConfigIdps : LoadIdp(i)
          \/ \E n \in DOMAIN ConfigNetworks : LoadNetwork(n)
          \/ Loaded
      BY <1>4, <1>9 DEF Loading, StartGateway, Proceed, CreateObject, AddObject, DropCopy,
                CreateCopy, FillCopy, DropTable, RenameCopy, CheckNotNull, Demote, LogMigration,
                WalletsMigrated, Ready, At, Migrating
    <2>. QED BY <1>9, <2>1, LoadProceeds
  <1>10. CASE Settled
    BY <1>1, <1>3, <1>5, <1>10, SettledStays
  <1>. QED BY <1>5, <1>6, <1>7, <1>8, <1>9, <1>10 DEF ConfigInv, Undisturbed

(***************************************************************************)
(* A database that the first start creates, and that neither a crash nor a  *)
(* command touches, is served with all of the configuration: nothing in     *)
(* that start fails, so that what it loads, providers before networks, is   *)
(* all there.                                                              *)
(***************************************************************************)
THEOREM ServesConfigurationAlways == Spec => ServesConfiguration
  <1>1. GatewayInit => ConfigInv
    BY ConfigInit
  <1>2. IInv /\ ConfigInv /\ [GatewayNext]_vars => ConfigInv'
    <2>1. ASSUME IInv, ConfigInv, GatewayNext PROVE ConfigInv'
      BY <2>1, ConfigNext DEF IInv
    <2>2. ASSUME ConfigInv, UNCHANGED vars PROVE ConfigInv'
      <3>1. At("rename")' = At("rename") /\ Current' = Current
        BY <2>2, SameScript DEF vars, process, database, At, Migrating, Statement
      <3>. QED BY <2>2, <3>1 DEF vars, process, database, tables, counts, ConfigInv, Undisturbed, New,
                         FirstStart, Loading, Settled, Configured, NoRows, Unloaded, NotYet
    <2>. QED BY <2>1, <2>2
  <1>3. IInv /\ ConfigInv /\ [GatewayNext]_vars =>
          [phase # "serving" /\ phase' = "serving" /\ Undisturbed /\ ~existed
             => Configured]_vars
    <2>1. SUFFICES ASSUME IInv, ConfigInv, GatewayNext, phase # "serving", phase' = "serving",
                          Undisturbed, ~existed
                   PROVE  Configured
      OBVIOUS
    <2>2. phase = "migrate_signing"
      <3>1. ~ServeStep
        BY <2>1 DEF ServeStep
      <3>2. StartNext
        BY <2>1, <3>1 DEF GatewayNext, StartStep
      <3>3. phase' = phase \/ phase' = "down" => FALSE
        BY <2>1
      <3>. QED BY <2>1, <3>2 DEF StartNext, Proceed, StartGateway, StartCommand, Crash, Exit, Down,
               Enter, Executed, CreateObject, AddObject, DropCopy, CreateCopy, FillCopy,
               DropTable, RenameCopy, CheckNotNull, Demote, LogMigration, WalletsMigrated,
               LoadIdp, LoadNetwork, Loaded, Ready
    <2>. QED BY <2>1, <2>2 DEF ConfigInv, New, FirstStart, Loading, Settled
  <1>. QED BY <1>1, <1>2, <1>3, Invariant, PTL DEF Spec, Safety, ServesConfiguration

=============================================================================
