----------------------------- MODULE SqlProofs -----------------------------
(***************************************************************************)
(* Tables and rows are created and removed one at a time, whatever clients *)
(* do side by side: for any clients, tables and statements.                *)
(***************************************************************************)
EXTENDS Sql, FiniteSetTheorems, TLAPS

NextId(f) == IF NextTableIdKey \in DOMAIN f THEN f[NextTableIdKey].id ELSE 1

RowsIn(keys, id) == \A k \in keys : k.fixed = TablePrefix(id).fixed

IsKey(k) ==
    \/ k = NextTableIdKey
    \/ \E t \in Table : k = CatalogKey(t)
    \/ k.fixed[2] \in Nat /\ k.fixed = TablePrefix(k.fixed[2]).fixed

\* A finite store: nothing in it is a deletion, and ids are numbers.
IsStore(f) ==
    /\ IsFiniteSet(DOMAIN f)
    /\ \A k \in DOMAIN f : IsKey(k) /\ f[k] # NotFound
    /\ NextTableIdKey \in DOMAIN f =>
          f[NextTableIdKey].id \in Nat /\ f[NextTableIdKey].id # 0
    /\ \A t \in Table : CatalogKey(t) \in DOMAIN f => f[CatalogKey(t)].id \in Nat

\* A snapshot differs from the store in nothing but what others have changed.
UpToDate(x) ==
    \A k \in (DOMAIN store \cup DOMAIN x.snapshot) \ x.changed :
        k \in DOMAIN store /\ k \in DOMAIN x.snapshot /\ x.snapshot[k] = store[k]

\* What a statement that did not fail writes.
CreateOutcome(snapshot, st, r) ==
    /\ r.id = NextId(snapshot)
    /\ CatalogKey(st.table) \notin DOMAIN snapshot
    /\ DOMAIN r.mutations = {NextTableIdKey, CatalogKey(st.table)}
    /\ r.mutations[NextTableIdKey] = [kind |-> "next", id |-> r.id + 1]
    /\ r.mutations[CatalogKey(st.table)] # NotFound
    /\ r.mutations[CatalogKey(st.table)].id = r.id
    /\ r.mutations[CatalogKey(st.table)] = [kind |-> "schema", id |-> r.id, columns |-> st.columns]

DropOutcome(snapshot, t, r) ==
    /\ CatalogKey(t) \in DOMAIN snapshot
    /\ r.rows \subseteq DOMAIN snapshot
    /\ DOMAIN r.mutations = r.rows \cup {CatalogKey(t)}
    /\ \A k \in DOMAIN r.mutations : r.mutations[k] = NotFound

InsertOutcome(snapshot, r) ==
    /\ r.rows \cap DOMAIN snapshot = {}
    /\ DOMAIN r.mutations = r.rows
    /\ \A k \in r.rows : r.mutations[k] # NotFound

UpdateOutcome(snapshot, r) ==
    /\ r.rows \subseteq DOMAIN snapshot
    /\ DOMAIN r.mutations = r.rows
    /\ \A k \in r.rows : r.mutations[k] # NotFound

DeleteOutcome(snapshot, r) ==
    /\ r.rows \subseteq DOMAIN snapshot
    /\ DOMAIN r.mutations = r.rows
    /\ \A k \in r.rows : r.mutations[k] = NotFound

SelectOutcome(r) == DOMAIN r.mutations = {}

Outcome(snapshot, st, r) ==
    /\ r.id \in Nat
    /\ IsFiniteSet(r.rows)
    /\ RowsIn(r.rows, r.id)
    /\ st.op = "create" => CreateOutcome(snapshot, st, r)
    /\ st.op = "drop"   => DropOutcome(snapshot, st.table, r)
    /\ st.op = "insert" => InsertOutcome(snapshot, r)
    /\ st.op = "update" => UpdateOutcome(snapshot, r)
    /\ st.op = "delete" => DeleteOutcome(snapshot, r)
    /\ st.op = "select" => SelectOutcome(r)

BegunSession(x) ==
    /\ x = [pc |-> "begun", st |-> x.st, snapshot |-> x.snapshot,
            mutations |-> NoWrites, changed |-> x.changed]
    /\ x.st \in Statement
    /\ IsStore(x.snapshot)
    /\ UpToDate(x)

ExecutedSession(x) ==
    /\ x = [pc |-> "executed", st |-> x.st, snapshot |-> x.snapshot,
            changed |-> x.changed, result |-> x.result]
    /\ x.st \in Statement
    /\ IsStore(x.snapshot)
    /\ UpToDate(x)
    /\ Outcome(x.snapshot, x.st, x.result)

SessionOK(x) == x.pc = "idle" \/ BegunSession(x) \/ ExecutedSession(x)

LedgerOK ==
    /\ ledger = [tables |-> ledger.tables, created |-> ledger.created, rows |-> ledger.rows]
    /\ ledger.tables \in [Table -> Int]
    /\ ledger.created \in [Id -> Int]
    /\ ledger.rows \in [Id -> Int]

\* The ids from the next one on have not been given out.
Unused == \A id \in Id : id >= NextId(store) => ledger.created[id] = 0

SqlInv ==
    /\ LedgerOK
    /\ IsStore(store)
    /\ session = [s \in Session |-> session[s]]
    /\ \A s \in Session : SessionOK(session[s])
    /\ Unused
    /\ IdsAreNeverReused
    /\ TablesAddUp
    /\ RowsAddUp

\* The rows of a table fit its schema, and ids below the next one are in use.
IsColumns(columns) ==
    /\ Len(columns) \in Nat /\ DOMAIN columns = 1..Len(columns)
    /\ \E i \in DOMAIN columns : columns[i].pk

RowFits(c, k, v) ==
    /\ v.kind = "row"
    /\ v.row = [i \in DOMAIN c.columns |-> v.row[i]]
    /\ k = RowKey(c.id, v.row[PkIndex(c.columns)])

SchemaFits(f, c) ==
    /\ c.kind = "schema" /\ IsColumns(c.columns)
    /\ c.id \in Nat \ {0} /\ c.id < NextId(f)
    /\ \A k \in DOMAIN f : k.fixed = TablePrefix(c.id).fixed => RowFits(c, k, f[k])

StoreFits(f) ==
    /\ NextTableIdKey \in DOMAIN f => f[NextTableIdKey].kind = "next"
    /\ \A t \in Table : CatalogKey(t) \in DOMAIN f => SchemaFits(f, f[CatalogKey(t)])
    /\ \A t, u \in Table :
          /\ CatalogKey(t) \in DOMAIN f /\ CatalogKey(u) \in DOMAIN f
          /\ f[CatalogKey(t)].id = f[CatalogKey(u)].id
          => t = u
    /\ \A k \in DOMAIN f : \A id \in Nat :
          k.fixed = TablePrefix(id).fixed => id # 0 /\ id < NextId(f) /\ f[k].kind = "row"

\* The tables that were there when x began are still what they were, or gone.
OldTables(x) ==
    /\ NextId(x.snapshot) <= NextId(store)
    /\ \A t \in Table :
          CatalogKey(t) \in DOMAIN store /\ store[CatalogKey(t)].id < NextId(x.snapshot)
          => CatalogKey(t) \in DOMAIN x.snapshot /\ x.snapshot[CatalogKey(t)] = store[CatalogKey(t)]

\* What a statement writes fits the schema that it has read.
WritesFit(snapshot, st, r) ==
    st.op \in {"insert", "update"} =>
        /\ CatalogKey(st.table) \in DOMAIN snapshot
        /\ r.id = snapshot[CatalogKey(st.table)].id
        /\ \A k \in r.rows : RowFits(snapshot[CatalogKey(st.table)], k, r.mutations[k])

SessionFits(x) ==
    /\ x.pc = "idle" => x.status # "corruption"
    /\ x.pc # "idle" => StoreFits(x.snapshot) /\ OldTables(x)
    /\ x.pc = "executed" => WritesFit(x.snapshot, x.st, x.result)

\* A statement that is under way may take one more id.
Busy == {s \in Session : session[s].pc # "idle"}
IdsSuffice ==
    /\ IsFiniteSet(Busy) /\ started \in Nat /\ started <= MaxStatements
    /\ NextId(store) + Cardinality(Busy) <= started + 1

FitInv ==
    /\ SqlInv /\ StoreFits(store) /\ IdsSuffice
    /\ \A s \in Session : SessionFits(session[s])

-----------------------------------------------------------------------------
(* Keys. *)

\* The keys of the catalog are distinct, and none is the key of a row
\* (CatalogKey, kNextTableIdKey, TablePrefix).
LEMMA KeysDiffer ==
    /\ \A t : CatalogKey(t) # NextTableIdKey
    /\ \A t, u : CatalogKey(t) = CatalogKey(u) => t = u
    /\ \A id : NextTableIdKey.fixed # TablePrefix(id).fixed
    /\ \A id, t : CatalogKey(t).fixed # TablePrefix(id).fixed
    /\ \A id, j : TablePrefix(id).fixed = TablePrefix(j).fixed => id = j
  <1>1. \A t : CatalogKey(t).fixed = <<1, t>>
    BY Zenon DEF CatalogKey
  <1>2. NextTableIdKey.fixed = <<2>>
    BY Zenon DEF NextTableIdKey
  <1>3. \A id : TablePrefix(id).fixed = <<3, id, 1>>
    BY Zenon DEF TablePrefix
  <1>4. \A t, u, id : /\ <<1, t>> # <<2>> /\ <<3, id, 1>> # <<2>> /\ <<3, id, 1>> # <<1, t>>
                      /\ <<1, t>> = <<1, u>> => t = u
                      /\ <<3, t, 1>> = <<3, u, 1>> => t = u
    BY Zenon
  <1> QED
    BY <1>1, <1>2, <1>3, <1>4

\* The key of a row starts with the prefix of its table (RowKey).
LEMMA RowKeyPrefix == \A id, pk : RowKey(id, pk).fixed = TablePrefix(id).fixed
  BY Zenon DEF RowKey, TablePrefix

\* The catalog comes before every table.
LEMMA CatalogIsBelow ==
    ASSUME NEW id
    PROVE  /\ KeyBelow(NextTableIdKey, TablePrefix(id))
           /\ \A t : KeyBelow(CatalogKey(t), TablePrefix(id))
  <1>1. Below(<<2>>, <<3, id, 1>>)
    BY DEF Below
  <1>2. \A t : Below(<<1, t>>, <<3, id, 1>>)
    BY DEF Below
  <1> QED
    BY <1>1, <1>2, Zenon DEF KeyBelow, NextTableIdKey, TablePrefix, CatalogKey

\* Between the prefix of a table and its end are the rows of this table alone
\* (FetchRows: "t<id>r" -> "t<id>s").
LEMMA BetweenPrefixAndEnd ==
    ASSUME NEW id \in Nat, NEW k, IsKey(k),
           ~KeyBelow(k, TablePrefix(id)), KeyBelow(k, TableEnd(id))
    PROVE  k.fixed = TablePrefix(id).fixed
  <1>1. PICK j \in Nat : k.fixed = <<3, j, 1>>
    BY CatalogIsBelow, Zenon DEF IsKey, TablePrefix
  <1>2. ~Below(<<3, j, 1>>, <<3, id, 1>>)
    BY <1>1, Zenon DEF KeyBelow, TablePrefix
  <1>3. ~(j < id)
    <2> SUFFICES ASSUME j < id PROVE FALSE
      BY Zenon
    <2>1. 2 \in DOMAIN <<3, j, 1>> \cap DOMAIN <<3, id, 1>>
      OBVIOUS
    <2>2. \A i \in 1..(2 - 1) : <<3, j, 1>>[i] = <<3, id, 1>>[i]
      OBVIOUS
    <2> QED
      BY <1>2, <2>1, <2>2, Zenon DEF Below
  <1>4. Below(<<3, j, 1>>, <<3, id, 2>>)
    BY <1>1 DEF KeyBelow, TableEnd
  <1>5. ~(id < j)
    <2> SUFFICES ASSUME id < j PROVE FALSE
      BY Zenon
    <2>1. PICK i \in {1, 2, 3} : /\ <<3, j, 1>>[i] < <<3, id, 2>>[i]
                                 /\ \A h \in 1..(i - 1) : <<3, j, 1>>[h] = <<3, id, 2>>[h]
      BY <1>4 DEF Below
    <2>2. i = 3
      BY <2>1
    <2> QED
      BY <2>1, <2>2
  <1> QED
    BY <1>1, <1>3, <1>5 DEF TablePrefix

-----------------------------------------------------------------------------
(* Statements, executed on a transaction that has buffered nothing. *)

\* Get reads the snapshot.
LEMMA GetReads ==
    ASSUME NEW x, x.mutations = NoWrites, IsStore(x.snapshot), NEW k
    PROVE  /\ Get(x, k) # NotFound <=> k \in DOMAIN x.snapshot
           /\ k \in DOMAIN x.snapshot => Get(x, k) = x.snapshot[k]
  BY DEF Get, NoWrites, IsStore

\* FetchRows returns rows of the table that are in the snapshot.
LEMMA RowsAreRead ==
    ASSUME NEW x, x.mutations = NoWrites, IsStore(x.snapshot),
           NEW schema, schema.id \in Nat, NEW where
    PROVE  /\ RowsToRead(x, schema, where) \subseteq DOMAIN x.snapshot
           /\ RowsIn(RowsToRead(x, schema, where), schema.id)
  <1>1. ASSUME NEW k \in Scan(x, TablePrefix(schema.id), TableEnd(schema.id))
        PROVE  k \in DOMAIN x.snapshot /\ k.fixed = TablePrefix(schema.id).fixed
    <2>1. k \in DOMAIN x.snapshot
      BY <1>1, GetReads, Zenon DEF Scan, NoWrites
    <2>2. IsKey(k)
      BY <2>1, Zenon DEF IsStore
    <2> QED
      BY <1>1, <2>1, <2>2, BetweenPrefixAndEnd, Zenon DEF Scan
  <1>2. \A pk, k : k \in {j \in {RowKey(schema.id, pk)} : Get(x, j) # NotFound}
                     => k \in DOMAIN x.snapshot /\ k.fixed = TablePrefix(schema.id).fixed
    BY RowKeyPrefix, GetReads, Zenon
  <1> QED
    BY <1>1, <1>2, Zenon DEF RowsToRead, RowsIn

\* Any of these rows are finitely many.
LEMMA SomeRows ==
    ASSUME NEW x, x.mutations = NoWrites, IsStore(x.snapshot),
           NEW schema, schema.id \in Nat, NEW where,
           NEW keys \in SUBSET RowsToRead(x, schema, where)
    PROVE  keys \subseteq DOMAIN x.snapshot /\ RowsIn(keys, schema.id) /\ IsFiniteSet(keys)
  <1>1. keys \subseteq DOMAIN x.snapshot /\ RowsIn(keys, schema.id)
    BY RowsAreRead, Zenon DEF RowsIn
  <1>2. IsFiniteSet(DOMAIN x.snapshot)
    BY Zenon DEF IsStore
  <1> QED
    BY <1>1, <1>2, FS_Subset, Zenon

\* The schema of a table that is there has an id.
LEMMA SchemaIsRead ==
    ASSUME NEW x, x.mutations = NoWrites, IsStore(x.snapshot), NEW t \in Table,
           Get(x, CatalogKey(t)) # NotFound
    PROVE  CatalogKey(t) \in DOMAIN x.snapshot /\ Get(x, CatalogKey(t)).id \in Nat
  BY GetReads, Zenon DEF IsStore

\* CREATE TABLE takes the next id and writes the one after it.
LEMMA CreateWrites ==
    ASSUME NEW x, x = [pc |-> "begun", st |-> x.st, snapshot |-> x.snapshot,
                       mutations |-> NoWrites, changed |-> x.changed],
           IsStore(x.snapshot), NEW st \in Statement, st.op = "create",
           CreateTable(x, st).status = "ok"
    PROVE  Outcome(x.snapshot, st, CreateTable(x, st))
  <1> DEFINE next == Get(x, NextTableIdKey)
             id == IF next = NotFound THEN 1 ELSE next.id
             schema == [kind |-> "schema", id |-> id, columns |-> st.columns]
             c == CatalogKey(st.table)
             y == Buffer(x, NextTableIdKey, [kind |-> "next", id |-> id + 1])
             z == Buffer(y, c, schema)
  <1>0. x.mutations = NoWrites
    OBVIOUS
  <1>1. id = NextId(x.snapshot) /\ id \in Nat
    BY <1>0, GetReads, Zenon DEF NextId, IsStore
  <1>2. CreateTable(x, st) = Done(z, {}, id) /\ Get(x, c) = NotFound
    BY Zenon DEF CreateTable, Invalid
  <1>3. c \notin DOMAIN x.snapshot
    BY <1>0, <1>2, GetReads, Zenon
  <1>4. y.mutations = [j \in {NextTableIdKey} |-> [kind |-> "next", id |-> id + 1]]
    BY DEF Buffer, NoWrites
  <1>5. y = [pc |-> "begun", st |-> x.st, snapshot |-> x.snapshot,
             mutations |-> y.mutations, changed |-> x.changed]
    BY DEF Buffer
  <1>6. z.mutations = [j \in {NextTableIdKey, c} |-> IF j = c THEN schema ELSE y.mutations[j]]
    <2> HIDE DEF y, schema, c
    <2>1. z.mutations = [j \in DOMAIN y.mutations \cup {c} |->
                            IF j = c THEN schema ELSE y.mutations[j]]
      BY <1>5, Zenon DEF Buffer
    <2> QED
      BY <1>4, <2>1, Zenon
  <1>7. c # NextTableIdKey
    BY KeysDiffer, Zenon
  <1>8. /\ schema # NotFound /\ schema.id = id
        /\ schema = [kind |-> "schema", id |-> id, columns |-> st.columns]
    BY Zenon DEF NotFound
  <1>9. Done(z, {}, id) = [status |-> "ok", mutations |-> z.mutations, rows |-> {}, id |-> id]
    BY Zenon DEF Done
  <1> HIDE DEF id, schema, c, y, z
  <1>10. CreateOutcome(x.snapshot, st, Done(z, {}, id))
    BY <1>1, <1>3, <1>4, <1>6, <1>7, <1>8, <1>9 DEF CreateOutcome, c
  <1> QED
    BY SMTT(30), <1>1, <1>2, <1>9, <1>10, FS_EmptySet DEF Outcome, RowsIn

\* DROP TABLE deletes rows of its table and the entry of the catalog.
LEMMA DropWrites ==
    ASSUME NEW x, x = [pc |-> "begun", st |-> x.st, snapshot |-> x.snapshot,
                       mutations |-> NoWrites, changed |-> x.changed],
           IsStore(x.snapshot), NEW st \in Statement, st.op = "drop",
           NEW schema, schema.id \in Nat, CatalogKey(st.table) \in DOMAIN x.snapshot,
           DropTable(x, schema, st).status = "ok"
    PROVE  Outcome(x.snapshot, st, DropTable(x, schema, st))
  <1> DEFINE keys == Fetched(x, schema, {})
             c == CatalogKey(st.table)
             y == Deleted(x, keys)
             z == Buffer(y, c, NotFound)
  <1>1. DropTable(x, schema, st) = Done(z, keys, schema.id)
    BY Zenon DEF DropTable, FetchRows, Invalid, Corruption
  <1>2. keys \subseteq DOMAIN x.snapshot /\ RowsIn(keys, schema.id) /\ IsFiniteSet(keys)
    <2>1. keys \in SUBSET RowsToRead(x, schema, {})
      BY Zenon DEF Fetched
    <2> QED
      BY <2>1, SomeRows, Zenon
  <1> HIDE DEF keys
  <1>3. y.mutations = [k \in keys |-> NotFound]
    BY DEF Deleted, NoWrites
  <1>4. y = [pc |-> "begun", st |-> x.st, snapshot |-> x.snapshot,
             mutations |-> y.mutations, changed |-> x.changed]
    BY DEF Deleted
  <1> HIDE DEF y, c
  <1>5. z.mutations = [j \in keys \cup {c} |-> IF j = c THEN NotFound ELSE y.mutations[j]]
    <2>1. z.mutations = [j \in DOMAIN y.mutations \cup {c} |->
                            IF j = c THEN NotFound ELSE y.mutations[j]]
      BY <1>4, Zenon DEF Buffer
    <2> QED
      BY <1>3, <2>1, Zenon
  <1>6. DropOutcome(x.snapshot, st.table, Done(z, keys, schema.id))
    BY <1>2, <1>3, <1>5, Zenon DEF DropOutcome, Done, c
  <1> QED
    BY <1>1, <1>2, <1>6 DEF Outcome, Done

\* DELETE deletes rows of its table.
LEMMA DeleteWrites ==
    ASSUME NEW x, x = [pc |-> "begun", st |-> x.st, snapshot |-> x.snapshot,
                       mutations |-> NoWrites, changed |-> x.changed],
           IsStore(x.snapshot), NEW st \in Statement, st.op = "delete",
           NEW schema, schema.id \in Nat, Delete(x, schema, st).status = "ok"
    PROVE  Outcome(x.snapshot, st, Delete(x, schema, st))
  <1> DEFINE keys == Fetched(x, schema, st.where)
  <1>1. Delete(x, schema, st) = Done(Deleted(x, keys), keys, schema.id)
    BY Zenon DEF Delete, FetchRows, Invalid, Corruption
  <1>2. keys \subseteq DOMAIN x.snapshot /\ RowsIn(keys, schema.id) /\ IsFiniteSet(keys)
    <2>1. keys \in SUBSET RowsToRead(x, schema, st.where)
      BY Zenon DEF Fetched
    <2> QED
      BY <2>1, SomeRows, Zenon
  <1> HIDE DEF keys
  <1>3. Deleted(x, keys).mutations = [k \in keys |-> NotFound]
    BY DEF Deleted, NoWrites
  <1>4. DeleteOutcome(x.snapshot, Done(Deleted(x, keys), keys, schema.id))
    BY <1>2, <1>3, Zenon DEF DeleteOutcome, Done
  <1> QED
    BY <1>1, <1>2, <1>4 DEF Outcome, Done

\* UPDATE writes rows that are there.
LEMMA UpdateWrites ==
    ASSUME NEW x, x = [pc |-> "begun", st |-> x.st, snapshot |-> x.snapshot,
                       mutations |-> NoWrites, changed |-> x.changed],
           IsStore(x.snapshot), NEW st \in Statement, st.op = "update",
           NEW schema, schema.id \in Nat, Update(x, schema, st).status = "ok"
    PROVE  Outcome(x.snapshot, st, Update(x, schema, st))
  <1> DEFINE keys == Fetched(x, schema, st.where)
             w == [k \in keys |-> [kind |-> "row", row |-> Assigned(schema, st.sets, Get(x, k).row)]]
             y == [x EXCEPT !.mutations = w]
  <1>0. Update(x, schema, st) = UpdateRows(x, schema, st)
    BY Zenon DEF Update, Invalid
  <1>1. UpdateRows(x, schema, st) = Done(y, keys, schema.id)
    BY <1>0 DEF UpdateRows, FetchRows, Invalid, Corruption
  <1>2. keys \subseteq DOMAIN x.snapshot /\ RowsIn(keys, schema.id) /\ IsFiniteSet(keys)
    <2>1. keys \in SUBSET RowsToRead(x, schema, st.where)
      BY Zenon DEF Fetched
    <2> QED
      BY <2>1, SomeRows, Zenon
  <1> HIDE DEF keys
  <1>3. \A k \in keys : w[k] # NotFound
    BY Zenon DEF NotFound
  <1>4. y.mutations = w /\ DOMAIN w = keys
    BY Zenon
  <1> HIDE DEF w, y
  <1>5. UpdateOutcome(x.snapshot, Done(y, keys, schema.id))
    BY <1>2, <1>3, <1>4, ZenonT(30) DEF UpdateOutcome, Done
  <1> QED
    BY SMTT(30), <1>0, <1>1, <1>2, <1>5 DEF Outcome, Done

\* SELECT writes nothing.
LEMMA SelectWrites ==
    ASSUME NEW x, x = [pc |-> "begun", st |-> x.st, snapshot |-> x.snapshot,
                       mutations |-> NoWrites, changed |-> x.changed],
           IsStore(x.snapshot), NEW st \in Statement, st.op = "select",
           NEW schema, schema.id \in Nat, Select(x, schema, st).status = "ok"
    PROVE  Outcome(x.snapshot, st, Select(x, schema, st))
  <1> DEFINE keys == Fetched(x, schema, st.where)
  <1>1. Select(x, schema, st) = Done(x, keys, schema.id)
    BY Zenon DEF Select, FetchRows, Invalid, Corruption
  <1>2. RowsIn(keys, schema.id) /\ IsFiniteSet(keys)
    <2>1. keys \in SUBSET RowsToRead(x, schema, st.where)
      BY Zenon DEF Fetched
    <2> QED
      BY <2>1, SomeRows, Zenon
  <1> HIDE DEF keys
  <1>3. SelectOutcome(Done(x, keys, schema.id))
    BY DEF SelectOutcome, Done, NoWrites
  <1> QED
    BY SMTT(30), <1>1, <1>2, <1>3 DEF Outcome, Done

\* INSERT writes rows that are not there.
LEMMA InsertWrites ==
    ASSUME NEW x, x = [pc |-> "begun", st |-> x.st, snapshot |-> x.snapshot,
                       mutations |-> NoWrites, changed |-> x.changed],
           IsStore(x.snapshot), NEW st \in Statement, st.op = "insert",
           NEW schema, schema.id \in Nat, Insert(x, schema, st).status = "ok"
    PROVE  Outcome(x.snapshot, st, Insert(x, schema, st))
  <1> DEFINE row == [r \in DOMAIN st.rows |-> RowOf(schema, st.columns, st.rows[r])]
             key == [r \in DOMAIN st.rows |-> RowKey(schema.id, row[r][PkIndex(schema.columns)])]
             w == [k \in Range(key) |-> [kind |-> "row", row |-> row[CHOOSE r \in DOMAIN key : key[r] = k]]]
             y == [x EXCEPT !.mutations = w]
  <1>1. /\ Insert(x, schema, st) = Done(y, Range(key), schema.id)
        /\ \A r \in DOMAIN key : Get(x, key[r]) = NotFound
    BY Zenon DEF Insert, Invalid
  <1>2. IsFiniteSet(DOMAIN st.rows)
    BY StatementAssumption, Zenon
  <1>3. \A r \in DOMAIN key : key[r].fixed = TablePrefix(schema.id).fixed
    BY RowKeyPrefix, Zenon
  <1>4. DOMAIN key = DOMAIN st.rows /\ key \in [DOMAIN st.rows -> Range(key)]
    BY Zenon DEF Range
  <1>5. y.mutations = w /\ DOMAIN w = Range(key)
    BY Zenon
  <1>6. \A k \in Range(key) : w[k] # NotFound
    BY Zenon DEF NotFound
  <1> HIDE DEF key, w, y
  <1>7. IsFiniteSet(Range(key))
    <2>1. key \in Surjection(DOMAIN st.rows, Range(key))
      BY <1>4, Zenon DEF Surjection, Range
    <2> QED
      BY <1>2, <2>1, FS_Surjection, Zenon
  <1>8. RowsIn(Range(key), schema.id)
    BY <1>3, Zenon DEF RowsIn, Range
  <1>9. Range(key) \cap DOMAIN x.snapshot = {}
    BY <1>1, GetReads DEF Range
  <1>10. InsertOutcome(x.snapshot, Done(y, Range(key), schema.id))
    BY <1>5, <1>6, <1>9, Zenon DEF InsertOutcome, Done
  <1> QED
    BY SMTT(30), <1>1, <1>7, <1>8, <1>10 DEF Outcome, Done

\* Every statement (Executor::Run).
LEMMA StatementWrites ==
    ASSUME NEW x, BegunSession(x), Execute(x, x.st).status = "ok"
    PROVE  Outcome(x.snapshot, x.st, Execute(x, x.st))
  <1> DEFINE schema == Get(x, CatalogKey(x.st.table))
  <1>1. /\ x = [pc |-> "begun", st |-> x.st, snapshot |-> x.snapshot,
                 mutations |-> NoWrites, changed |-> x.changed]
        /\ x.st \in Statement /\ IsStore(x.snapshot)
    BY Zenon DEF BegunSession
  <1>2. x.st.op \in {"create", "drop", "insert", "select", "update", "delete"} /\ x.st.table \in Table
    BY <1>1, StatementAssumption, Zenon
  <1>3. CASE x.st.op = "create"
    <2>1. Execute(x, x.st) = CreateTable(x, x.st)
      BY <1>3, Zenon DEF Execute
    <2> QED
      BY <1>1, <1>3, <2>1, CreateWrites, Zenon
  <1>4. CASE x.st.op # "create"
    <2>1. schema # NotFound
      BY <1>4, Zenon DEF Execute, Invalid
    <2>2. CatalogKey(x.st.table) \in DOMAIN x.snapshot /\ schema.id \in Nat
      <3>1. x.mutations = NoWrites
        BY <1>1
      <3> QED
        BY <1>1, <1>2, <2>1, <3>1, SchemaIsRead, Zenon
    <2> HIDE DEF schema
    <2>3. CASE x.st.op = "drop"
      <3>1. Execute(x, x.st) = DropTable(x, schema, x.st)
        BY <2>1, <2>3, Zenon DEF Execute, schema
      <3> QED
        BY <1>1, <2>2, <2>3, <3>1, DropWrites, Zenon
    <2>4. CASE x.st.op = "insert"
      <3>1. Execute(x, x.st) = Insert(x, schema, x.st)
        BY <2>1, <2>4, Zenon DEF Execute, schema
      <3> QED
        BY <1>1, <2>2, <2>4, <3>1, InsertWrites, Zenon
    <2>5. CASE x.st.op = "select"
      <3>1. Execute(x, x.st) = Select(x, schema, x.st)
        BY <2>1, <2>5, Zenon DEF Execute, schema
      <3> QED
        BY <1>1, <2>2, <2>5, <3>1, SelectWrites, Zenon
    <2>6. CASE x.st.op = "update"
      <3>1. Execute(x, x.st) = Update(x, schema, x.st)
        BY <2>1, <2>6, Zenon DEF Execute, schema
      <3> QED
        BY <1>1, <2>2, <2>6, <3>1, UpdateWrites, Zenon
    <2>7. CASE x.st.op = "delete"
      <3>1. Execute(x, x.st) = Delete(x, schema, x.st)
        BY <2>1, <2>7, Zenon DEF Execute, schema
      <3> QED
        BY <1>1, <2>2, <2>7, <3>1, DeleteWrites, Zenon
    <2> QED
      BY <1>2, <1>4, <2>3, <2>4, <2>5, <2>6, <2>7, Zenon
  <1> QED
    BY <1>3, <1>4, Zenon

-----------------------------------------------------------------------------
(* Steps. *)

\* The initial state satisfies the invariant.
LEMMA InitInv == Init => SqlInv
  <1> SUFFICES ASSUME Init PROVE SqlInv
    BY Zenon
  <1>1. DOMAIN store = {}
    BY DEF Init
  <1>2. IsStore(store)
    BY <1>1, FS_EmptySet, Zenon DEF IsStore
  <1>3. LedgerOK /\ TablesAddUp /\ IdsAreNeverReused /\ Unused
    BY <1>1 DEF Init, LedgerOK, TablesAddUp, IdsAreNeverReused, Unused
  <1>4. RowsAddUp
    <2>1. \A id : RowKeys(id) = {}
      BY <1>1, Zenon DEF RowKeys
    <2> QED
      BY <2>1, FS_EmptySet, Zenon DEF Init, RowsAddUp
  <1>5. session = [s \in Session |-> session[s]] /\ \A s \in Session : SessionOK(session[s])
    BY Zenon DEF Init, Idle, SessionOK
  <1> QED
    BY <1>2, <1>3, <1>4, <1>5, Zenon DEF SqlInv

\* A step that leaves the store and the ledger alone needs to keep sessions in order.
LEMMA SessionStep ==
    ASSUME SqlInv, UNCHANGED <<store, ledger>>, NEW s \in Session, NEW y,
           session' = [session EXCEPT ![s] = y], SessionOK(y)
    PROVE  SqlInv'
  <1>1. session' = [u \in Session |-> session'[u]]
    BY Zenon DEF SqlInv
  <1>2. \A u \in Session : session'[u] = IF u = s THEN y ELSE session[u]
    BY Zenon DEF SqlInv
  <1>3. \A u \in Session : SessionOK(session[u])'
    <2> TAKE u \in Session
    <2>1. SessionOK(session'[u])
      BY <1>2, Zenon DEF SqlInv
    <2> QED
      BY <2>1, Zenon DEF SessionOK, BegunSession, ExecutedSession, UpToDate
  <1>4. (LedgerOK /\ IsStore(store) /\ Unused /\ IdsAreNeverReused /\ TablesAddUp /\ RowsAddUp)'
    BY Zenon
       DEF SqlInv, LedgerOK, IsStore, Unused, IdsAreNeverReused, TablesAddUp, RowsAddUp, RowKeys
  <1> QED
    BY <1>1, <1>3, <1>4, Zenon DEF SqlInv

\* Begin: a new snapshot is the store.
LEMMA BeginInv ==
    ASSUME SqlInv, NEW s \in Session, NEW st \in Statement, Begin(s, st)
    PROVE  SqlInv'
  <1> DEFINE y == [pc |-> "begun", st |-> st, snapshot |-> store, mutations |-> NoWrites, changed |-> {}]
  <1>1. BegunSession(y)
    BY Zenon DEF BegunSession, UpToDate, SqlInv
  <1>2. SessionOK(y)
    BY <1>1, Zenon DEF SessionOK
  <1> QED
    BY <1>2, SessionStep, Zenon DEF Begin

\* The executor, on the snapshot.
LEMMA RunInv ==
    ASSUME SqlInv, NEW s \in Session, Run(s)
    PROVE  SqlInv'
  <1> DEFINE x == session[s]
             r == Execute(x, x.st)
             y == IF r.status = "ok"
                  THEN [pc |-> "executed", st |-> x.st, snapshot |-> x.snapshot,
                        changed |-> x.changed, result |-> r]
                  ELSE [pc |-> "idle", status |-> r.status]
  <1>1. BegunSession(x)
    BY DEF SqlInv, SessionOK, ExecutedSession, Run
  <1>2. session' = [session EXCEPT ![s] = y] /\ UNCHANGED <<store, ledger>>
    BY Zenon DEF Run
  <1>3. SessionOK(y)
    <2>1. CASE r.status = "ok"
      <3>1. Outcome(x.snapshot, x.st, r)
        BY <1>1, <2>1, StatementWrites, Zenon
      <3>2. x.st \in Statement /\ IsStore(x.snapshot) /\ UpToDate(x)
        BY <1>1, Zenon DEF BegunSession
      <3> HIDE DEF r, x
      <3>3. ExecutedSession(y)
        BY <2>1, <3>1, <3>2, Zenon DEF ExecutedSession, UpToDate
      <3> QED
        BY <3>3, Zenon DEF SessionOK
    <2>2. CASE r.status # "ok"
      BY <2>2, Zenon DEF SessionOK
    <2> QED
      BY <2>1, <2>2, Zenon
  <1> QED
    BY <1>2, <1>3, SessionStep, Zenon

\* A statement that ends without a trace.
LEMMA AbortInv ==
    ASSUME SqlInv, NEW s \in Session, Abort(s)
    PROVE  SqlInv'
  <1>1. SessionOK([Idle EXCEPT !.status = "aborted"])
    BY Zenon DEF SessionOK, Idle
  <1> QED
    BY <1>1, SessionStep, Zenon DEF Abort

\* Which keys a statement writes.
LEMMA WrittenKeys ==
    ASSUME NEW snapshot, NEW st \in Statement, NEW r, Outcome(snapshot, st, r)
    PROVE  LET w == DOMAIN r.mutations IN
           /\ IsFiniteSet(w)
           /\ \A k \in w : IsKey(k)
           /\ NextTableIdKey \in w <=> st.op = "create"
           /\ \A t \in Table : CatalogKey(t) \in w <=> st.op \in {"create", "drop"} /\ t = st.table
           /\ \A id, k : k \in w /\ k.fixed = TablePrefix(id).fixed => id = r.id /\ k \in r.rows
  <1> DEFINE w == DOMAIN r.mutations
             c == CatalogKey(st.table)
  <1>1. st.op \in {"create", "drop", "insert", "select", "update", "delete"} /\ st.table \in Table
    BY StatementAssumption, Zenon
  <1>2. \/ st.op = "create" /\ w = {NextTableIdKey, c}
        \/ st.op = "drop" /\ w = r.rows \cup {c}
        \/ st.op \in {"insert", "update", "delete"} /\ w = r.rows
        \/ st.op = "select" /\ w = {}
    BY <1>1, Zenon
       DEF Outcome, CreateOutcome, DropOutcome, InsertOutcome, UpdateOutcome, DeleteOutcome,
           SelectOutcome
  <1>3. /\ IsFiniteSet(r.rows) /\ r.id \in Nat
        /\ \A k \in r.rows : k.fixed = TablePrefix(r.id).fixed
    BY Zenon DEF Outcome, RowsIn
  <1>4. IsFiniteSet({}) /\ IsFiniteSet({c}) /\ IsFiniteSet({NextTableIdKey, c})
    <2>1. IsFiniteSet({} \cup {c})
      BY FS_EmptySet, FS_AddElement, Zenon
    <2>2. IsFiniteSet({c})
      <3>1. {} \cup {c} = {c}
        BY Zenon
      <3> QED
        BY <2>1, <3>1, Zenon
    <2>3. IsFiniteSet({c} \cup {NextTableIdKey})
      BY <2>2, FS_AddElement, Zenon
    <2>4. {c} \cup {NextTableIdKey} = {NextTableIdKey, c}
      BY Zenon
    <2> QED
      BY <2>2, <2>3, <2>4, FS_EmptySet, Zenon
  <1>5. IsFiniteSet(w)
    <2>1. IsFiniteSet(r.rows \cup {c})
      BY <1>3, FS_AddElement, Zenon
    <2> HIDE DEF w, c
    <2> QED
      BY <1>2, <1>3, <1>4, <2>1, Zenon
  <1>6. IsKey(NextTableIdKey) /\ IsKey(c)
    BY <1>1, Zenon DEF IsKey
  <1>7. \A k \in r.rows : IsKey(k)
    <2>1. TablePrefix(r.id).fixed[2] = r.id
      BY Zenon DEF TablePrefix
    <2> QED
      BY <1>3, <2>1 DEF IsKey
  <1> HIDE DEF w
  <1>8. \A k \in w : IsKey(k)
    BY <1>2, <1>6, <1>7, Zenon
  <1>9. NextTableIdKey \notin r.rows /\ \A t : CatalogKey(t) \notin r.rows
    BY <1>3, KeysDiffer, Zenon
  <1>10. NextTableIdKey \in w <=> st.op = "create"
    BY <1>2, <1>9, KeysDiffer, Zenon
  <1>11. \A t \in Table : CatalogKey(t) \in w <=> st.op \in {"create", "drop"} /\ t = st.table
    BY <1>2, <1>9, KeysDiffer
  <1>12. \A id, k : k \in w /\ k.fixed = TablePrefix(id).fixed => id = r.id /\ k \in r.rows
    BY SMTT(60), <1>2, <1>3, KeysDiffer
  <1> QED
    BY <1>5, <1>8, <1>10, <1>11, <1>12, Zenon DEF w

\* A commit without a conflict finds the keys that it writes as its statement did,
\* and leaves the others alone (Txn::Commit).
LEMMA CommitStore ==
    ASSUME SqlInv, NEW s \in Session, Commit(s)
    PROVE  LET x == session[s]
               w == x.result.mutations
           IN  /\ ExecutedSession(x)
               /\ \A k \in DOMAIN w : k \in DOMAIN store <=> k \in DOMAIN x.snapshot
               /\ \A k \in DOMAIN w : k \in DOMAIN store => x.snapshot[k] = store[k]
               /\ \A k : k \in DOMAIN store' <=>
                            IF k \in DOMAIN w THEN w[k] # NotFound ELSE k \in DOMAIN store
               /\ \A k \in DOMAIN store' : store'[k] = IF k \in DOMAIN w THEN w[k] ELSE store[k]
  <1> DEFINE x == session[s]
             w == x.result.mutations
  <1>1. ExecutedSession(x)
    BY DEF SqlInv, SessionOK, BegunSession, Commit, CommitWrites
  <1>2. DOMAIN w \cap x.changed = {}
    BY Zenon DEF Commit, Writes
  <1>3. UpToDate(x)
    BY <1>1, Zenon DEF ExecutedSession
  <1>4. store' = After(store, w)
    BY Zenon DEF Commit, CommitWrites
  <1> HIDE DEF x, w
  <1>5. \A k \in DOMAIN w : /\ k \in DOMAIN store <=> k \in DOMAIN x.snapshot
                            /\ k \in DOMAIN store => x.snapshot[k] = store[k]
    BY <1>2, <1>3, Zenon DEF UpToDate
  <1>6. /\ \A k : k \in DOMAIN store' <=>
                    IF k \in DOMAIN w THEN w[k] # NotFound ELSE k \in DOMAIN store
        /\ \A k \in DOMAIN store' : store'[k] = IF k \in DOMAIN w THEN w[k] ELSE store[k]
    BY <1>4, Zenon DEF After
  <1> QED
    BY <1>1, <1>5, <1>6, Zenon DEF x, w

\* A commit leaves the snapshots of others as they were, but for what it writes.
LEMMA CommitSessions ==
    ASSUME SqlInv, NEW s \in Session, Commit(s), NEW u \in Session
    PROVE  SessionOK(session[u])'
  <1> DEFINE w == session[s].result.mutations
             x == session[u]
  <1>1. session'[u] = IF u = s THEN Idle
                      ELSE IF InTransaction(u) THEN [x EXCEPT !.changed = @ \cup DOMAIN w]
                      ELSE x
    BY Zenon DEF Commit, CommitWrites, Writes
  <1>2. /\ \A k : k \in DOMAIN store' <=>
                    IF k \in DOMAIN w THEN w[k] # NotFound ELSE k \in DOMAIN store
        /\ \A k \in DOMAIN store' : store'[k] = IF k \in DOMAIN w THEN w[k] ELSE store[k]
    BY CommitStore, Zenon
  <1>3. SessionOK(x)
    BY Zenon DEF SqlInv
  <1>4. CASE u = s \/ ~InTransaction(u)
    BY <1>1, <1>3, <1>4 DEF SessionOK, Idle, InTransaction, BegunSession, ExecutedSession
  <1>5. CASE u # s /\ x.pc = "begun"
    <2> HIDE DEF x
    <2>1. BegunSession(x)
      BY <1>3, <1>5 DEF SessionOK, ExecutedSession
    <2>2. session'[u] = [pc |-> "begun", st |-> x.st, snapshot |-> x.snapshot,
                         mutations |-> NoWrites, changed |-> x.changed \cup DOMAIN w]
      BY <1>1, <1>5, <2>1 DEF InTransaction, BegunSession, x
    <2> HIDE DEF w
    <2>3. UpToDate(session[u])'
      BY <1>2, <2>1, <2>2 DEF BegunSession, UpToDate
    <2>4. BegunSession(session[u])'
      BY <2>1, <2>2, <2>3 DEF BegunSession
    <2> QED
      BY <2>4, Zenon DEF SessionOK
  <1>6. CASE u # s /\ x.pc = "executed"
    <2> HIDE DEF x
    <2>1. ExecutedSession(x)
      BY <1>3, <1>6 DEF SessionOK, BegunSession
    <2>2. session'[u] = [pc |-> "executed", st |-> x.st, snapshot |-> x.snapshot,
                         changed |-> x.changed \cup DOMAIN w, result |-> x.result]
      BY <1>1, <1>6, <2>1, Zenon DEF InTransaction, ExecutedSession, x
    <2> HIDE DEF w
    <2>3. UpToDate(session[u])'
      BY <1>2, <2>1, <2>2 DEF ExecutedSession, UpToDate
    <2>4. ExecutedSession(session[u])'
      BY <2>1, <2>2, <2>3 DEF ExecutedSession
    <2> QED
      BY <2>4, Zenon DEF SessionOK
  <1> QED
    BY <1>4, <1>5, <1>6, Zenon DEF InTransaction

\* A commit leaves a store.
LEMMA CommitIsStore ==
    ASSUME SqlInv, NEW s \in Session, Commit(s)
    PROVE  IsStore(store)'
  <1> DEFINE x == session[s]
             r == x.result
             w == r.mutations
  <1>1. /\ \A k : k \in DOMAIN store' <=>
                    IF k \in DOMAIN w THEN w[k] # NotFound ELSE k \in DOMAIN store
        /\ \A k \in DOMAIN store' : store'[k] = IF k \in DOMAIN w THEN w[k] ELSE store[k]
    BY CommitStore, Zenon
  <1>2. Outcome(x.snapshot, x.st, r) /\ x.st \in Statement
    BY CommitStore, Zenon DEF ExecutedSession
  <1>3. IsStore(store)
    BY Zenon DEF SqlInv
  <1> HIDE DEF x, r
  <1>4. /\ IsFiniteSet(DOMAIN w)
        /\ \A k \in DOMAIN w : IsKey(k)
        /\ NextTableIdKey \in DOMAIN w <=> x.st.op = "create"
        /\ \A t \in Table : CatalogKey(t) \in DOMAIN w <=> x.st.op \in {"create", "drop"} /\ t = x.st.table
    BY <1>2, WrittenKeys, Zenon
  <1> HIDE DEF w
  <1>5. IsFiniteSet(DOMAIN store')
    <2>1. IsFiniteSet(DOMAIN store \cup DOMAIN w)
      BY <1>3, <1>4, FS_Union, Zenon DEF IsStore
    <2>2. DOMAIN store' \in SUBSET (DOMAIN store \cup DOMAIN w)
      BY <1>1, Zenon
    <2> QED
      BY <2>1, <2>2, FS_Subset, Zenon
  <1>6. \A k \in DOMAIN store' : IsKey(k) /\ store'[k] # NotFound
    BY <1>1, <1>3, <1>4, ZenonT(30) DEF IsStore
  <1>7. x.st.op = "create" => /\ w[NextTableIdKey].id \in Nat /\ w[NextTableIdKey].id # 0
                              /\ w[CatalogKey(x.st.table)].id \in Nat
    BY SMTT(60), <1>2 DEF Outcome, CreateOutcome, w
  <1>8. x.st.op = "drop" => w[CatalogKey(x.st.table)] = NotFound
    BY <1>2, Zenon DEF Outcome, DropOutcome, w
  <1>9. NextTableIdKey \in DOMAIN store' =>
            store'[NextTableIdKey].id \in Nat /\ store'[NextTableIdKey].id # 0
    BY <1>1, <1>3, <1>4, <1>7, Zenon DEF IsStore
  <1>10. \A t \in Table : CatalogKey(t) \in DOMAIN store' => store'[CatalogKey(t)].id \in Nat
    BY <1>1, <1>3, <1>4, <1>7, <1>8, Zenon DEF IsStore
  <1> QED
    BY <1>5, <1>6, <1>9, <1>10, Zenon DEF IsStore

\* An entry of the ledger goes up or down.
LEMMA Counted ==
    ASSUME NEW S, NEW f \in [S -> Int], NEW a, NEW n \in Int
    PROVE  [f EXCEPT ![a] = @ + n] \in [S -> Int] /\ [f EXCEPT ![a] = @ - n] \in [S -> Int]
  <1>1. \A x \in S : [f EXCEPT ![a] = @ + n][x] \in Int /\ [f EXCEPT ![a] = @ - n][x] \in Int
    <2> TAKE x \in S
    <2>1. f[x] \in Int
      BY Zenon
    <2>2. CASE x = a
      BY <2>1, <2>2
    <2>3. CASE x # a
      BY <2>1, <2>3, Zenon
    <2> QED
      BY <2>2, <2>3, Zenon
  <1>2. DOMAIN f = S
    BY Zenon
  <1> QED
    BY <1>1, <1>2, Zenon

\* A commit counts a table id that nobody has had, and a name that was free or taken.
LEMMA CommitTables ==
    ASSUME SqlInv, NEW s \in Session, Commit(s)
    PROVE  LedgerOK' /\ Unused' /\ IdsAreNeverReused' /\ TablesAddUp'
  <1> DEFINE x == session[s]
             st == x.st
             r == x.result
             w == r.mutations
  <1>1. /\ \A k \in DOMAIN w : k \in DOMAIN store <=> k \in DOMAIN x.snapshot
        /\ \A k \in DOMAIN w : k \in DOMAIN store => x.snapshot[k] = store[k]
        /\ \A k : k \in DOMAIN store' <=>
                    IF k \in DOMAIN w THEN w[k] # NotFound ELSE k \in DOMAIN store
        /\ \A k \in DOMAIN store' : store'[k] = IF k \in DOMAIN w THEN w[k] ELSE store[k]
    BY CommitStore, Zenon
  <1>2. Outcome(x.snapshot, st, r) /\ st \in Statement
    BY CommitStore, Zenon DEF ExecutedSession
  <1>3. ledger' = Noted(st, r)
    BY Zenon DEF Commit, CommitWrites
  <1>4. /\ LedgerOK /\ Unused /\ IdsAreNeverReused /\ TablesAddUp /\ IsStore(store)
    BY Zenon DEF SqlInv
  <1> HIDE DEF x, st, r
  <1>5. st.op \in {"create", "drop", "insert", "select", "update", "delete"} /\ st.table \in Table
    BY <1>2, StatementAssumption, Zenon
  <1>6. /\ NextTableIdKey \in DOMAIN w <=> st.op = "create"
        /\ \A t \in Table : CatalogKey(t) \in DOMAIN w <=> st.op \in {"create", "drop"} /\ t = st.table
    BY <1>2, WrittenKeys, Zenon
  <1>7. r.id \in Nat /\ Cardinality(r.rows) \in Nat
    BY <1>2, FS_CardinalityType, Zenon DEF Outcome
  <1>8. CASE st.op = "create"
    <2>1. ledger' = [ledger EXCEPT !.tables[st.table] = @ + 1, !.created[r.id] = @ + 1]
      BY <1>3, <1>8, Zenon DEF Noted
    <2>2. /\ r.id = NextId(x.snapshot) /\ CatalogKey(st.table) \notin DOMAIN x.snapshot
          /\ w[NextTableIdKey] = [kind |-> "next", id |-> r.id + 1]
          /\ w[CatalogKey(st.table)] # NotFound
      BY <1>2, <1>8, Zenon DEF Outcome, CreateOutcome, w
    <2>3. r.id = NextId(store)
      BY <1>1, <1>6, <1>8, <2>2, Zenon DEF NextId
    <2>4. NextId(store') = r.id + 1
      <3>1. NextTableIdKey \in DOMAIN store' /\ store'[NextTableIdKey] = w[NextTableIdKey]
        BY SMTT(30), <1>1, <1>6, <1>8, <2>2 DEF NotFound
      <3> QED
        BY <2>2, <3>1 DEF NextId
    <2>5. /\ ledger'.tables = [ledger.tables EXCEPT ![st.table] = @ + 1]
          /\ ledger'.created = [ledger.created EXCEPT ![r.id] = @ + 1]
          /\ ledger'.rows = ledger.rows
          /\ ledger' = [tables |-> ledger'.tables, created |-> ledger'.created, rows |-> ledger'.rows]
      BY <1>4, <2>1, Zenon DEF LedgerOK
    <2>6. LedgerOK'
      <3>1. ledger.tables \in [Table -> Int] /\ ledger.created \in [Id -> Int] /\ ledger.rows \in [Id -> Int]
        BY <1>4, Zenon DEF LedgerOK
      <3>2. 1 \in Int
        OBVIOUS
      <3>3. [ledger.tables EXCEPT ![st.table] = @ + 1] \in [Table -> Int]
        BY <3>1, <3>2, Counted, Zenon
      <3>4. [ledger.created EXCEPT ![r.id] = @ + 1] \in [Id -> Int]
        BY <3>1, <3>2, Counted, Zenon
      <3> QED
        BY <2>5, <3>1, <3>3, <3>4, Zenon DEF LedgerOK
    <2>7. Unused' /\ IdsAreNeverReused'
      BY SMTT(60), <1>4, <1>7, <2>3, <2>4, <2>5 DEF LedgerOK, Unused, IdsAreNeverReused, Id
    <2>8. \A t \in Table : CatalogKey(t) \in DOMAIN store' <=>
                              CatalogKey(t) \in DOMAIN store \/ t = st.table
      BY <1>1, <1>6, <1>8, <2>2, Zenon
    <2>9. CatalogKey(st.table) \notin DOMAIN store
      BY <1>1, <1>5, <1>6, <1>8, <2>2, Zenon
    <2>10. TablesAddUp'
      BY SMTT(30), <1>4, <1>5, <2>5, <2>8, <2>9 DEF LedgerOK, TablesAddUp
    <2> QED
      BY <2>6, <2>7, <2>10, Zenon
  <1>9. CASE st.op = "drop"
    <2>1. ledger' = [ledger EXCEPT !.tables[st.table] = @ - 1, !.rows[r.id] = @ - Cardinality(r.rows)]
      BY <1>3, <1>9, Zenon DEF Noted
    <2>2. CatalogKey(st.table) \in DOMAIN x.snapshot /\ w[CatalogKey(st.table)] = NotFound
      BY <1>2, <1>9, Zenon DEF Outcome, DropOutcome, w
    <2>3. NextId(store') = NextId(store)
      BY <1>1, <1>6, <1>9, Zenon DEF NextId
    <2>4. /\ ledger'.tables = [ledger.tables EXCEPT ![st.table] = @ - 1]
          /\ ledger'.created = ledger.created
          /\ ledger'.rows = [ledger.rows EXCEPT ![r.id] = @ - Cardinality(r.rows)]
          /\ ledger' = [tables |-> ledger'.tables, created |-> ledger'.created, rows |-> ledger'.rows]
      BY <1>4, <2>1, Zenon DEF LedgerOK
    <2>5. LedgerOK'
      <3>1. ledger.tables \in [Table -> Int] /\ ledger.created \in [Id -> Int] /\ ledger.rows \in [Id -> Int]
        BY <1>4, Zenon DEF LedgerOK
      <3>2. 1 \in Int /\ Cardinality(r.rows) \in Int
        BY <1>7
      <3>3. [ledger.tables EXCEPT ![st.table] = @ - 1] \in [Table -> Int]
        BY <3>1, <3>2, Counted, Zenon
      <3>4. [ledger.rows EXCEPT ![r.id] = @ - Cardinality(r.rows)] \in [Id -> Int]
        BY <3>1, <3>2, Counted, Zenon
      <3> QED
        BY <2>4, <3>1, <3>3, <3>4, Zenon DEF LedgerOK
    <2>6. Unused' /\ IdsAreNeverReused'
      BY <1>4, <2>3, <2>4, Zenon DEF Unused, IdsAreNeverReused
    <2>7. \A t \in Table : CatalogKey(t) \in DOMAIN store' <=>
                              CatalogKey(t) \in DOMAIN store /\ t # st.table
      BY <1>1, <1>6, <1>9, <2>2, Zenon
    <2>8. CatalogKey(st.table) \in DOMAIN store
      BY <1>1, <1>5, <1>6, <1>9, <2>2, Zenon
    <2>9. TablesAddUp'
      BY SMTT(30), <1>4, <1>5, <2>4, <2>7, <2>8 DEF LedgerOK, TablesAddUp
    <2> QED
      BY <2>5, <2>6, <2>9, Zenon
  <1>10. CASE st.op \notin {"create", "drop"}
    <2>1. /\ ledger'.tables = ledger.tables /\ ledger'.created = ledger.created
          /\ ledger'.rows \in [Id -> Int]
          /\ ledger' = [tables |-> ledger'.tables, created |-> ledger'.created, rows |-> ledger'.rows]
      <3>1. \/ ledger' = [ledger EXCEPT !.rows[r.id] = @ + Cardinality(r.rows)]
            \/ ledger' = [ledger EXCEPT !.rows[r.id] = @ - Cardinality(r.rows)]
            \/ ledger' = ledger
        BY <1>3, <1>5, <1>10, Zenon DEF Noted
      <3> QED
        BY <1>4, <1>7, <3>1 DEF LedgerOK
    <2>2. NextId(store') = NextId(store)
      BY <1>1, <1>6, <1>10, Zenon DEF NextId
    <2>3. LedgerOK'
      BY <1>4, <2>1, Zenon DEF LedgerOK
    <2>4. Unused' /\ IdsAreNeverReused'
      BY <1>4, <2>1, <2>2, Zenon DEF Unused, IdsAreNeverReused
    <2>5. TablesAddUp'
      BY <1>1, <1>4, <1>6, <1>10, <2>1, Zenon DEF TablesAddUp
    <2> QED
      BY <2>3, <2>4, <2>5, Zenon
  <1> QED
    BY <1>8, <1>9, <1>10, Zenon

\* Disjoint finite sets add up.
LEMMA DisjointUnion ==
    ASSUME NEW S, NEW T, IsFiniteSet(S), IsFiniteSet(T), S \cap T = {}
    PROVE  Cardinality(S \cup T) = Cardinality(S) + Cardinality(T)
  <1>1. Cardinality(S \cup T) = Cardinality(S) + Cardinality(T) - Cardinality(S \cap T)
    BY FS_Union, Zenon
  <1>2. Cardinality(S \cap T) = 0
    BY FS_EmptySet, Zenon
  <1>3. Cardinality(S) \in Nat /\ Cardinality(T) \in Nat
    BY FS_CardinalityType, Zenon
  <1> QED
    BY <1>1, <1>2, <1>3

\* A commit counts the rows that it adds or removes.
LEMMA CommitRows ==
    ASSUME SqlInv, NEW s \in Session, Commit(s)
    PROVE  RowsAddUp'
  <1> DEFINE x == session[s]
             st == x.st
             r == x.result
             w == r.mutations
  <1>1. /\ \A k \in DOMAIN w : k \in DOMAIN store <=> k \in DOMAIN x.snapshot
        /\ \A k : k \in DOMAIN store' <=>
                    IF k \in DOMAIN w THEN w[k] # NotFound ELSE k \in DOMAIN store
    BY CommitStore, Zenon
  <1>2. Outcome(x.snapshot, st, r) /\ st \in Statement
    BY CommitStore, Zenon DEF ExecutedSession
  <1>3. ledger' = Noted(st, r)
    BY Zenon DEF Commit, CommitWrites
  <1>4. LedgerOK /\ RowsAddUp /\ IsStore(store)
    BY Zenon DEF SqlInv
  <1> HIDE DEF x, st, r
  <1>5. st.op \in {"create", "drop", "insert", "select", "update", "delete"}
    BY <1>2, StatementAssumption, Zenon
  <1>6. \A id, k : k \in DOMAIN w /\ k.fixed = TablePrefix(id).fixed => id = r.id /\ k \in r.rows
    BY <1>2, WrittenKeys, Zenon
  <1>7. /\ IsFiniteSet(r.rows) /\ Cardinality(r.rows) \in Nat
        /\ \A k \in r.rows : k.fixed = TablePrefix(r.id).fixed
    BY <1>2, FS_CardinalityType, Zenon DEF Outcome, RowsIn
  <1> SUFFICES ASSUME NEW id \in Id
               PROVE  ledger'.rows[id] = Cardinality(RowKeys(id)')
    BY Zenon DEF RowsAddUp
  <1>8. ledger.rows[id] = Cardinality(RowKeys(id)) /\ ledger.rows \in [Id -> Int]
    BY <1>4, Zenon DEF RowsAddUp, LedgerOK
  <1>9. IsFiniteSet(RowKeys(id)) /\ IsFiniteSet(RowKeys(id)')
    <2>1. IsFiniteSet(DOMAIN store) /\ IsFiniteSet(DOMAIN store')
      BY <1>4, CommitIsStore, Zenon DEF IsStore
    <2>2. RowKeys(id) \in SUBSET DOMAIN store /\ RowKeys(id)' \in SUBSET DOMAIN store'
      BY Zenon DEF RowKeys
    <2> QED
      BY <2>1, <2>2, FS_Subset, Zenon
  <1>10. Cardinality(RowKeys(id)) \in Nat /\ Cardinality(RowKeys(id)') \in Nat
    BY <1>9, FS_CardinalityType, Zenon
  <1>11. \A k : /\ k \in RowKeys(id) <=> k \in DOMAIN store /\ k.fixed = TablePrefix(id).fixed
                /\ k \in RowKeys(id)' <=> k \in DOMAIN store' /\ k.fixed = TablePrefix(id).fixed
    BY Zenon DEF RowKeys
  <1>12. CASE id # r.id \/ st.op \in {"create", "select", "update"}
    <2>1. ledger'.rows[id] = ledger.rows[id]
      <3>1. \/ ledger' = [ledger EXCEPT !.tables[st.table] = @ + 1, !.created[r.id] = @ + 1]
            \/ ledger' = [ledger EXCEPT !.tables[st.table] = @ - 1, !.rows[r.id] = @ - Cardinality(r.rows)]
               /\ id # r.id
            \/ ledger' = [ledger EXCEPT !.rows[r.id] = @ + Cardinality(r.rows)] /\ id # r.id
            \/ ledger' = [ledger EXCEPT !.rows[r.id] = @ - Cardinality(r.rows)] /\ id # r.id
            \/ ledger' = ledger
        BY <1>3, <1>5, <1>12, Zenon DEF Noted
      <3> QED
        BY <1>4, <3>1, Zenon DEF LedgerOK
    <2>2. RowKeys(id)' = RowKeys(id)
      <3>1. CASE id # r.id
        <4>1. \A k : k.fixed = TablePrefix(id).fixed => k \notin DOMAIN w
          BY <1>6, <3>1, Zenon
        <4> QED
          BY <1>1, <1>11, <4>1, Zenon
      <3>2. CASE st.op = "create"
        <4>1. DOMAIN w = {NextTableIdKey, CatalogKey(st.table)}
          BY <1>2, <3>2, Zenon DEF Outcome, CreateOutcome, w
        <4>2. \A k : k.fixed = TablePrefix(id).fixed => k \notin DOMAIN w
          BY <4>1, KeysDiffer, Zenon
        <4> QED
          BY <1>1, <1>11, <4>2, Zenon
      <3>3. CASE st.op = "select"
        <4>1. DOMAIN w = {}
          BY <1>2, <3>3, Zenon DEF Outcome, SelectOutcome, w
        <4> QED
          BY <1>1, <1>11, <4>1, Zenon
      <3>4. CASE st.op = "update"
        <4>1. DOMAIN w \subseteq DOMAIN x.snapshot /\ \A k \in DOMAIN w : w[k] # NotFound
          BY <1>2, <3>4, Zenon DEF Outcome, UpdateOutcome, w
        <4> HIDE DEF w
        <4> QED
          BY <1>1, <1>11, <4>1, Zenon
      <3> QED
        BY <1>12, <3>1, <3>2, <3>3, <3>4, Zenon
    <2> QED
      BY <1>8, <2>1, <2>2, Zenon
  <1>13. CASE id = r.id /\ st.op = "insert"
    <2>1. ledger' = [ledger EXCEPT !.rows[r.id] = @ + Cardinality(r.rows)]
      BY <1>3, <1>13, Zenon DEF Noted
    <2>2. ledger'.rows[id] = ledger.rows[id] + Cardinality(r.rows)
      BY <1>4, <1>13, <2>1, Zenon DEF LedgerOK
    <2>3. /\ DOMAIN w = r.rows /\ r.rows \cap DOMAIN x.snapshot = {}
          /\ \A k \in r.rows : w[k] # NotFound
      BY <1>2, <1>13, Zenon DEF Outcome, InsertOutcome, w
    <2> HIDE DEF w
    <2>4. RowKeys(id) \cap r.rows = {}
      BY <1>1, <1>11, <2>3, Zenon
    <2>5. RowKeys(id)' = RowKeys(id) \cup r.rows
      BY <1>1, <1>7, <1>11, <1>13, <2>3, Zenon
    <2>6. Cardinality(RowKeys(id)') = Cardinality(RowKeys(id)) + Cardinality(r.rows)
      BY <1>7, <1>9, <2>4, <2>5, DisjointUnion, Zenon
    <2> QED
      BY <1>8, <2>2, <2>6, Zenon
  <1>14. CASE id = r.id /\ st.op \in {"drop", "delete"}
    <2>1. \/ ledger' = [ledger EXCEPT !.tables[st.table] = @ - 1, !.rows[r.id] = @ - Cardinality(r.rows)]
          \/ ledger' = [ledger EXCEPT !.rows[r.id] = @ - Cardinality(r.rows)]
      BY <1>3, <1>14, Zenon DEF Noted
    <2>2. ledger'.rows[id] = ledger.rows[id] - Cardinality(r.rows)
      BY <1>4, <1>14, <2>1, Zenon DEF LedgerOK
    <2>3. /\ r.rows \subseteq DOMAIN w /\ r.rows \subseteq DOMAIN x.snapshot
          /\ \A k \in r.rows : w[k] = NotFound
      BY <1>2, <1>14, Zenon DEF Outcome, DropOutcome, DeleteOutcome, w
    <2>4. r.rows \cap RowKeys(id)' = {}
      <3> HIDE DEF w
      <3> QED
        BY <1>1, <1>11, <2>3, Zenon
    <2>5. RowKeys(id) = RowKeys(id)' \cup r.rows
      <3>1. ASSUME NEW k, k.fixed = TablePrefix(id).fixed
            PROVE  k \in DOMAIN store <=> k \in DOMAIN store' \/ k \in r.rows
        <4>1. CASE k \in DOMAIN w
          BY <1>1, <1>6, <2>3, <3>1, <4>1, Zenon
        <4>2. CASE k \notin DOMAIN w
          BY <1>1, <2>3, <4>2, Zenon
        <4> QED
          BY <4>1, <4>2, Zenon
      <3> QED
        BY <1>7, <1>11, <1>14, <3>1, Zenon
    <2>6. Cardinality(RowKeys(id)) = Cardinality(RowKeys(id)') + Cardinality(r.rows)
      BY <1>7, <1>9, <2>4, <2>5, DisjointUnion, Zenon
    <2> QED
      BY SMTT(60), <1>7, <1>8, <1>10, <2>2, <2>6
  <1> QED
    BY <1>5, <1>12, <1>13, <1>14, Zenon

\* Commit keeps the invariant.
LEMMA CommitInv ==
    ASSUME SqlInv, NEW s \in Session, Commit(s)
    PROVE  SqlInv'
  <1>1. session' = [u \in Session |-> session'[u]]
    BY Zenon DEF Commit, CommitWrites
  <1>2. \A u \in Session : SessionOK(session[u])'
    BY CommitSessions, Zenon
  <1> QED
    BY <1>1, <1>2, CommitIsStore, CommitTables, CommitRows, Zenon DEF SqlInv

\* The invariant is kept by every step.
LEMMA SqlStep == SqlInv /\ [Next]_vars => SqlInv'
  <1> SUFFICES ASSUME SqlInv, [Next]_vars PROVE SqlInv'
    BY Zenon
  <1>1. CASE UNCHANGED vars
    <2>1. store' = store /\ ledger' = ledger /\ session' = session
      BY <1>1, Zenon DEF vars
    <2>2. \A s \in Session : SessionOK(session[s])'
      <3> TAKE s \in Session
      <3>1. SessionOK(session[s])
        BY Zenon DEF SqlInv
      <3> QED
        BY <2>1, <3>1, Zenon DEF SessionOK, BegunSession, ExecutedSession, UpToDate
    <2>3. (LedgerOK /\ IsStore(store) /\ Unused /\ IdsAreNeverReused /\ TablesAddUp /\ RowsAddUp)'
      BY <2>1, Zenon
         DEF SqlInv, LedgerOK, IsStore, Unused, IdsAreNeverReused, TablesAddUp, RowsAddUp,
             RowKeys
    <2>4. (session = [s \in Session |-> session[s]])'
      BY <2>1, Zenon DEF SqlInv
    <2> QED
      BY <2>2, <2>3, <2>4, Zenon DEF SqlInv
  <1>2. CASE Next
    BY <1>2, BeginInv, RunInv, CommitInv, AbortInv, Zenon DEF Next
  <1> QED
    BY <1>1, <1>2, Zenon

\* For any clients, statements and tables the invariant holds.
THEOREM SqlInvHolds == Spec => []SqlInv
  BY InitInv, SqlStep, PTL DEF Spec

\* No two tables that were ever created have the same id, for any number of clients
\* that create and drop tables side by side (Execute(CreateTableStmt)).
THEOREM IdsStayUnique == Spec => []IdsAreNeverReused
  <1>1. SqlInv => IdsAreNeverReused
    BY Zenon DEF SqlInv
  <1> QED
    BY <1>1, SqlInvHolds, PTL

\* Of CREATEs of one name, and of DROPs of one table, that run side by side one
\* succeeds (Execute(CreateTableStmt), Execute(DropTableStmt), Txn::Commit).
THEOREM TablesAreCounted == Spec => []TablesAddUp
  <1>1. SqlInv => TablesAddUp
    BY Zenon DEF SqlInv
  <1> QED
    BY <1>1, SqlInvHolds, PTL

\* No row is inserted twice or deleted twice: what statements count is what is
\* stored, for any number of clients, tables, rows and any width of keys
\* (Execute(InsertStmt), Execute(DeleteStmt), Execute(DropTableStmt), Txn::Commit).
THEOREM RowsAreCounted == Spec => []RowsAddUp
  <1>1. SqlInv => RowsAddUp
    BY Zenon DEF SqlInv
  <1> QED
    BY <1>1, SqlInvHolds, PTL


-----------------------------------------------------------------------------
(* Rows fit their schemas. *)

\* The length of a list.
LEMMA LengthOf ==
    ASSUME NEW f, NEW n \in Nat, f = [i \in 1..n |-> f[i]]
    PROVE  Len(f) = n
  <1>1. f \in Seq({f[i] : i \in 1..n})
    OBVIOUS
  <1> QED
    BY <1>1

\* What FetchRows reads fits the schema (DecodeRow).
LEMMA RowsDecode ==
    ASSUME NEW x, x.mutations = NoWrites, IsStore(x.snapshot), StoreFits(x.snapshot),
           NEW t \in Table, NEW schema, schema = Get(x, CatalogKey(t)), schema # NotFound,
           NEW where, NEW k \in RowsToRead(x, schema, where)
    PROVE  /\ k \in DOMAIN x.snapshot /\ Get(x, k) = x.snapshot[k]
           /\ RowFits(schema, k, x.snapshot[k])
           /\ DecodeRow(schema, Get(x, k).row)
  <1>1. CatalogKey(t) \in DOMAIN x.snapshot /\ schema = x.snapshot[CatalogKey(t)] /\ schema.id \in Nat
    BY GetReads, SchemaIsRead, Zenon
  <1>2. k \in DOMAIN x.snapshot /\ k.fixed = TablePrefix(schema.id).fixed
    BY <1>1, RowsAreRead DEF RowsIn
  <1>3. Get(x, k) = x.snapshot[k]
    BY <1>2, GetReads, Zenon
  <1>4. SchemaFits(x.snapshot, schema)
    BY <1>1, Zenon DEF StoreFits
  <1>5. RowFits(schema, k, x.snapshot[k]) /\ IsColumns(schema.columns)
    BY <1>2, <1>4, Zenon DEF SchemaFits
  <1>6. Len(x.snapshot[k].row) = Len(schema.columns)
    <2> DEFINE row == x.snapshot[k].row
               n == Len(schema.columns)
    <2>1. n \in Nat /\ row = [i \in 1..n |-> row[i]]
      BY <1>5, Zenon DEF RowFits, IsColumns
    <2> HIDE DEF row, n
    <2> QED
      BY <2>1, LengthOf, Zenon DEF row, n
  <1> QED
    BY <1>2, <1>3, <1>5, <1>6, Zenon DEF DecodeRow

\* The primary key is one of the columns.
LEMMA PkIsColumn ==
    ASSUME NEW columns, IsColumns(columns)
    PROVE  PkIndex(columns) \in DOMAIN columns
  BY Zenon DEF IsColumns, PkIndex

\* UPDATE keeps the primary key of a row (Execute(UpdateStmt)).
LEMMA UpdateFits ==
    ASSUME NEW x, x = [pc |-> "begun", st |-> x.st, snapshot |-> x.snapshot,
                       mutations |-> NoWrites, changed |-> x.changed],
           IsStore(x.snapshot), StoreFits(x.snapshot), NEW st \in Statement, st.op = "update",
           NEW schema, schema = Get(x, CatalogKey(st.table)), schema # NotFound,
           Update(x, schema, st).status = "ok"
    PROVE  WritesFit(x.snapshot, st, Update(x, schema, st))
  <1> DEFINE keys == Fetched(x, schema, st.where)
             w == [k \in keys |-> [kind |-> "row", row |-> Assigned(schema, st.sets, Get(x, k).row)]]
             y == [x EXCEPT !.mutations = w]
             c == CatalogKey(st.table)
             p == PkIndex(schema.columns)
  <1>1. x.mutations = NoWrites /\ st.table \in Table
    BY StatementAssumption
  <1>2. /\ Update(x, schema, st) = UpdateRows(x, schema, st)
        /\ \A j \in DOMAIN st.sets : ColumnIndex(schema.columns, st.sets[j].column) # p
    BY Zenon DEF Update, Invalid
  <1>3. UpdateRows(x, schema, st) = Done(y, keys, schema.id)
    BY <1>2 DEF UpdateRows, FetchRows, Invalid, Corruption
  <1>4. y.mutations = w
    BY Zenon
  <1>5. c \in DOMAIN x.snapshot /\ schema = x.snapshot[c]
    BY <1>1, GetReads, Zenon
  <1>6. IsColumns(schema.columns)
    BY <1>1, <1>5, Zenon DEF StoreFits, SchemaFits
  <1>7. ASSUME NEW k \in keys PROVE RowFits(schema, k, w[k])
    <2> DEFINE old == Get(x, k).row
               new == Assigned(schema, st.sets, old)
    <2>1. k \in RowsToRead(x, schema, st.where)
      BY Zenon DEF Fetched
    <2>2. RowFits(schema, k, x.snapshot[k]) /\ Get(x, k) = x.snapshot[k]
      BY <1>1, <2>1, RowsDecode
    <2>3. /\ old = [i \in DOMAIN schema.columns |-> old[i]]
          /\ k = RowKey(schema.id, old[p])
      BY <2>2, Zenon DEF RowFits
    <2>4. w[k].kind = "row" /\ w[k].row = new
      BY Zenon
    <2> HIDE DEF old, w, keys, p
    <2>5. p \in DOMAIN schema.columns
      BY <1>6, PkIsColumn, Zenon DEF p
    <2>6. new = [i \in DOMAIN schema.columns |-> new[i]]
      <3>1. DOMAIN old = DOMAIN schema.columns
        BY <2>3, Zenon
      <3>2. PICK n : n = new
        BY Zenon
      <3>3. n = [i \in DOMAIN old |-> n[i]]
        BY <3>2 DEF Assigned
      <3> HIDE DEF new
      <3> QED
        BY <3>1, <3>2, <3>3, Zenon
    <2>7. new[p] = old[p]
      BY <1>2, <2>3, <2>5, Zenon DEF Assigned
    <2> HIDE DEF new
    <2> QED
      BY <2>3, <2>4, <2>6, <2>7, Zenon DEF RowFits, p
  <1> HIDE DEF keys, w, y, c, p
  <1>8. LET r == Done(y, keys, schema.id) IN r.rows = keys /\ r.mutations = w /\ r.id = schema.id
    BY <1>4, Zenon DEF Done
  <1> QED
    BY <1>2, <1>3, <1>5, <1>7, <1>8, Zenon DEF WritesFit, c

\* INSERT puts a row under the key that its primary key encodes to
\* (Execute(InsertStmt)).
LEMMA InsertFits ==
    ASSUME NEW x, x = [pc |-> "begun", st |-> x.st, snapshot |-> x.snapshot,
                       mutations |-> NoWrites, changed |-> x.changed],
           IsStore(x.snapshot), NEW st \in Statement, st.op = "insert",
           NEW schema, schema = Get(x, CatalogKey(st.table)), schema # NotFound,
           Insert(x, schema, st).status = "ok"
    PROVE  WritesFit(x.snapshot, st, Insert(x, schema, st))
  <1> DEFINE row == [r \in DOMAIN st.rows |-> RowOf(schema, st.columns, st.rows[r])]
             key == [r \in DOMAIN st.rows |-> RowKey(schema.id, row[r][PkIndex(schema.columns)])]
             Of(k) == CHOOSE r \in DOMAIN key : key[r] = k
             w == [k \in Range(key) |-> [kind |-> "row", row |-> row[Of(k)]]]
             y == [x EXCEPT !.mutations = w]
             c == CatalogKey(st.table)
  <1>1. x.mutations = NoWrites /\ st.table \in Table
    BY StatementAssumption
  <1>2. Insert(x, schema, st) = Done(y, Range(key), schema.id)
    BY Zenon DEF Insert, Invalid
  <1>3. y.mutations = w
    BY Zenon
  <1>4. c \in DOMAIN x.snapshot /\ schema = x.snapshot[c]
    BY <1>1, GetReads, Zenon
  <1>5. ASSUME NEW k \in Range(key) PROVE RowFits(schema, k, w[k])
    <2>1. \E r \in DOMAIN key : key[r] = k
      BY Zenon DEF Range
    <2>2. Of(k) \in DOMAIN st.rows /\ key[Of(k)] = k
      BY <2>1, Zenon
    <2>3. w[k].kind = "row" /\ w[k].row = row[Of(k)]
      BY Zenon
    <2> HIDE DEF Of, w
    <2>4. /\ row[Of(k)] = RowOf(schema, st.columns, st.rows[Of(k)])
          /\ k = RowKey(schema.id, row[Of(k)][PkIndex(schema.columns)])
      BY <2>2, Zenon
    <2> HIDE DEF row
    <2>5. row[Of(k)] = [i \in DOMAIN schema.columns |-> row[Of(k)][i]]
      BY <2>4, Zenon DEF RowOf
    <2> QED
      BY <2>3, <2>4, <2>5, Zenon DEF RowFits
  <1> HIDE DEF w, y, c, key
  <1>6. LET r == Done(y, Range(key), schema.id)
        IN  r.rows = Range(key) /\ r.mutations = w /\ r.id = schema.id
    BY <1>3, Zenon DEF Done
  <1> QED
    BY <1>2, <1>4, <1>5, <1>6, Zenon DEF WritesFit, c


\* Every statement, on a snapshot whose rows fit (Executor::Run).
LEMMA StatementFits ==
    ASSUME NEW x, BegunSession(x), StoreFits(x.snapshot)
    PROVE  /\ Execute(x, x.st).status # "corruption"
           /\ Execute(x, x.st).status = "ok" => WritesFit(x.snapshot, x.st, Execute(x, x.st))
  <1> DEFINE schema == Get(x, CatalogKey(x.st.table))
             st == x.st
  <1>1. /\ x = [pc |-> "begun", st |-> x.st, snapshot |-> x.snapshot,
                 mutations |-> NoWrites, changed |-> x.changed]
        /\ x.st \in Statement /\ IsStore(x.snapshot)
    BY Zenon DEF BegunSession
  <1>2. st.op \in {"create", "drop", "insert", "select", "update", "delete"} /\ st.table \in Table
    BY <1>1, StatementAssumption, Zenon
  <1>3. x.mutations = NoWrites
    BY <1>1
  <1>4. Invalid.status = "invalid" /\ \A y, rows, id : Done(y, rows, id).status = "ok"
    BY Zenon DEF Invalid, Done
  <1>5. ASSUME schema # NotFound, NEW where, NEW y, NEW rows, NEW id
        PROVE  FetchRows(x, schema, where, Done(y, rows, id)).status # "corruption"
    <2>1. \A k \in RowsToRead(x, schema, where) : DecodeRow(schema, Get(x, k).row)
      <3> HIDE DEF schema
      <3>1. schema = Get(x, CatalogKey(st.table))
        BY Zenon DEF schema
      <3> QED
        BY <1>1, <1>2, <1>3, <1>5, <3>1, RowsDecode, Zenon
    <2> QED
      BY <1>4, <2>1, Zenon DEF FetchRows
  <1>6. CASE st.op = "create" \/ schema = NotFound
    BY <1>4, <1>6, Zenon DEF Execute, CreateTable, WritesFit
  <1>7. CASE st.op # "create" /\ schema # NotFound
    <2>1. CASE st.op = "drop"
      BY <1>5, <1>7, <2>1, ZenonT(30) DEF Execute, DropTable, WritesFit
    <2>2. CASE st.op = "select"
      BY <1>4, <1>5, <1>7, <2>2 DEF Execute, Select, WritesFit
    <2>3. CASE st.op = "delete"
      BY <1>5, <1>7, <2>3, Zenon DEF Execute, Delete, WritesFit
    <2>4. CASE st.op = "update"
      <3>1. Execute(x, x.st) = Update(x, schema, st)
        BY <1>7, <2>4, ZenonT(30) DEF Execute
      <3>2. Update(x, schema, st).status # "corruption"
        BY <1>4, <1>5, <1>7 DEF Update, UpdateRows
      <3>3. Update(x, schema, st).status = "ok" => WritesFit(x.snapshot, st, Update(x, schema, st))
        <4> HIDE DEF schema
        <4>1. schema = Get(x, CatalogKey(st.table))
          BY Zenon DEF schema
        <4> QED
          BY <1>1, <1>7, <2>4, <4>1, UpdateFits, Zenon
      <3> QED
        BY <3>1, <3>2, <3>3, Zenon
    <2>5. CASE st.op = "insert"
      <3>1. Execute(x, x.st) = Insert(x, schema, st)
        BY <1>7, <2>5, Zenon DEF Execute
      <3>2. Insert(x, schema, st).status # "corruption"
        BY <1>4, Zenon DEF Insert
      <3>3. Insert(x, schema, st).status = "ok" => WritesFit(x.snapshot, st, Insert(x, schema, st))
        <4> HIDE DEF schema
        <4>1. schema = Get(x, CatalogKey(st.table))
          BY Zenon DEF schema
        <4> QED
          BY <1>1, <1>7, <2>5, <4>1, InsertFits, Zenon
      <3> QED
        BY <3>1, <3>2, <3>3, Zenon
    <2> QED
      BY <1>2, <1>7, <2>1, <2>2, <2>3, <2>4, <2>5, Zenon
  <1> QED
    BY <1>6, <1>7, Zenon

\* A session that moves while the store stays.
LEMMA FitSession ==
    ASSUME FitInv, SqlInv', store' = store, NEW s \in Session, NEW y,
           session' = [session EXCEPT ![s] = y], SessionFits(y), IdsSuffice'
    PROVE  FitInv'
  <1>1. \A u \in Session : session'[u] = IF u = s THEN y ELSE session[u]
    BY Zenon DEF FitInv, SqlInv
  <1>2. ASSUME NEW u \in Session PROVE SessionFits(session[u])'
    <2>1. SessionFits(session'[u])
      BY <1>1, Zenon DEF FitInv
    <2> QED
      BY <2>1, Zenon DEF SessionFits, OldTables
  <1>3. StoreFits(store)'
    BY Zenon DEF FitInv
  <1> QED
    BY <1>2, <1>3, Zenon DEF FitInv

\* Somebody is done, or goes on.
LEMMA FewerBusy ==
    ASSUME FitInv, NEW s \in Busy, Busy' = Busy \/ Busy' = Busy \ {s}, started' = started
    PROVE  /\ NextId(store') = NextId(store) => IdsSuffice'
           /\ NextId(store') = NextId(store) + 1 /\ Busy' = Busy \ {s} => IdsSuffice'
           /\ NextId(store) \in Nat /\ NextId(store) < MaxStatements + 1
  <1>1. /\ IsFiniteSet(Busy) /\ started \in Nat /\ started <= MaxStatements /\ MaxStatements \in Nat
        /\ NextId(store) + Cardinality(Busy) <= started + 1
    BY BoundAssumption, Zenon DEF FitInv, IdsSuffice
  <1>2. /\ IsFiniteSet(Busy \ {s}) /\ Cardinality(Busy \ {s}) = Cardinality(Busy) - 1
        /\ Cardinality(Busy) \in Nat
    BY <1>1, FS_RemoveElement, FS_CardinalityType, Zenon
  <1>3. Cardinality(Busy \ {s}) \in Nat
    BY <1>2, FS_CardinalityType, Zenon
  <1>4. NextId(store) \in Nat
    BY Zenon DEF FitInv, SqlInv, IsStore, NextId
  <1>5. IsFiniteSet(Busy') /\ Cardinality(Busy') \in {Cardinality(Busy), Cardinality(Busy) - 1}
    BY <1>1, <1>2, Zenon
  <1>6. Busy' = Busy \ {s} => Cardinality(Busy') = Cardinality(Busy) - 1
    BY <1>2, Zenon
  <1> QED
    BY SMTT(30), <1>1, <1>2, <1>3, <1>4, <1>5, <1>6 DEF IdsSuffice

\* Begin takes a snapshot that fits.
LEMMA BeginFit ==
    ASSUME FitInv, NEW s \in Session, NEW st \in Statement, Begin(s, st)
    PROVE  FitInv'
  <1> DEFINE y == [pc |-> "begun", st |-> st, snapshot |-> store, mutations |-> NoWrites, changed |-> {}]
  <1>1. SqlInv'
    BY BeginInv, Zenon DEF FitInv
  <1>2. NextId(store) \in Nat
    BY Zenon DEF FitInv, SqlInv, IsStore, NextId
  <1>3. SessionFits(y)
    <2>1. y.pc = "begun" /\ y.snapshot = store
      BY Zenon
    <2>2. OldTables(y)
      BY <1>2, <2>1 DEF OldTables
    <2> HIDE DEF y
    <2> QED
      BY <2>1, <2>2, Zenon DEF FitInv, SessionFits
  <1>4. /\ session' = [session EXCEPT ![s] = y] /\ store' = store
        /\ started' = started + 1 /\ started < MaxStatements /\ session[s].pc = "idle"
    BY Zenon DEF Begin
  <1>5. \A u \in Session : session'[u] = IF u = s THEN y ELSE session[u]
    BY <1>4, Zenon DEF FitInv, SqlInv
  <1>6. Busy' = Busy \cup {s} /\ s \notin Busy
    BY <1>4, <1>5 DEF Busy
  <1>7. /\ IsFiniteSet(Busy) /\ started \in Nat /\ MaxStatements \in Nat
        /\ NextId(store) + Cardinality(Busy) <= started + 1
    BY BoundAssumption, Zenon DEF FitInv, IdsSuffice
  <1>8. IsFiniteSet(Busy') /\ Cardinality(Busy') = Cardinality(Busy) + 1 /\ Cardinality(Busy) \in Nat
    BY <1>6, <1>7, FS_AddElement, FS_CardinalityType, Zenon
  <1>9. IdsSuffice'
    BY <1>2, <1>4, <1>7, <1>8 DEF IdsSuffice
  <1> QED
    BY <1>1, <1>3, <1>4, <1>9, FitSession, Zenon

\* The executor comes across nothing that does not fit.
LEMMA RunFit ==
    ASSUME FitInv, NEW s \in Session, Run(s)
    PROVE  FitInv'
  <1> DEFINE x == session[s]
             r == Execute(x, x.st)
             y == IF r.status = "ok"
                  THEN [pc |-> "executed", st |-> x.st, snapshot |-> x.snapshot,
                        changed |-> x.changed, result |-> r]
                  ELSE [pc |-> "idle", status |-> r.status]
  <1>1. SqlInv'
    BY RunInv, Zenon DEF FitInv
  <1>2. x.pc = "begun" /\ session' = [session EXCEPT ![s] = y] /\ UNCHANGED <<store, started>>
    BY Zenon DEF Run
  <1>3. BegunSession(x) /\ SessionFits(x)
    BY <1>2 DEF FitInv, SqlInv, SessionOK, ExecutedSession
  <1>4. StoreFits(x.snapshot) /\ OldTables(x)
    BY <1>2, <1>3, Zenon DEF SessionFits
  <1>5. r.status # "corruption" /\ (r.status = "ok" => WritesFit(x.snapshot, x.st, r))
    BY <1>3, <1>4, StatementFits, ZenonT(30)
  <1>6. \A u \in Session : session'[u] = IF u = s THEN y ELSE session[u]
    BY <1>2, Zenon DEF FitInv, SqlInv
  <1> HIDE DEF r, x
  <1>7. SessionFits(y)
    BY <1>4, <1>5, Zenon DEF SessionFits, OldTables
  <1>8. y.pc \in {"executed", "idle"}
    BY Zenon
  <1>9. s \in Busy /\ (Busy' = Busy \/ Busy' = Busy \ {s})
    <2> HIDE DEF y
    <2> QED
      BY <1>2, <1>6, <1>8, Zenon DEF Busy, x
  <1>10. IdsSuffice'
    BY <1>2, <1>9, FewerBusy, Zenon
  <1> QED
    BY <1>1, <1>2, <1>7, <1>10, FitSession, Zenon

\* A statement that ends without a trace.
LEMMA AbortFit ==
    ASSUME FitInv, NEW s \in Session, Abort(s)
    PROVE  FitInv'
  <1> DEFINE y == [Idle EXCEPT !.status = "aborted"]
  <1>1. SqlInv'
    BY AbortInv, Zenon DEF FitInv
  <1>2. /\ session' = [session EXCEPT ![s] = y] /\ UNCHANGED <<store, started>>
        /\ session[s].pc # "idle"
    BY Zenon DEF Abort, InTransaction
  <1>3. SessionFits(y) /\ y.pc = "idle"
    BY Zenon DEF SessionFits, Idle
  <1>4. \A u \in Session : session'[u] = IF u = s THEN y ELSE session[u]
    BY <1>2, Zenon DEF FitInv, SqlInv
  <1> HIDE DEF y
  <1>5. s \in Busy /\ Busy' = Busy \ {s}
    BY <1>2, <1>3, <1>4, Zenon DEF Busy
  <1>6. IdsSuffice'
    BY <1>2, <1>5, FewerBusy, Zenon
  <1> QED
    BY <1>1, <1>2, <1>3, <1>6, FitSession, Zenon


\* What the commit of session x does to the store, by kind of key.
CommitDoes(x) ==
    LET st == x.st
        w == x.result.mutations
        n == NextId(store)
    IN  /\ x.pc = "executed" /\ st.table \in Table
        /\ n \in Nat \ {0} /\ NextId(store') \in Nat
        /\ \A k : k \in DOMAIN store' /\ k \notin DOMAIN w => k \in DOMAIN store /\ store'[k] = store[k]
        /\ \A k : k \in DOMAIN store' /\ k \in DOMAIN w => store'[k] = w[k] /\ w[k] # NotFound
        /\ IF st.op = "create" THEN NextId(store') = n + 1 ELSE NextId(store') = n
        /\ NextTableIdKey \in DOMAIN w => w[NextTableIdKey].kind = "next"
        /\ \A t \in Table : CatalogKey(t) \in DOMAIN w /\ w[CatalogKey(t)] # NotFound =>
              /\ st.op = "create" /\ t = st.table
              /\ w[CatalogKey(t)] = [kind |-> "schema", id |-> n, columns |-> st.columns]
              /\ IsColumns(st.columns)
        /\ \A id, k : k \in DOMAIN w /\ w[k] # NotFound /\ k.fixed = TablePrefix(id).fixed =>
              /\ st.op \in {"insert", "update"}
              /\ CatalogKey(st.table) \in DOMAIN x.snapshot
              /\ id = x.snapshot[CatalogKey(st.table)].id
              /\ RowFits(x.snapshot[CatalogKey(st.table)], k, w[k])

\* Such are the writes of a statement that commits (Txn::Commit).
LEMMA CommitWritesFit ==
    ASSUME FitInv, NEW s \in Session, Commit(s), NEW x, x = session[s]
    PROVE  CommitDoes(x)
  <1> DEFINE st == x.st
             r == x.result
             w == r.mutations
             n == NextId(store)
  <1>1. /\ \A k \in DOMAIN w : k \in DOMAIN store <=> k \in DOMAIN x.snapshot
        /\ \A k \in DOMAIN w : k \in DOMAIN store => x.snapshot[k] = store[k]
        /\ \A k : k \in DOMAIN store' <=>
                    IF k \in DOMAIN w THEN w[k] # NotFound ELSE k \in DOMAIN store
        /\ \A k \in DOMAIN store' : store'[k] = IF k \in DOMAIN w THEN w[k] ELSE store[k]
    BY CommitStore, Zenon DEF FitInv
  <1>2. Outcome(x.snapshot, st, r) /\ st \in Statement /\ x.pc = "executed"
    BY CommitStore, Zenon DEF FitInv, ExecutedSession, Commit, CommitWrites
  <1>3. WritesFit(x.snapshot, st, r)
    BY <1>2, ZenonT(30) DEF FitInv, SessionFits
  <1>4. st.op \in {"create", "drop", "insert", "select", "update", "delete"} /\ st.table \in Table
    BY <1>2, StatementAssumption, Zenon
  <1>5. n \in Nat \ {0}
    BY DEF FitInv, SqlInv, IsStore, NextId
  <1> HIDE DEF st, r
  <1>6. /\ NextTableIdKey \in DOMAIN w <=> st.op = "create"
        /\ \A t \in Table : CatalogKey(t) \in DOMAIN w <=> st.op \in {"create", "drop"} /\ t = st.table
        /\ \A id, k : k \in DOMAIN w /\ k.fixed = TablePrefix(id).fixed => id = r.id /\ k \in r.rows
    BY <1>2, WrittenKeys, Zenon
  <1>7. st.op = "create" => /\ r.id = NextId(x.snapshot)
                            /\ w[NextTableIdKey] = [kind |-> "next", id |-> r.id + 1]
                            /\ w[CatalogKey(st.table)] = [kind |-> "schema", id |-> r.id, columns |-> st.columns]
                            /\ r.rows \cap DOMAIN w = {}
    <2>1. ASSUME st.op = "create" PROVE CreateOutcome(x.snapshot, st, r)
      BY <1>2, <2>1, Zenon DEF Outcome
    <2>2. \A k \in r.rows : k.fixed = TablePrefix(r.id).fixed
      BY <1>2, Zenon DEF Outcome, RowsIn
    <2> QED
      BY <2>1, <2>2, KeysDiffer, SMTT(30) DEF CreateOutcome
  <1>8. st.op = "create" => r.id = n
    BY <1>1, <1>6, <1>7, Zenon DEF NextId
  <1>9. st.op = "create" => w[NextTableIdKey] # NotFound
    BY <1>7, SMTT(30) DEF NotFound
  <1>10. IF st.op = "create" THEN NextId(store') = n + 1 ELSE NextId(store') = n
    <2>1. CASE st.op = "create"
      <3>1. NextTableIdKey \in DOMAIN store' /\ store'[NextTableIdKey] = w[NextTableIdKey]
        BY <1>1, <1>6, <1>9, <2>1, Zenon
      <3>2. w[NextTableIdKey].id = n + 1
        BY <1>7, <1>8, <2>1, SMTT(30)
      <3>3. NextId(store') = n + 1
        BY <3>1, <3>2, Zenon DEF NextId
      <3> QED
        BY <2>1, <3>3, Zenon
    <2>2. CASE st.op # "create"
      <3>1. /\ NextTableIdKey \in DOMAIN store' <=> NextTableIdKey \in DOMAIN store
            /\ NextTableIdKey \in DOMAIN store' => store'[NextTableIdKey] = store[NextTableIdKey]
        BY <1>1, <1>6, <2>2, Zenon
      <3>2. NextId(store') = n
        BY <3>1, Zenon DEF NextId
      <3> QED
        BY <2>2, <3>2, Zenon
    <2> QED
      BY <2>1, <2>2, Zenon
  <1>11. st.op = "drop" => w[CatalogKey(st.table)] = NotFound /\ \A k \in DOMAIN w : w[k] = NotFound
    BY <1>2, <1>6, <1>4, Zenon DEF Outcome, DropOutcome
  <1>12. st.op = "delete" => \A k \in DOMAIN w : w[k] = NotFound
    BY <1>2, Zenon DEF Outcome, DeleteOutcome
  <1>13. st.op = "select" => DOMAIN w = {}
    BY <1>2, Zenon DEF Outcome, SelectOutcome
  <1>14. st.op = "create" => IsColumns(st.columns)
    BY <1>2, StatementAssumption, Zenon DEF IsColumns
  <1>15. ASSUME NEW id, NEW k \in DOMAIN w, w[k] # NotFound, k.fixed = TablePrefix(id).fixed
         PROVE  /\ st.op \in {"insert", "update"}
                /\ CatalogKey(st.table) \in DOMAIN x.snapshot
                /\ id = x.snapshot[CatalogKey(st.table)].id
                /\ RowFits(x.snapshot[CatalogKey(st.table)], k, w[k])
    <2>1. id = r.id /\ k \in r.rows
      BY <1>6, <1>15, Zenon
    <2>2. st.op \in {"insert", "update"}
      BY <1>4, <1>7, <1>11, <1>12, <1>13, <1>15, <2>1, Zenon
    <2> QED
      BY <1>3, <2>1, <2>2, Zenon DEF WritesFit
  <1> HIDE DEF w, n
  <1>16. \A t \in Table : CatalogKey(t) \in DOMAIN w /\ w[CatalogKey(t)] # NotFound =>
            /\ st.op = "create" /\ t = st.table
            /\ w[CatalogKey(t)] = [kind |-> "schema", id |-> n, columns |-> st.columns]
            /\ IsColumns(st.columns)
    BY <1>6, <1>7, <1>8, <1>11, <1>14, Zenon DEF w
  <1>17. NextTableIdKey \in DOMAIN w => w[NextTableIdKey].kind = "next"
    BY <1>6, <1>7 DEF w
  <1>18. NextId(store') \in Nat
    BY <1>5, <1>10
  <1> QED
    BY <1>1, <1>2, <1>4, <1>5, <1>10, <1>15, <1>16, <1>17, <1>18, Zenon DEF CommitDoes, st, r, w, n

\* A commit leaves a store that fits.
LEMMA CommitStoreFits ==
    ASSUME FitInv, NEW s \in Session, Commit(s)
    PROVE  StoreFits(store)'
  <1>0. PICK x : x = session[s]
    BY Zenon
  <1> DEFINE st == x.st
             w == x.result.mutations
             n == NextId(store)
             old == x.snapshot[CatalogKey(x.st.table)]
  <1>1. /\ x.pc = "executed" /\ st.table \in Table
        /\ n \in Nat \ {0} /\ NextId(store') \in Nat
        /\ \A k : k \in DOMAIN store' /\ k \notin DOMAIN w => k \in DOMAIN store /\ store'[k] = store[k]
        /\ \A k : k \in DOMAIN store' /\ k \in DOMAIN w => store'[k] = w[k] /\ w[k] # NotFound
        /\ IF st.op = "create" THEN NextId(store') = n + 1 ELSE NextId(store') = n
        /\ NextTableIdKey \in DOMAIN w => w[NextTableIdKey].kind = "next"
        /\ \A t \in Table : CatalogKey(t) \in DOMAIN w /\ w[CatalogKey(t)] # NotFound =>
              /\ st.op = "create" /\ t = st.table
              /\ w[CatalogKey(t)] = [kind |-> "schema", id |-> n, columns |-> st.columns]
              /\ IsColumns(st.columns)
        /\ \A id, k : k \in DOMAIN w /\ w[k] # NotFound /\ k.fixed = TablePrefix(id).fixed =>
              /\ st.op \in {"insert", "update"}
              /\ CatalogKey(st.table) \in DOMAIN x.snapshot
              /\ id = old.id /\ RowFits(old, k, w[k])
    <2>1. CommitDoes(x)
      BY <1>0, CommitWritesFit, Zenon
    <2> QED
      BY <2>1, Zenon DEF CommitDoes
  <1>2. StoreFits(store)
    BY Zenon DEF FitInv
  <1>3. StoreFits(x.snapshot) /\ OldTables(x)
    BY <1>0, <1>1, Zenon DEF FitInv, SessionFits
  <1>4. CatalogKey(st.table) \in DOMAIN x.snapshot =>
           old.id \in Nat \ {0} /\ old.id < NextId(x.snapshot)
    BY <1>1, <1>3, Zenon DEF StoreFits, SchemaFits
  <1>5. NextId(x.snapshot) <= n /\ NextId(x.snapshot) \in Nat
    <2>1. IsStore(x.snapshot)
      BY <1>0, <1>1, Zenon DEF FitInv, SqlInv, SessionOK, BegunSession, ExecutedSession
    <2> QED
      BY <1>3, <2>1, Zenon DEF OldTables, NextId, IsStore
  <1> HIDE DEF st, w, n, old
  <1>6. NextTableIdKey \in DOMAIN store' => store'[NextTableIdKey].kind = "next"
    BY <1>1, <1>2, Zenon DEF StoreFits
  <1>7. ASSUME NEW k \in DOMAIN store', NEW id \in Nat, k.fixed = TablePrefix(id).fixed
        PROVE  id # 0 /\ id < NextId(store') /\ store'[k].kind = "row"
    <2>1. CASE k \notin DOMAIN w
      <3>1. id # 0 /\ id < n /\ store[k].kind = "row"
        BY <1>1, <1>2, <1>7, <2>1, ZenonT(30) DEF StoreFits, n
      <3> QED
        BY <1>1, <2>1, <3>1, SMTT(30)
    <2>2. CASE k \in DOMAIN w
      <3>1. id = old.id /\ RowFits(old, k, w[k]) /\ CatalogKey(st.table) \in DOMAIN x.snapshot
            /\ store'[k] = w[k]
        BY <1>1, <1>7, <2>2, Zenon
      <3> QED
        BY SMTT(30), <1>1, <1>4, <1>5, <3>1 DEF RowFits
    <2> QED
      BY <2>1, <2>2, Zenon
  <1>8. ASSUME NEW t \in Table, CatalogKey(t) \in DOMAIN store', CatalogKey(t) \notin DOMAIN w
        PROVE  SchemaFits(store, store[CatalogKey(t)]) /\ store'[CatalogKey(t)] = store[CatalogKey(t)]
    BY <1>1, <1>2, <1>8, Zenon DEF StoreFits
  <1>9. ASSUME NEW t \in Table, CatalogKey(t) \in DOMAIN store', CatalogKey(t) \in DOMAIN w
        PROVE  /\ store'[CatalogKey(t)] = [kind |-> "schema", id |-> n, columns |-> st.columns]
               /\ t = st.table /\ st.op = "create" /\ IsColumns(st.columns)
    BY <1>1, <1>9, Zenon
  <1>10. ASSUME NEW t \in Table, CatalogKey(t) \in DOMAIN store'
         PROVE  SchemaFits(store, store[CatalogKey(t)])'
    <2>1. CASE CatalogKey(t) \notin DOMAIN w
      <3>1. PICK c : c = store[CatalogKey(t)]
        BY Zenon
      <3>2. /\ CatalogKey(t) \in DOMAIN store /\ store'[CatalogKey(t)] = c /\ SchemaFits(store, c)
        BY <1>1, <1>8, <1>10, <2>1, <3>1, ZenonT(30)
      <3>3. c.kind = "schema" /\ IsColumns(c.columns) /\ c.id \in Nat \ {0} /\ c.id < NextId(store')
        BY <1>1, <3>2 DEF SchemaFits, n
      <3>4. ASSUME NEW k \in DOMAIN store', k.fixed = TablePrefix(c.id).fixed
            PROVE  RowFits(c, k, store'[k])
        <4>1. CASE k \notin DOMAIN w
          BY <1>1, <3>2, <3>4, <4>1, Zenon DEF SchemaFits
        <4>2. CASE k \in DOMAIN w
          <5>1. /\ c.id = old.id /\ RowFits(old, k, w[k]) /\ store'[k] = w[k]
                /\ CatalogKey(st.table) \in DOMAIN x.snapshot
            BY <1>1, <3>4, <4>2, ZenonT(30)
          <5>2. CatalogKey(t) \in DOMAIN x.snapshot /\ x.snapshot[CatalogKey(t)] = c
            BY <1>3, <1>4, <3>1, <3>2, <5>1, Zenon DEF OldTables
          <5>3. t = st.table
            BY <1>1, <1>3, <5>1, <5>2, Zenon DEF StoreFits, old, st
          <5> QED
            BY <5>1, <5>2, <5>3, Zenon DEF old, st
        <4> QED
          BY <4>1, <4>2, Zenon
      <3>5. SchemaFits(store', c)
        BY <3>3, <3>4, Zenon DEF SchemaFits
      <3> QED
        BY <3>2, <3>5, Zenon
    <2>2. CASE CatalogKey(t) \in DOMAIN w
      <3>1. PICK c : c = [kind |-> "schema", id |-> n, columns |-> st.columns]
        BY Zenon
      <3>2. /\ store'[CatalogKey(t)] = c /\ st.op = "create" /\ IsColumns(c.columns)
            /\ c.kind = "schema" /\ c.id = n
        BY <1>9, <1>10, <2>2, <3>1, Zenon
      <3>3. ASSUME NEW k \in DOMAIN store', k.fixed = TablePrefix(n).fixed PROVE FALSE
        <4>1. k \notin DOMAIN w
          BY <1>1, <3>2, <3>3, SMTT(30)
        <4>2. k \in DOMAIN store
          BY <1>1, <4>1, Zenon
        <4>3. n < n
          BY <1>1, <1>2, <3>3, <4>2, Zenon DEF StoreFits, n
        <4> QED
          BY SMTT(30), <1>1, <4>3
      <3>4. SchemaFits(store', c)
        BY <1>1, <3>2, <3>3 DEF SchemaFits
      <3> QED
        BY <3>2, <3>4, Zenon
    <2> QED
      BY <2>1, <2>2, Zenon
  <1>11. ASSUME NEW t \in Table, NEW u \in Table,
                CatalogKey(t) \in DOMAIN store', CatalogKey(u) \in DOMAIN store',
                store'[CatalogKey(t)].id = store'[CatalogKey(u)].id
         PROVE  t = u
    <2>1. CASE CatalogKey(t) \notin DOMAIN w /\ CatalogKey(u) \notin DOMAIN w
      BY <1>1, <1>2, <1>11, <2>1, Zenon DEF StoreFits
    <2>2. CASE CatalogKey(t) \in DOMAIN w /\ CatalogKey(u) \in DOMAIN w
      BY <1>9, <1>11, <2>2, Zenon
    <2>3. ASSUME NEW a \in Table, NEW b \in Table,
                 CatalogKey(a) \in DOMAIN store', CatalogKey(b) \in DOMAIN store',
                 CatalogKey(a) \in DOMAIN w, CatalogKey(b) \notin DOMAIN w
          PROVE  store'[CatalogKey(a)].id # store'[CatalogKey(b)].id
      <3>1. store'[CatalogKey(a)].id = n
        BY <1>9, <2>3
      <3>2. store'[CatalogKey(b)].id < n /\ store'[CatalogKey(b)].id \in Nat
        BY <1>8, <2>3, Zenon DEF SchemaFits, n
      <3>3. n \in Nat
        BY <1>1, Zenon
      <3> HIDE DEF n
      <3> QED
        BY SMTT(30), <3>1, <3>2, <3>3
    <2> QED
      BY <1>11, <2>1, <2>2, <2>3, Zenon
  <1> QED
    BY <1>6, <1>7, <1>10, <1>11, Zenon DEF StoreFits

\* Commit keeps the invariant: whoever is under way finds the tables that it knows
\* as they were, or gone.
LEMMA CommitFit ==
    ASSUME FitInv, NEW s \in Session, Commit(s)
    PROVE  FitInv'
  <1>1. SqlInv' /\ StoreFits(store)'
    BY CommitInv, CommitStoreFits, Zenon DEF FitInv
  <1>2. PICK x : x = session[s]
    BY Zenon
  <1>3. PICK w : w = x.result.mutations
    BY Zenon
  <1>4. PICK n : n = NextId(store)
    BY Zenon
  <1>5. /\ x.pc = "executed" /\ n \in Nat /\ NextId(store') \in Nat
        /\ NextId(store') = n \/ NextId(store') = n + 1
        /\ \A k : k \in DOMAIN store' /\ k \notin DOMAIN w => k \in DOMAIN store /\ store'[k] = store[k]
        /\ \A t \in Table : CatalogKey(t) \in DOMAIN store' /\ CatalogKey(t) \in DOMAIN w =>
              store'[CatalogKey(t)].id = n
    <2> DEFINE st == x.st
               v == x.result.mutations
               m == NextId(store)
    <2>1. /\ x.pc = "executed"
          /\ m \in Nat \ {0} /\ NextId(store') \in Nat
          /\ \A k : k \in DOMAIN store' /\ k \notin DOMAIN v => k \in DOMAIN store /\ store'[k] = store[k]
          /\ \A k : k \in DOMAIN store' /\ k \in DOMAIN v => store'[k] = v[k] /\ v[k] # NotFound
          /\ IF st.op = "create" THEN NextId(store') = m + 1 ELSE NextId(store') = m
          /\ \A t \in Table : CatalogKey(t) \in DOMAIN v /\ v[CatalogKey(t)] # NotFound =>
                v[CatalogKey(t)] = [kind |-> "schema", id |-> m, columns |-> st.columns]
      <3>1. CommitDoes(x)
        BY <1>2, CommitWritesFit, Zenon
      <3> QED
        BY <3>1, Zenon DEF CommitDoes
    <2> HIDE DEF m, v
    <2>2. m = n /\ v = w
      BY <1>3, <1>4, Zenon DEF m, v
    <2>3. n \in Nat /\ (NextId(store') = n \/ NextId(store') = n + 1)
      BY <2>1, <2>2, Zenon
    <2>4. ASSUME NEW t \in Table, CatalogKey(t) \in DOMAIN store', CatalogKey(t) \in DOMAIN w
          PROVE  store'[CatalogKey(t)].id = n
      <3>1. store'[CatalogKey(t)] = [kind |-> "schema", id |-> m, columns |-> st.columns]
        BY <2>1, <2>2, <2>4, Zenon
      <3> QED
        BY <2>2, <3>1, SMTT(30)
    <2> QED
      BY <2>1, <2>2, <2>3, <2>4, Zenon
  <1>6. /\ \A u \in Session : session'[u] = IF u = s THEN Idle
                                ELSE IF InTransaction(u) THEN [session[u] EXCEPT !.changed = @ \cup Writes(s)]
                                ELSE session[u]
        /\ started' = started
    BY Zenon DEF Commit, CommitWrites
  <1>7. ASSUME NEW u \in Session PROVE (u = s <=> session[u].pc # session'[u].pc) /\ SessionFits(session[u])'
    <2>1. CASE u = s
      <3>1. session'[u] = Idle
        BY <1>6, <2>1, Zenon
      <3>2. Idle.pc = "idle" /\ Idle.status = "ok"
        BY Zenon DEF Idle
      <3> QED
        BY <1>2, <1>5, <2>1, <3>1, <3>2, Zenon DEF SessionFits
    <2>2. CASE u # s
      <3>1. PICK y : y = session[u]
        BY Zenon
      <3>2. SessionOK(y) /\ SessionFits(y)
        BY <3>1, Zenon DEF FitInv, SqlInv
      <3>3. PICK z : z = session'[u]
        BY Zenon
      <3>4. CASE y.pc = "idle"
        BY <1>6, <2>2, <3>1, <3>2, <3>4, Zenon DEF InTransaction, SessionFits
      <3>5. CASE y.pc # "idle"
        <4>1. /\ z.pc = y.pc /\ z.snapshot = y.snapshot /\ z.st = y.st
              /\ z.pc = "executed" => z.result = y.result
          <5>1. CASE BegunSession(y)
            <6>1. z = [y EXCEPT !.changed = @ \cup Writes(s)]
              BY SMTT(30), <1>6, <2>2, <3>1, <3>3, <5>1 DEF BegunSession, InTransaction
            <6> QED
              BY <5>1, <6>1 DEF BegunSession
          <5>2. CASE ExecutedSession(y)
            <6>1. z = [y EXCEPT !.changed = @ \cup Writes(s)]
              BY SMTT(30), <1>6, <2>2, <3>1, <3>3, <5>2 DEF ExecutedSession, InTransaction
            <6> QED
              BY <5>2, <6>1, Zenon DEF ExecutedSession
          <5> QED
            BY <3>2, <3>5, <5>1, <5>2, Zenon DEF SessionOK
        <4>2. StoreFits(y.snapshot) /\ OldTables(y)
          BY <3>2, <3>5, Zenon DEF SessionFits
        <4>3. NextId(y.snapshot) \in Nat
          BY <3>2, <3>5, Zenon DEF SessionOK, BegunSession, ExecutedSession, IsStore, NextId
        <4>4. NextId(y.snapshot) <= n
          BY <1>4, <4>2, Zenon DEF OldTables
        <4>5. ASSUME NEW t \in Table, CatalogKey(t) \in DOMAIN store',
                     store'[CatalogKey(t)].id < NextId(y.snapshot)
              PROVE  /\ CatalogKey(t) \in DOMAIN y.snapshot
                     /\ y.snapshot[CatalogKey(t)] = store'[CatalogKey(t)]
          <5>1. CatalogKey(t) \notin DOMAIN w
            BY SMTT(30), <1>5, <4>3, <4>4, <4>5
          <5> QED
            BY <1>5, <4>2, <4>5, <5>1, Zenon DEF OldTables
        <4>6. NextId(y.snapshot) <= NextId(store')
          BY <1>5, <4>3, <4>4
        <4>7. SessionFits(session[u])'
          BY <3>2, <3>3, <3>5, <4>1, <4>2, <4>5, <4>6, Zenon DEF SessionFits, OldTables
        <4> QED
          BY <2>2, <3>1, <3>3, <4>1, <4>7, Zenon
      <3> QED
        BY <3>4, <3>5, Zenon
    <2> QED
      BY <2>1, <2>2, Zenon
  <1>8. s \in Busy /\ Busy' = Busy \ {s}
    <2>1. session[s].pc # "idle" /\ session'[s].pc = "idle"
      <3>1. session'[s] = Idle
        BY <1>6, Zenon
      <3>2. Idle.pc = "idle"
        BY Zenon DEF Idle
      <3>3. x.pc = "executed"
        BY <1>5, Zenon
      <3>4. session[s].pc = "executed"
        BY <1>2, <3>3, Zenon
      <3> QED
        BY <3>1, <3>2, <3>4, Zenon
    <2> QED
      BY <1>7, <2>1, Zenon DEF Busy
  <1>9. IdsSuffice'
    BY <1>4, <1>5, <1>6, <1>8, FewerBusy, Zenon
  <1> QED
    BY <1>1, <1>7, <1>9, Zenon DEF FitInv


\* The invariant is kept by every step.
LEMMA FitStep == FitInv /\ [Next]_vars => FitInv'
  <1> SUFFICES ASSUME FitInv, [Next]_vars PROVE FitInv'
    BY Zenon
  <1>1. CASE UNCHANGED vars
    <2>1. store' = store /\ session' = session /\ started' = started
      BY <1>1, Zenon DEF vars
    <2>2. SqlInv'
      BY SqlStep, Zenon DEF FitInv
    <2>3. ASSUME NEW s \in Session PROVE SessionFits(session[s])'
      <3>1. SessionFits(session[s])
        BY Zenon DEF FitInv
      <3> QED
        BY <2>1, <3>1, Zenon DEF SessionFits, OldTables
    <2>4. (StoreFits(store) /\ IdsSuffice)'
      BY <2>1, Zenon DEF FitInv, IdsSuffice, Busy
    <2> QED
      BY <2>2, <2>3, <2>4, Zenon DEF FitInv
  <1>2. CASE Next
    BY <1>2, BeginFit, RunFit, CommitFit, AbortFit, Zenon DEF Next
  <1> QED
    BY <1>1, <1>2, Zenon

\* The rows of every table, in the store and in every snapshot, fit its schema.
THEOREM FitInvHolds == Spec => []FitInv
  <1>1. Init => FitInv
    <2> SUFFICES ASSUME Init PROVE FitInv
      BY Zenon
    <2>1. DOMAIN store = {} /\ NextId(store) = 1 /\ Busy = {} /\ started = 0
      BY DEF Init, NextId, Busy, Idle
    <2>2. StoreFits(store)
      BY <2>1, Zenon DEF StoreFits
    <2>3. IdsSuffice
      BY <2>1, FS_EmptySet, BoundAssumption DEF IdsSuffice
    <2>4. \A s \in Session : SessionFits(session[s])
      BY Zenon DEF Init, Idle, SessionFits
    <2> QED
      BY <2>2, <2>3, <2>4, InitInv, Zenon DEF FitInv
  <1> QED
    BY <1>1, FitStep, PTL DEF Spec

\* Everything in the store is under a key of its kind, and a row under the key that
\* its own primary key encodes to, for any clients, tables and statements
\* (Execute(InsertStmt), Execute(UpdateStmt), RowKey).
THEOREM KeysAlwaysMatchRows == Spec => []KeysMatchRows
  <1>1. FitInv => KeysMatchRows
    <2> SUFFICES ASSUME FitInv PROVE KeysMatchRows
      BY Zenon
    <2>1. IsStore(store) /\ StoreFits(store)
      BY Zenon DEF FitInv, SqlInv
    <2>2. NextId(store) \in Nat /\ NextId(store) <= MaxStatements + 1 /\ MaxStatements \in Nat
      <3>1. Cardinality(Busy) \in Nat
        BY FS_CardinalityType, Zenon DEF FitInv, IdsSuffice
      <3> QED
        BY SMTT(30), <2>1, <3>1, BoundAssumption DEF FitInv, IdsSuffice, IsStore, NextId
    <2>3. ASSUME NEW k \in DOMAIN store
          PROVE  \/ k = NextTableIdKey /\ store[k].kind = "next" /\ store[k].id \in Nat
                 \/ k \in {CatalogKey(t) : t \in Table} /\ store[k].kind = "schema" /\ store[k].id \in Id
                 \/ k \in UNION {RowKeys(id) : id \in Id} /\ store[k].kind = "row"
      <3>1. CASE k = NextTableIdKey
        BY <2>1, <3>1, Zenon DEF IsStore, StoreFits
      <3>2. ASSUME NEW t \in Table, k = CatalogKey(t)
            PROVE  store[k].kind = "schema" /\ store[k].id \in Id
        BY <2>1, <2>2, <3>2 DEF StoreFits, SchemaFits, Id
      <3>3. ASSUME NEW id \in Nat, k.fixed = TablePrefix(id).fixed
            PROVE  k \in UNION {RowKeys(j) : j \in Id} /\ store[k].kind = "row"
        <4>1. id \in Id /\ store[k].kind = "row"
          BY SMTT(30), <2>1, <2>2, <3>3 DEF StoreFits, Id
        <4>2. k \in RowKeys(id)
          BY <3>3, Zenon DEF RowKeys
        <4> QED
          BY <4>1, <4>2, Zenon
      <3>4. IsKey(k)
        BY <2>1, Zenon DEF IsStore
      <3> QED
        BY <3>1, <3>2, <3>3, <3>4, Zenon DEF IsKey
    <2>4. TypeOK
      BY <2>3 DEF TypeOK, FitInv, SqlInv, SessionOK, BegunSession, ExecutedSession
    <2>5. ASSUME NEW c \in Schemas, NEW k \in RowKeys(c.id)
          PROVE  k = RowKey(c.id, store[k].row[PkIndex(c.columns)])
      <3>1. SchemaFits(store, c)
        BY <2>1, Zenon DEF Schemas, StoreFits
      <3> QED
        BY <3>1, Zenon DEF RowKeys, SchemaFits, RowFits
    <2> QED
      BY <2>4, <2>5, Zenon DEF KeysMatchRows
  <1> QED
    BY <1>1, FitInvHolds, PTL

\* No statement comes across a row that does not fit the schema it has loaded, for
\* any clients that create, drop and fill tables side by side (FetchRows, DecodeRow).
THEOREM NoCorruption == Spec => []NothingIsCorrupt
  <1>1. FitInv => NothingIsCorrupt
    BY Zenon DEF FitInv, SessionFits, NothingIsCorrupt
  <1> QED
    BY <1>1, FitInvHolds, PTL

=============================================================================
