-------------------------------- MODULE Sql --------------------------------
(***************************************************************************)
(* The SQL layer of FlotillaDB (src/sql/): tables, rows and their keys in  *)
(* the transactional key space, and the statements that concurrent clients *)
(* execute, each in a transaction of its own (src/client/txn_client.cc).   *)
(*                                                                         *)
(* Transactions are taken at their word (module SnapshotIsolation): a      *)
(* statement reads the store as it was at Begin, and it commits in one     *)
(* step unless somebody has since committed to a key that it writes.  How  *)
(* locks, records and messages bring this about, and where a commit that   *)
(* times out falls short of it, is in Percolator.                          *)
(*                                                                         *)
(* A key is a string of bytes, in two parts: one of fixed length, and the  *)
(* encoded primary key.  A table id is one byte; an INT has Width bytes    *)
(* that are one bit wide (module Codec).                                   *)
(***************************************************************************)
EXTENDS Codec, Integers, FiniteSets, Functions

CONSTANTS
    Session,             \* the clients
    Table,               \* the names of tables, numbers
    Statement,           \* the statements that the parser lets through
    MaxStatements        \* bound: the statements of a behaviour

\* Parse returns one of the six kinds of statements; a CREATE TABLE has a list of
\* columns with a primary key, and an INSERT has finitely many rows.
ASSUME StatementAssumption ==
    \A st \in Statement :
        /\ st.op \in {"create", "drop", "insert", "select", "update", "delete"}
        /\ st.table \in Table
        /\ st.op = "create" => /\ Len(st.columns) \in Nat
                               /\ DOMAIN st.columns = 1..Len(st.columns)
                               /\ \E i \in DOMAIN st.columns : st.columns[i].pk
        /\ st.op = "insert" => IsFiniteSet(DOMAIN st.rows)
ASSUME BoundAssumption == MaxStatements \in Nat

VARIABLES
    store,         \* what has been committed: a function on the keys that are there
    session,       \* the statements that are being executed
    ledger,        \* history: what the statements that committed have counted
    started        \* history: how many statements have begun

vars == <<store, session, ledger, started>>

Id == 1..MaxStatements

-----------------------------------------------------------------------------
(* Catalog: keys and their order. *)

\* The order of user keys, which is that of the engine (WriteKeysAreOrdered).
KeyBelow(j, k) ==
    \/ Below(j.fixed, k.fixed)
    \/ j.fixed = k.fixed /\ Below(j.pk, k.pk)

\* "__cat/" and the name, "__cat_next_id", "t" and the id and "r".
CatalogKey(t) == [fixed |-> <<1, t>>, pk |-> <<>>]
NextTableIdKey == [fixed |-> <<2>>, pk |-> <<>>]
TablePrefix(id) == [fixed |-> <<3, id, 1>>, pk |-> <<>>]

\* Mutant: the first byte plus one.
TableEndOfAll(id) == [fixed |-> <<4>>, pk |-> <<>>]

\* FetchRows: the last byte of the prefix plus one.
TableEnd(id) == [fixed |-> <<3, id, 2>>, pk |-> <<>>]

\* Mutant: the sign bit is left as it is.
EncodePkValueUnsigned(v) ==
    IF v.type = "int" THEN BigEndian(v.is % 2^Width) ELSE v.is

\* EncodePkValue: an INT is cast to unsigned and its sign bit flipped, a TEXT is
\* its bytes.
EncodePkValue(v) ==
    LET bits == v.is % 2^Width
        sign == 2^(Width - 1)
    IN  IF v.type = "int"
        THEN BigEndian(IF bits >= sign THEN bits - sign ELSE bits + sign)
        ELSE v.is

RowKey(id, pk) == [TablePrefix(id) EXCEPT !.pk = EncodePkValue(pk)]

ColumnIndex(columns, name) ==
    LET at == {i \in DOMAIN columns : columns[i].name = name}
    IN  IF at = {} THEN 0 ELSE CHOOSE i \in at : \A j \in at : i <= j
PkIndex(columns) == CHOOSE i \in DOMAIN columns : columns[i].pk

-----------------------------------------------------------------------------
(* Transactions: the calls of client::Txn on the record of a session. *)

NotFound == [kind |-> "none"]
NoWrites == <<>>

Buffer(x, k, v) ==
    [x EXCEPT !.mutations = [j \in DOMAIN @ \cup {k} |-> IF j = k THEN v ELSE @[j]]]

\* Get looks into the buffered writes first.
Get(x, k) ==
    IF k \in DOMAIN x.mutations THEN x.mutations[k]
    ELSE IF k \in DOMAIN x.snapshot THEN x.snapshot[k] ELSE NotFound

\* Scan, with the buffered writes laid over the snapshot.  The keys come in the
\* order of the engine.
Scan(x, from, to) ==
    {k \in DOMAIN x.snapshot \cup DOMAIN x.mutations :
        ~KeyBelow(k, from) /\ KeyBelow(k, to) /\ Get(x, k) # NotFound}

-----------------------------------------------------------------------------
(* Statements.  What a statement comes to: an error, or the writes it has
   buffered, the rows it returns or changes, by key, and the id of its table. *)

Invalid == [status |-> "invalid", mutations |-> NoWrites, rows |-> {}, id |-> 0]
Corruption == [Invalid EXCEPT !.status = "corruption"]
Done(x, rows, id) == [status |-> "ok", mutations |-> x.mutations, rows |-> rows, id |-> id]

Less(v, w) == IF v.type = "int" THEN v.is < w.is ELSE Below(v.is, w.is)

Matches(p, v) ==
    /\ v.type = p.literal.type
    /\ CASE p.op = "="  -> v = p.literal
         [] p.op = "!=" -> v # p.literal
         [] p.op = "<"  -> Less(v, p.literal)
         [] p.op = "<=" -> ~Less(p.literal, v)
         [] p.op = ">"  -> Less(p.literal, v)
         [] p.op = ">=" -> ~Less(v, p.literal)

Assignable(columns, name, v) ==
    LET i == ColumnIndex(columns, name) IN i # 0 /\ columns[i].type = v.type

CheckWhere(columns, where) == \A p \in where : Assignable(columns, p.column, p.literal)
RowMatches(columns, where, row) ==
    \A p \in where : Matches(p, row[ColumnIndex(columns, p.column)])

\* The values the WHERE clause pins the primary key to.
PointLookup(columns, where) ==
    {p.literal : p \in {q \in where : q.op = "=" /\ ColumnIndex(columns, q.column) = PkIndex(columns)}}

\* The keys of the rows that FetchRows reads: one Get, or a scan of the table.
RowsToRead(x, schema, where) ==
    LET pinned == PointLookup(schema.columns, where)
        key == RowKey(schema.id, CHOOSE v \in pinned : TRUE)
    IN  IF pinned = {} THEN Scan(x, TablePrefix(schema.id), TableEnd(schema.id))
        ELSE {k \in {key} : Get(x, k) # NotFound}

DecodeRow(schema, row) == Len(row) = Len(schema.columns)

\* The keys of the rows that FetchRows returns.
Fetched(x, schema, where) ==
    {k \in RowsToRead(x, schema, where) : RowMatches(schema.columns, where, Get(x, k).row)}

\* FetchRows fails, or the statement goes on to its result.
FetchRows(x, schema, where, result) ==
    IF ~CheckWhere(schema.columns, where) THEN Invalid
    ELSE IF \E k \in RowsToRead(x, schema, where) : ~DecodeRow(schema, Get(x, k).row) THEN Corruption
    ELSE result

\* Mutant: the next id is read and not written.
CreateTableSameId(x, st) ==
    LET next == Get(x, NextTableIdKey)
        id == IF next = NotFound THEN 1 ELSE next.id
        schema == [kind |-> "schema", id |-> id, columns |-> st.columns]
    IN  IF Get(x, CatalogKey(st.table)) # NotFound THEN Invalid
        ELSE Done(Buffer(x, CatalogKey(st.table), schema), {}, id)

CreateTable(x, st) ==
    LET next == Get(x, NextTableIdKey)
        id == IF next = NotFound THEN 1 ELSE next.id
        schema == [kind |-> "schema", id |-> id, columns |-> st.columns]
    IN  IF Get(x, CatalogKey(st.table)) # NotFound THEN Invalid
        ELSE Done(Buffer(Buffer(x, NextTableIdKey, [kind |-> "next", id |-> id + 1]),
                         CatalogKey(st.table), schema), {}, id)

\* The buffered writes that delete some rows.
Deleted(x, keys) ==
    [x EXCEPT !.mutations = [k \in DOMAIN @ \cup keys |-> IF k \in keys THEN NotFound ELSE @[k]]]

DropTable(x, schema, st) ==
    LET keys == Fetched(x, schema, {})
    IN  FetchRows(x, schema, {},
            Done(Buffer(Deleted(x, keys), CatalogKey(st.table), NotFound), keys, schema.id))

\* The row of a list of literals: the column list maps them to columns, the last
\* one counts, and a column that is not named keeps the value 0.
RowOf(schema, names, literals) ==
    [i \in DOMAIN schema.columns |->
        LET from == IF names = <<>> THEN {i}
                    ELSE {j \in DOMAIN names : ColumnIndex(schema.columns, names[j]) = i}
        IN  IF from = {} THEN [type |-> "int", is |-> 0]
            ELSE literals[CHOOSE j \in from : \A h \in from : h <= j]]

Insert(x, schema, st) ==
    LET columns == schema.columns
        names == IF st.columns = <<>> THEN [i \in DOMAIN columns |-> columns[i].name] ELSE st.columns
        row == [r \in DOMAIN st.rows |-> RowOf(schema, st.columns, st.rows[r])]
        key == [r \in DOMAIN st.rows |-> RowKey(schema.id, row[r][PkIndex(columns)])]
        RowAt(k) == row[CHOOSE r \in DOMAIN key : key[r] = k]
    IN  IF \/ Len(names) # Len(columns)
           \/ \E r \in DOMAIN st.rows : Len(st.rows[r]) # Len(columns)
           \/ \E r \in DOMAIN st.rows, j \in DOMAIN names :
                 ~Assignable(columns, names[j], st.rows[r][j])
           \/ \E r \in DOMAIN key : Get(x, key[r]) # NotFound
           \/ \E r, q \in DOMAIN key : r # q /\ key[r] = key[q]
        THEN Invalid
        ELSE Done([x EXCEPT !.mutations = [k \in Range(key) |-> [kind |-> "row", row |-> RowAt(k)]]],
                  Range(key), schema.id)

Select(x, schema, st) ==
    IF \E i \in DOMAIN st.columns : ColumnIndex(schema.columns, st.columns[i]) = 0 THEN Invalid
    ELSE FetchRows(x, schema, st.where, Done(x, Fetched(x, schema, st.where), schema.id))

\* The row with the assignments of SET, the last one to a column counts.
Assigned(schema, sets, row) ==
    [i \in DOMAIN row |->
        LET by == {j \in DOMAIN sets : ColumnIndex(schema.columns, sets[j].column) = i}
        IN  IF by = {} THEN row[i] ELSE sets[CHOOSE j \in by : \A h \in by : h <= j].value]

UpdateRows(x, schema, st) ==
    LET keys == Fetched(x, schema, st.where)
        rows == [k \in keys |->
                    [kind |-> "row", row |-> Assigned(schema, st.sets, Get(x, k).row)]]
    IN  FetchRows(x, schema, st.where, Done([x EXCEPT !.mutations = rows], keys, schema.id))

\* Mutant: the primary key may be set.
UpdateAnything(x, schema, st) ==
    IF \E j \in DOMAIN st.sets : ~Assignable(schema.columns, st.sets[j].column, st.sets[j].value)
    THEN Invalid ELSE UpdateRows(x, schema, st)

Update(x, schema, st) ==
    IF \E j \in DOMAIN st.sets :
          \/ ~Assignable(schema.columns, st.sets[j].column, st.sets[j].value)
          \/ ColumnIndex(schema.columns, st.sets[j].column) = PkIndex(schema.columns)
    THEN Invalid ELSE UpdateRows(x, schema, st)

Delete(x, schema, st) ==
    LET keys == Fetched(x, schema, st.where)
    IN  FetchRows(x, schema, st.where, Done(Deleted(x, keys), keys, schema.id))

\* Executor::Run; all but CREATE load the schema first.
Execute(x, st) ==
    LET schema == Get(x, CatalogKey(st.table)) IN
    IF st.op = "create" THEN CreateTable(x, st)
    ELSE IF schema = NotFound THEN Invalid
    ELSE CASE st.op = "drop"   -> DropTable(x, schema, st)
           [] st.op = "insert" -> Insert(x, schema, st)
           [] st.op = "select" -> Select(x, schema, st)
           [] st.op = "update" -> Update(x, schema, st)
           [] st.op = "delete" -> Delete(x, schema, st)

-----------------------------------------------------------------------------
(* Sessions. *)

Idle == [pc |-> "idle", status |-> "ok"]

Writes(s) == DOMAIN session[s].result.mutations
InTransaction(s) == session[s].pc \in {"begun", "executed"}

\* Begin takes the snapshot.  changed is what others commit from then on.
Begin(s, st) ==
    /\ session[s].pc = "idle"
    /\ started < MaxStatements
    /\ session' = [session EXCEPT ![s] =
                      [pc |-> "begun", st |-> st, snapshot |-> store, mutations |-> NoWrites,
                       changed |-> {}]]
    /\ started' = started + 1
    /\ UNCHANGED <<store, ledger>>

\* The executor runs on the snapshot.  After an error the transaction is rolled
\* back, and nothing of it is left.
Run(s) ==
    LET x == session[s]
        r == Execute(x, x.st)
    IN  /\ x.pc = "begun"
        /\ session' = [session EXCEPT ![s] =
                          IF r.status = "ok"
                          THEN [pc |-> "executed", st |-> x.st, snapshot |-> x.snapshot,
                                changed |-> x.changed, result |-> r]
                          ELSE [pc |-> "idle", status |-> r.status]]
        /\ UNCHANGED <<store, ledger, started>>

After(old, mutations) ==
    LET there == {k \in DOMAIN old \cup DOMAIN mutations :
                     k \in DOMAIN mutations => mutations[k] # NotFound}
    IN  [k \in there |-> IF k \in DOMAIN mutations THEN mutations[k] ELSE old[k]]

Noted(st, r) ==
    CASE st.op = "create" -> [ledger EXCEPT !.tables[st.table] = @ + 1, !.created[r.id] = @ + 1]
      [] st.op = "drop"   -> [ledger EXCEPT !.tables[st.table] = @ - 1, !.rows[r.id] = @ - Cardinality(r.rows)]
      [] st.op = "insert" -> [ledger EXCEPT !.rows[r.id] = @ + Cardinality(r.rows)]
      [] st.op = "delete" -> [ledger EXCEPT !.rows[r.id] = @ - Cardinality(r.rows)]
      [] OTHER            -> ledger

CommitWrites(s) ==
    /\ session[s].pc = "executed"
    /\ store' = After(store, session[s].result.mutations)
    /\ ledger' = Noted(session[s].st, session[s].result)
    /\ session' = [u \in Session |->
                      IF u = s THEN Idle
                      ELSE IF InTransaction(u) THEN [session[u] EXCEPT !.changed = @ \cup Writes(s)]
                      ELSE session[u]]
    /\ UNCHANGED started

\* Mutant: a deletion of rows conflicts with nobody.
CommitOverRows(s) ==
    /\ CommitWrites(s)
    /\ Writes(s) \cap session[s].changed \subseteq session[s].result.rows

\* Mutant: an entry of the catalog conflicts with nobody.
CommitOverCatalog(s) ==
    /\ CommitWrites(s)
    /\ Writes(s) \cap session[s].changed \subseteq {CatalogKey(t) : t \in Table}

\* Commit: nobody has committed to a key of the statement since it began.  The
\* client may hear of it or may be told of a timeout.
Commit(s) ==
    /\ CommitWrites(s)
    /\ Writes(s) \cap session[s].changed = {}

\* The statement ends with Conflict, or because a server does not answer or a
\* lock is not resolved in time.
Abort(s) ==
    /\ InTransaction(s)
    /\ session' = [session EXCEPT ![s] = [Idle EXCEPT !.status = "aborted"]]
    /\ UNCHANGED <<store, ledger, started>>

Init ==
    /\ store = <<>>
    /\ session = [s \in Session |-> Idle]
    /\ ledger = [tables |-> [t \in Table |-> 0], created |-> [id \in Id |-> 0],
                 rows |-> [id \in Id |-> 0]]
    /\ started = 0

Next ==
    \/ \E s \in Session, st \in Statement : Begin(s, st)
    \/ \E s \in Session : Run(s) \/ Commit(s) \/ Abort(s)

Spec == Init /\ [][Next]_vars

-----------------------------------------------------------------------------
(* Properties. *)

RowKeys(id) == {k \in DOMAIN store : k.fixed = TablePrefix(id).fixed}
Schemas == {store[CatalogKey(t)] : t \in {u \in Table : CatalogKey(u) \in DOMAIN store}}

\* The store holds the next id, schemas and rows, each under keys of their own, and
\* nothing that was deleted.
TypeOK ==
    /\ \A k \in DOMAIN store :
          \/ k = NextTableIdKey /\ store[k].kind = "next" /\ store[k].id \in Nat
          \/ k \in {CatalogKey(t) : t \in Table} /\ store[k].kind = "schema" /\ store[k].id \in Id
          \/ k \in UNION {RowKeys(id) : id \in Id} /\ store[k].kind = "row"
    /\ \A s \in Session : session[s].pc \in {"idle", "begun", "executed"}

\* No two tables that were ever created, side by side or one after the other, have
\* the same id, so that rows of one never turn up in another
\* (Execute(CreateTableStmt), Txn::Commit).
IdsAreNeverReused ==
    \A id \in Id : ledger.created[id] <= 1

\* A name has been created once more than dropped exactly while it is in the
\* catalog: of two CREATEs or two DROPs that ran side by side one was refused
\* (docs/sql.md: "a concurrent CREATE of the same name loses the write-write
\* conflict").
TablesAddUp ==
    \A t \in Table : ledger.tables[t] = IF CatalogKey(t) \in DOMAIN store THEN 1 ELSE 0

\* The rows that statements count as inserted, less those counted as deleted or
\* dropped, are the rows in the store: no statement counts a row that another one
\* has taken, even where an INSERT has outlived its table (affected, Txn::Commit).
RowsAddUp ==
    \A id \in Id : ledger.rows[id] = Cardinality(RowKeys(id))

\* Everything in the store is under a key of its kind, and a row under the key that
\* its own primary key encodes to, so that a point lookup finds what a scan shows
\* (Execute(InsertStmt), Execute(UpdateStmt), RowKey).
KeysMatchRows ==
    /\ TypeOK
    /\ \A c \in Schemas : \A k \in RowKeys(c.id) :
          k = RowKey(c.id, store[k].row[PkIndex(c.columns)])

\* No statement comes across a row that does not fit the schema it has loaded,
\* whatever tables of the same name there were before (FetchRows, DecodeRow).
NothingIsCorrupt ==
    \A s \in Session : session[s].pc = "idle" => session[s].status # "corruption"

\* The order of the engine, in which a scan returns rows, is the order of their
\* primary keys (EncodePkValue; docs/sql.md: "rows come back in primary-key
\* order").
RowsInKeyOrder ==
    \A s \in Session : session[s].pc = "executed" /\ session[s].st.op = "select" =>
        LET x == session[s]
            Pk(k) == x.snapshot[k].row[PkIndex(x.snapshot[CatalogKey(x.st.table)].columns)]
        IN  \A j, k \in x.result.rows : KeyBelow(j, k) <=> Less(Pk(j), Pk(k))

\* Write records lie in the order of user keys that this module assumes of the
\* engine, whatever bytes a key has (EscapeKey, WriteKey, ParseWriteKey, TxnScan).
\* It is about functions alone: one state, before any statement, decides it.
WriteKeysAreOrdered == started = 0 => OrdersWriteKeys

=============================================================================
