----------------------------- MODULE SqliteBack -----------------------------
(***************************************************************************)
(* SqliteBack, one call on the database at a time.  Notify writes the rows *)
(* it is handed in a transaction; on the way it creates tables, enters     *)
(* their fields in FieldTypes, and prepares an INSERT for each table.  Any *)
(* of these may throw, and the program may end between any two of them and *)
(* open the file again.  SQLite itself is external: a connection's changes *)
(* are seen by others when its transaction ends, and are undone when it    *)
(* goes away before.  Any statement may fail (disk full, an I/O error, the *)
(* lock of another connection); SQLite undoes the statement then, or the   *)
(* whole transaction.                                                      *)
(*                                                                         *)
(* A Datum is its title and the types of its values; the type "odd" is one *)
(* that type_map lacks.  Field names are places.  A stored row is the      *)
(* number of its Datum and the types its values were bound as.             *)
(***************************************************************************)
EXTENDS Integers, Sequences, FiniteSets

CONSTANTS
    Titles,    \* the titles of data
    Shapes,    \* the types of the values of a Datum: sequences of type names
    MaxBatch,  \* bound: rows handed over in one call
    MaxRows,   \* bound: rows handed over
    MaxOpens   \* bound: how often the file is opened

ASSUME SqliteBackAssumption ==
    /\ \A s \in Shapes : s \in Seq(STRING) /\ s # << >>
    /\ {MaxBatch, MaxRows, MaxOpens} \subseteq Nat

VARIABLES
    disk,     \* the database as others see it
    live,     \* the database as the connection sees it
    txn,      \* the connection has a transaction open
    lock,     \* a connection that was not closed holds the write lock
    names,    \* tbl_names_
    stmts,    \* stmts_ with schemas_ (NoStmt: no entry)
    batch,    \* the data of the running Notify
    pos,      \* the Datum it is at
    pc,       \* what it does next; "down": there is no back end
    handed,   \* history: rows handed over in calls that are over
    acked,    \* history: rows whose call returned normally
    source,   \* history: the Datum of each row
    misused,  \* history: titles used with an odd type or with changing types
    failed,   \* history: a statement has failed since the file was opened
    opens     \* number of opens

connection == <<txn, lock, names, stmts>>
history    == <<handed, acked, source, misused, failed, opens>>
vars       == <<disk, live, connection, batch, pos, pc, history>>

Datum  == [title : Titles, vals : Shapes]
NoStmt == << >>
Odd(d) == \E i \in DOMAIN d.vals : d.vals[i] = "odd"

\* cols: the columns of a table (none: no table); types: its rows in
\* FieldTypes; rows: its rows.
Empty == [cols |-> << >>, types |-> << >>, rows |-> << >>]
Db    == [Titles -> [cols : Seq(STRING), types : Seq(STRING),
                     rows : Seq([row : Nat, vals : Seq(STRING)])]]

Init ==
    /\ disk = [t \in Titles |-> Empty] /\ live = disk
    /\ txn = FALSE /\ lock = FALSE
    /\ names = {} /\ stmts = [t \in Titles |-> NoStmt]
    /\ batch = << >> /\ pos = 0 /\ pc = "down"
    /\ handed = 0 /\ acked = {} /\ source = << >> /\ misused = {} /\ failed = FALSE
    /\ opens = 0

\* The constructor.
Open ==
    /\ pc = "down" /\ opens < MaxOpens
    /\ names' = {t \in Titles : disk[t].cols # << >>}
    /\ stmts' = [t \in Titles |-> NoStmt]
    /\ live' = disk /\ txn' = FALSE
    /\ pc' = "idle" /\ opens' = opens + 1 /\ failed' = FALSE
    /\ UNCHANGED <<disk, lock, batch, pos, handed, acked, source, misused>>

datum == batch[pos]
tbl   == datum.title

\* Mutant: a transaction that is open is joined.
NotifyJoins(b) ==
    /\ pc = "idle"
    /\ Len(source) + Len(b) <= MaxRows
    /\ source' = source \o b
    /\ batch' = b /\ pos' = 1 /\ pc' = "table" /\ txn' = TRUE
    /\ UNCHANGED <<disk, live, lock, names, stmts, handed, acked, misused, failed, opens>>

(***************************************************************************)
(* Notify up to the first Datum.  BEGIN fails in a transaction, and may    *)
(* fail outside of one; the call is over with an IOError.                  *)
(***************************************************************************)
Notify(b) ==
    /\ pc = "idle"
    /\ Len(source) + Len(b) <= MaxRows
    /\ source' = source \o b
    /\ \/ /\ handed' = handed + Len(b)
          /\ UNCHANGED <<batch, pos, pc, txn>>
       \/ /\ ~ txn
          /\ batch' = b /\ pos' = 1 /\ pc' = "table" /\ txn' = TRUE
          /\ UNCHANGED handed
    /\ UNCHANGED <<disk, live, lock, names, stmts, acked, misused, failed, opens>>

Running(at) == pc = at /\ pos <= Len(batch)

\* A Datum that differs from what its table or its statement was made for.
Deviates(db) ==
    Odd(datum) \/ \E x \in {db[tbl].cols, stmts[tbl]} : x # << >> /\ x # datum.vals

Misuse == misused' = IF Deviates(live) THEN misused \cup {tbl} ELSE misused

\* A statement fails when the connection's database is db: an IOError.
Fails(db) ==
    /\ pc' = "IOError" /\ failed' = TRUE
    /\ \/ live' = db /\ UNCHANGED txn
       \/ live' = disk /\ txn' = FALSE

\* The supported types before the first odd one.
BeforeOdd(s) ==
    SubSeq(s, 1, CHOOSE n \in 0..Len(s) : /\ \A i \in 1..n : s[i] # "odd"
                                          /\ n = Len(s) \/ s[n + 1] = "odd")

\* Mutant: the fields are entered for the first Datum of every session.
CreateTableAgain ==
    /\ Running("table")
    /\ names' = names \cup {tbl}
    /\ \/ /\ stmts[tbl] # NoStmt
          /\ pc' = "stmt" /\ UNCHANGED live
       \/ /\ stmts[tbl] = NoStmt
          /\ live' = [live EXCEPT ![tbl].types = @ \o BeforeOdd(datum.vals),
                                  ![tbl].cols = IF Odd(datum) THEN @ ELSE datum.vals]
          /\ pc' = IF Odd(datum) THEN "ValueError" ELSE "stmt"
    /\ Misuse
    /\ UNCHANGED <<disk, txn, lock, stmts, batch, pos, handed, acked, source, failed, opens>>

(***************************************************************************)
(* CreateTable, if tbl_names_ lacks the title.  The name is entered first, *)
(* then the fields one by one, then the table is created; Type throws a    *)
(* ValueError at the first odd value.  After n fields the next statement   *)
(* may fail; tbl_names_ keeps the name.                                    *)
(***************************************************************************)
CreateTable ==
    /\ Running("table")
    /\ names' = names \cup {tbl}
    /\ \/ /\ tbl \in names
          /\ pc' = "stmt"
          /\ UNCHANGED <<live, txn, failed>>
       \/ /\ tbl \notin names
          /\ \E n \in 0..Len(datum.vals) :
                /\ \A i \in DOMAIN datum.vals : i <= n + 1 => datum.vals[i] # "odd"
                /\ lock => n = 0
                /\ Fails([live EXCEPT ![tbl].types = @ \o SubSeq(datum.vals, 1, n)])
       \/ /\ tbl \notin names /\ Odd(datum) /\ (lock => datum.vals[1] = "odd")
          /\ live' = [live EXCEPT ![tbl].types = @ \o BeforeOdd(datum.vals)]
          /\ pc' = "ValueError"
          /\ UNCHANGED <<txn, failed>>
       \/ /\ tbl \notin names /\ ~ lock /\ ~ Odd(datum)
          /\ live' = [live EXCEPT ![tbl].types = @ \o datum.vals, ![tbl].cols = datum.vals]
          /\ pc' = "stmt"
          /\ UNCHANGED <<txn, failed>>
    /\ Misuse
    /\ UNCHANGED <<disk, lock, stmts, batch, pos, handed, acked, source, opens>>

(***************************************************************************)
(* BuildStmt, if there is no statement for the title: its schema is that   *)
(* of this Datum.  Preparing fails when the table does not exist or has    *)
(* another number of columns.  An entry of stmts_ that the failed call has *)
(* made without a statement ends the program where it is used: a Crash.    *)
(***************************************************************************)
BuildStmt ==
    /\ Running("stmt")
    /\ \/ /\ stmts[tbl] # NoStmt
          /\ pc' = "write"
          /\ UNCHANGED <<live, txn, stmts, failed>>
       \/ /\ stmts[tbl] = NoStmt /\ Odd(datum)
          /\ pc' = "ValueError"
          /\ UNCHANGED <<live, txn, stmts, failed>>
       \/ /\ stmts[tbl] = NoStmt /\ ~ Odd(datum) /\ Len(live[tbl].cols) # Len(datum.vals)
          /\ pc' = "IOError"
          /\ UNCHANGED <<live, txn, stmts, failed>>
       \/ /\ stmts[tbl] = NoStmt /\ ~ Odd(datum) /\ Len(live[tbl].cols) = Len(datum.vals)
          /\ stmts' = [stmts EXCEPT ![tbl] = datum.vals]
          /\ pc' = "write"
          /\ UNCHANGED <<live, txn, failed>>
       \/ /\ stmts[tbl] = NoStmt /\ ~ Odd(datum)
          /\ Fails(live)
          /\ UNCHANGED stmts
    /\ UNCHANGED <<disk, lock, names, batch, pos, handed, acked, source, misused, opens>>

(***************************************************************************)
(* WriteDatum.  A value of another type than its place in the schema is a  *)
(* bad cast.  A value beyond the schema is bound by what lies behind the   *)
(* end of the vector: as no type, or as some type at a place the statement *)
(* does not have.  Missing values are stored as NULL.  The statement fails *)
(* at a lock, and when the table was undone.                               *)
(***************************************************************************)
WriteDatum ==
    LET schema == stmts[tbl]
        fits   == \A i \in DOMAIN datum.vals \cap DOMAIN schema : datum.vals[i] = schema[i]
    IN  /\ Running("write")
        /\ \/ /\ fits /\ Len(datum.vals) <= Len(schema)
              /\ ~ lock /\ live[tbl].cols # << >>
              /\ live' = [live EXCEPT ![tbl].rows =
                              Append(@, [row |-> handed + pos, vals |-> datum.vals])]
              /\ pos' = pos + 1 /\ pc' = "table"
              /\ UNCHANGED <<txn, failed>>
           \/ /\ ~ fits \/ Len(datum.vals) > Len(schema)
              /\ pc' = "other"
              /\ UNCHANGED <<live, txn, pos, failed>>
           \/ /\ fits /\ Len(datum.vals) > Len(schema)
              /\ pc' = "ValueError"
              /\ UNCHANGED <<live, txn, pos, failed>>
           \/ /\ Fails(live)
              /\ UNCHANGED pos
        /\ UNCHANGED <<disk, lock, names, stmts, batch, handed, acked, source, misused, opens>>

Over ==
    /\ handed' = handed + Len(batch)
    /\ batch' = << >> /\ pos' = 0 /\ pc' = "idle"
    /\ UNCHANGED <<live, lock, names, stmts, source, misused, failed, opens>>

\* END TRANSACTION, after which the call is over, or which fails.
EndTransaction(rows) ==
    \/ /\ disk' = live /\ txn' = FALSE
       /\ acked' = acked \cup rows
       /\ Over
    \/ /\ Fails(live)
       /\ UNCHANGED <<disk, lock, names, stmts, batch, pos, handed, acked, source, misused, opens>>

\* After the last Datum.
End ==
    /\ pc = "table" /\ pos = Len(batch) + 1
    /\ EndTransaction((handed + 1)..(handed + Len(batch)))

\* Mutant: the exception is swallowed.
CatchSwallows ==
    /\ pc = "ValueError"
    /\ EndTransaction((handed + 1)..(handed + Len(batch)))

\* The handler of Notify: what was written so far is committed.
Catch ==
    /\ pc = "ValueError"
    /\ EndTransaction({})

\* Any other exception leaves Notify; its transaction stays open, unless undone.
Throw ==
    /\ pc \in {"IOError", "other"}
    /\ UNCHANGED <<disk, txn, acked>>
    /\ Over

(***************************************************************************)
(* The destructor.  Statements that are alive keep the connection from     *)
(* being closed; nobody closes it later.                                   *)
(***************************************************************************)
Close ==
    /\ pc = "idle"
    /\ lock' = (lock \/ (txn /\ \E s \in Titles : stmts[s] # NoStmt))
    /\ live' = disk /\ txn' = FALSE /\ names' = {}
    /\ stmts' = [s \in Titles |-> NoStmt]
    /\ pc' = "down"
    /\ UNCHANGED <<disk, batch, pos, history>>

(***************************************************************************)
(* The program ends, in a call or between two.  The journal is kept in     *)
(* memory and writes are not synchronized, so this takes it that nothing   *)
(* of an open transaction has reached the file, and all of an ended one.   *)
(***************************************************************************)
Crash ==
    /\ handed' = handed + Len(batch)
    /\ live' = disk /\ txn' = FALSE /\ lock' = FALSE
    /\ names' = {} /\ stmts' = [s \in Titles |-> NoStmt]
    /\ batch' = << >> /\ pos' = 0 /\ pc' = "down"
    /\ pc # "down" \/ lock
    /\ UNCHANGED <<disk, acked, source, misused, failed, opens>>

Batches == UNION {[1..n -> Datum] : n \in 1..MaxBatch}

Next ==
    \/ Open \/ (\E b \in Batches : Notify(b))
    \/ CreateTable \/ BuildStmt \/ WriteDatum
    \/ End \/ Catch \/ Throw \/ Close \/ Crash

Spec == Init /\ [][Next]_vars
-----------------------------------------------------------------------------
(***************************************************************************)
(* Query of the whole table: the fields are those of FieldTypes, and each  *)
(* column of a row is read as its field's type.  An odd number of fields   *)
(* or a value of another type reads as something else.                     *)
(***************************************************************************)
Query(db, s) ==
    [k \in DOMAIN db[s].rows |->
       [row |-> db[s].rows[k].row, right |-> db[s].rows[k].vals = db[s].types]]

\* Types.
TypeOK ==
    /\ disk \in Db /\ live \in Db /\ txn \in BOOLEAN /\ lock \in BOOLEAN /\ failed \in BOOLEAN
    /\ names \subseteq Titles /\ misused \subseteq Titles
    /\ stmts \in [Titles -> Seq(STRING)] /\ handed \in Nat
    /\ batch \in Seq(Datum) /\ source \in Seq(Datum)
    /\ handed + Len(batch) = Len(source) /\ acked \subseteq 1..handed
    /\ pos \in 0..(Len(batch) + 1)
    /\ pc \in {"down", "idle", "table", "stmt", "write", "ValueError", "IOError", "other"}

(***************************************************************************)
(* Whoever opens the file finds every row whose Notify returned in the     *)
(* table of its title, once, in the order of delivery and with its values, *)
(* the values as long as every Datum of that title had the same supported  *)
(* types: no failed call, close, crash that undoes the open transaction,   *)
(* or reopening loses, doubles or garbles one.                             *)
(***************************************************************************)
ReadsBack ==
    \A s \in Titles :
       LET q == Query(disk, s)
       IN  /\ \A r \in acked : source[r].title = s => \E k \in DOMAIN q : q[k].row = r
           /\ \A j, k \in DOMAIN q : j < k => q[j].row < q[k].row
           /\ s \notin misused => \A k \in DOMAIN q :
                 q[k].right /\ disk[s].rows[k].vals = source[q[k].row].vals

(***************************************************************************)
(* FieldTypes, from which Tables, Schema and every query take the fields   *)
(* of a table, describes exactly the tables there are, after failed calls  *)
(* and for a connection that another one's lock keeps from writing too;    *)
(* and tbl_names_ has every table, so that none is created twice, and no   *)
(* other name as long as no statement has failed (CreateTable).            *)
(***************************************************************************)
CatalogMatches ==
    \A s \in Titles \ misused :
       /\ disk[s].types = disk[s].cols
       /\ pc # "down" /\ disk[s].cols # << >> => s \in names
       /\ pc = "idle" /\ ~ txn /\ ~ failed /\ s \in names => disk[s].cols # << >>

StoredRows == UNION {{disk[s].rows[k].row : k \in DOMAIN disk[s].rows} : s \in Titles}

\* The rows the back end may refuse: those of titles that were misused.
Refused == {r \in 1..Len(source) : source[r].title \in misused}

Log == INSTANCE RowLog WITH stored <- StoredRows, refused <- Refused

(***************************************************************************)
(* The back end keeps its contract with the recorder: a call stores its    *)
(* rows and returns; or it stores nothing and raises; or, only if some row *)
(* is of a title with unsupported or changing types, it raises having      *)
(* stored the rows before that one.  A call that was left with its         *)
(* transaction open or undone leaves nothing behind, whatever is called    *)
(* next (BEGIN, the handler and END of Notify).                            *)
(***************************************************************************)
ImplementsLog == Log!Spec

(***************************************************************************)
(* What the header says of Notify: "Writes Datum objects immediately to    *)
(* the database as a single transaction".  No row of a call that did not   *)
(* return is in the file.  The handler of Notify commits what it has       *)
(* written before the row that raised a ValueError.                        *)
(***************************************************************************)
SingleTransaction == StoredRows \subseteq acked
-----------------------------------------------------------------------------
(***************************************************************************)
(* The invariant behind these.  While a call runs, the connection's tables *)
(* hold the rows of the file and the rows of the call before pos; a table  *)
(* that was not misused holds rows of its own columns only, and tbl_names_ *)
(* knows the tables there are until the call fails.                        *)
(***************************************************************************)
InCall == pc \notin {"down", "idle"}

CallInv ==
    /\ InCall => /\ pos >= 1 /\ Len(batch) \in 1..MaxBatch
                 /\ pc # "IOError" => txn
                 /\ pc \notin {"table", "IOError"} => pos <= Len(batch)
                 /\ \A i \in 1..Len(batch) : batch[i] = source[handed + i]
    /\ ~ InCall => batch = << >> /\ pos = 0
    /\ pc = "down" => ~ txn
    /\ ~ txn => live = disk

RowsIn(db, s) == {db[s].rows[k].row : k \in DOMAIN db[s].rows}
Written(s) == {handed + i : i \in {j \in 1..(pos - 1) : batch[j].title = s}}

\* The rows of db are increasing, none is beyond the n-th of data, and they have its values.
Faithful(db, n, data) ==
    \A s \in Titles :
       /\ \A j, k \in DOMAIN db[s].rows : j < k => db[s].rows[j].row < db[s].rows[k].row
       /\ \A k \in DOMAIN db[s].rows : /\ db[s].rows[k].row \in 1..n
                                       /\ db[s].rows[k].vals = data[db[s].rows[k].row].vals

RowsInv ==
    /\ Faithful(disk, handed, source)
    /\ InCall /\ txn => Faithful(live, (handed + pos) - 1, source)
    /\ InCall /\ txn => \A s \in Titles : RowsIn(live, s) = RowsIn(disk, s) \cup Written(s)
    /\ \A r \in acked : r \in RowsIn(disk, source[r].title)

\* A table holds rows of its columns only, and FieldTypes describes it.
Uniform(db, s) ==
    db[s].types = db[s].cols /\ \A k \in DOMAIN db[s].rows : db[s].rows[k].vals = db[s].cols

TablesInv ==
    \A s \in Titles \ misused :
       /\ Uniform(disk, s)
       /\ InCall /\ pc # "IOError" => Uniform(live, s)
       /\ pc # "down" /\ disk[s].cols # << >> => s \in names
       /\ InCall /\ pc # "IOError" /\ live[s].cols # << >> => s \in names
       /\ (InCall /\ pc \notin {"IOError", "other"}) \/ (pc # "down" /\ ~ txn)
             => (s \in names /\ ~ failed => live[s].cols # << >>)
       /\ pc \in {"stmt", "write"} /\ tbl = s
             => /\ ~ Odd(datum) /\ live[s].cols \in {<< >>, datum.vals}
                /\ stmts[s] = datum.vals \/ (pc = "stmt" /\ stmts[s] = NoStmt)
       /\ pc = "ValueError" => tbl # s

SqliteInv == TypeOK /\ CallInv /\ RowsInv /\ TablesInv
=============================================================================
