-------------------------- MODULE SqliteBackProofs --------------------------
(***************************************************************************)
(* Proofs about the SQLite back end for any titles, shapes of data, batch  *)
(* sizes and numbers of rows and reopenings.                               *)
(***************************************************************************)
EXTENDS SqliteBack, SequenceTheorems, NaturalsInduction, WellFoundedInduction, TLAPS

StoredRow == [row : Nat, vals : Seq(STRING)]
Table == [cols : Seq(STRING), types : Seq(STRING), rows : Seq(StoredRow)]

\* A database is a table for each title.
LEMMA DbIsTables == Db = [Titles -> Table]
BY DEF Db, Table, StoredRow

\* The place of the first odd value is well defined (CreateTable's loop).
LEMMA BeforeOddTyped ==
    ASSUME NEW s \in Seq(STRING)
    PROVE  BeforeOdd(s) \in Seq(STRING)
<1>1. Len(s) \in Nat
  BY LenProperties
<1> DEFINE Stop(n) == /\ \A i \in 1..n : s[i] # "odd"
                      /\ n = Len(s) \/ s[n + 1] = "odd"
<1>2. \E n \in 0..Len(s) : Stop(n)
  <2>1. CASE \A i \in 1..Len(s) : s[i] # "odd"
    BY <1>1, <2>1
  <2>2. CASE ~ \A i \in 1..Len(s) : s[i] # "odd"
    <3> DEFINE T == {i \in 1..Len(s) : s[i] = "odd"}
    <3>1. T \in SUBSET Nat /\ T # {}
      BY <1>1, <2>2
    <3> HIDE DEF T
    <3>2. IsWellFoundedOn(OpToRel(<, Nat), Nat)
      BY NatLessThanWellFounded
    <3>3. PICK x \in T : \A y \in T : ~ (<<y, x>> \in OpToRel(<, Nat))
      BY <3>1, <3>2, WFMin
    <3>4. \A y \in T : ~ (y < x)
      BY <3>1, <3>3 DEF OpToRel
    <3>5. x \in 1..Len(s) /\ s[x] = "odd" /\ \A i \in 1..Len(s) : i < x => s[i] # "odd"
      BY <3>3, <3>4 DEF T
    <3>6. x - 1 \in 0..Len(s) /\ Stop(x - 1)
      BY <1>1, <3>5
    <3> QED
      BY <3>6
  <2> QED
    BY <2>1, <2>2
<1> DEFINE n == CHOOSE n \in 0..Len(s) : Stop(n)
<1>3. n \in 0..Len(s)
  BY <1>2
<1>4. BeforeOdd(s) = SubSeq(s, 1, n)
  BY DEF BeforeOdd
<1> HIDE DEF n
<1>5. \A i \in 1..n : s[i] \in STRING
  BY <1>1, <1>3, ElementOfSeq
<1> QED
  BY <1>1, <1>3, <1>4, <1>5, SubSeqProperties

\* What a change of the database leaves alone.
SameBut(t, db, new) == \A s \in Titles : s # t => new[s] = db[s]
SameRows(db, new) == \A s \in Titles : new[s].rows = db[s].rows
SameFields(db, new) ==
    \A s \in Titles : new[s].cols = db[s].cols /\ new[s].types = db[s].types

\* What CreateTable does to its table.
TypesAdded(t, v, db, new) == new[t].types = db[t].types \o v
HasColumns(t, v, new) == new[t].cols = v

\* Entering a row (WriteDatum).
LEMMA RowEntered ==
    ASSUME NEW db \in Db, NEW t \in Titles, NEW r \in StoredRow, NEW new,
           new = [db EXCEPT ![t].rows = Append(@, r)]
    PROVE  /\ new \in Db
           /\ SameBut(t, db, new) /\ SameFields(db, new)
           /\ new[t].rows = Append(db[t].rows, r)
<1>1. db \in [Titles -> Table] /\ db[t] \in Table
  BY DbIsTables
<1>2. db[t].rows \in Seq(StoredRow)
  BY <1>1 DEF Table
<1>3. Append(db[t].rows, r) \in Seq(StoredRow)
  BY <1>2, AppendProperties
<1> DEFINE row == [db[t] EXCEPT !.rows = Append(db[t].rows, r)]
<1>4. new = [db EXCEPT ![t] = row]
  OBVIOUS
<1>5. row \in Table /\ row.rows = Append(db[t].rows, r)
      /\ row.cols = db[t].cols /\ row.types = db[t].types
  BY <1>1, <1>3 DEF Table
<1> HIDE DEF row
<1> QED
  BY <1>1, <1>4, <1>5, DbIsTables DEF SameBut, SameFields

\* Entering fields in FieldTypes, and creating the table (CreateTable).
LEMMA FieldsEntered ==
    ASSUME NEW db \in Db, NEW t \in Titles, NEW v \in Seq(STRING), NEW new,
           \/ new = [db EXCEPT ![t].types = @ \o v]
           \/ new = [db EXCEPT ![t].types = @ \o v, ![t].cols = v]
    PROVE  /\ new \in Db
           /\ SameBut(t, db, new) /\ SameRows(db, new)
           /\ TypesAdded(t, v, db, new)
<1>1. db \in [Titles -> Table] /\ db[t] \in Table
  BY DbIsTables
<1>2. db[t].types \o v \in Seq(STRING)
  BY <1>1, ConcatProperties DEF Table
<1> DEFINE one == [db[t] EXCEPT !.types = db[t].types \o v]
           two == [db[t] EXCEPT !.types = db[t].types \o v, !.cols = v]
<1>3. new = [db EXCEPT ![t] = one] \/ new = [db EXCEPT ![t] = two]
  BY <1>1
<1>4. /\ one \in Table /\ one.types = db[t].types \o v /\ one.rows = db[t].rows
      /\ two \in Table /\ two.types = db[t].types \o v /\ two.rows = db[t].rows
  BY <1>1, <1>2 DEF Table
<1> HIDE DEF one, two
<1> QED
  BY <1>1, <1>3, <1>4, DbIsTables DEF SameBut, SameRows, TypesAdded

\* CREATE TABLE gives a table its columns.
LEMMA TableCreated ==
    ASSUME NEW db \in Db, NEW t \in Titles, NEW v \in Seq(STRING), NEW new,
           new = [db EXCEPT ![t].types = @ \o v, ![t].cols = v]
    PROVE  HasColumns(t, v, new)
<1>1. db \in [Titles -> Table] /\ db[t] \in Table
  BY DbIsTables
<1> QED
  BY <1>1 DEF Table, HasColumns
-----------------------------------------------------------------------------
\* The Datum that a running call is at.
LEMMA DatumTyped ==
    ASSUME TypeOK, CallInv, InCall, pos <= Len(batch)
    PROVE  /\ pos \in 1..Len(batch) /\ Len(batch) \in Nat /\ pos \in Nat /\ handed \in Nat
           /\ datum \in Datum /\ tbl \in Titles /\ datum = source[handed + pos]
           /\ datum.vals \in Shapes /\ datum.vals \in Seq(STRING) /\ datum.vals # << >>
<1>1. batch \in Seq(Datum) /\ Len(batch) \in Nat /\ pos \in 0..(Len(batch) + 1) /\ handed \in Nat
  BY LenProperties DEF TypeOK
<1>2. pos >= 1
  BY DEF CallInv
<1>3. pos \in 1..Len(batch) /\ pos \in Nat
  BY <1>1, <1>2
<1>4. datum \in Datum
  BY <1>1, <1>3, ElementOfSeq DEF datum
<1>5. datum = source[handed + pos]
  BY <1>3 DEF CallInv, datum
<1>6. tbl \in Titles /\ datum.vals \in Shapes
  BY <1>4 DEF tbl, Datum
<1> QED
  BY <1>1, <1>3, <1>4, <1>5, <1>6, SqliteBackAssumption

\* A batch that Notify is given.
LEMMA BatchTyped ==
    ASSUME NEW b \in Batches
    PROVE  b \in Seq(Datum) /\ Len(b) \in 1..MaxBatch /\ Len(b) \in Nat
<1>1. PICK n \in 1..MaxBatch : b \in [1..n -> Datum]
  BY DEF Batches
<1>2. n \in Nat
  BY SqliteBackAssumption
<1>3. b \in Seq(Datum) /\ Len(b) = n
  BY <1>1, <1>2, SeqDef
<1> QED
  BY <1>1, <1>2, <1>3

\* What Notify adds to the history.
LEMMA SourceGrows ==
    ASSUME TypeOK, NEW b \in Seq(Datum), source' = source \o b
    PROVE  /\ source' \in Seq(Datum) /\ Len(source') = Len(source) + Len(b)
           /\ Len(source) \in Nat /\ Len(b) \in Nat
           /\ \A i \in 1..Len(source) : source'[i] = source[i]
           /\ \A i \in 1..Len(b) : source'[Len(source) + i] = b[i]
<1>1. source \in Seq(Datum) /\ Len(source) \in Nat /\ Len(b) \in Nat
  BY LenProperties DEF TypeOK
<1>2. source' \in Seq(Datum) /\ Len(source') = Len(source) + Len(b)
  BY <1>1, ConcatProperties
<1>3. \A i \in 1..(Len(source) + Len(b)) :
        source'[i] = IF i <= Len(source) THEN source[i] ELSE b[i - Len(source)]
  BY <1>1, ConcatProperties
<1>4. \A i \in 1..Len(b) : source'[Len(source) + i] = b[i]
  <2> TAKE i \in 1..Len(b)
  <2>1. /\ Len(source) + i \in 1..(Len(source) + Len(b)) /\ ~ (Len(source) + i <= Len(source))
        /\ (Len(source) + i) - Len(source) = i
    BY <1>1
  <2> QED
    BY <1>3, <2>1
<1> QED
  BY <1>1, <1>2, <1>3, <1>4

\* A step of a call in which a statement fails.
FailStep ==
    /\ InCall /\ txn /\ pc # "IOError"
    /\ \E db \in Db : SameRows(live, db) /\ Fails(db)
    /\ disk' = disk /\ lock' = lock /\ stmts' = stmts /\ batch' = batch /\ pos' = pos
    /\ handed' = handed /\ acked' = acked /\ source' = source
    /\ names \subseteq names' /\ names' \subseteq Titles
    /\ misused \subseteq misused' /\ misused' \subseteq Titles

\* CreateTable fails or does one of three things.
LEMMA CreateTableCases ==
    ASSUME TypeOK, CallInv, CreateTable
    PROVE  \/ FailStep
           \/ /\ txn' = txn /\ failed' = failed
              /\ \/ tbl \in names /\ pc' = "stmt" /\ live' = live
                 \/ /\ tbl \notin names /\ Odd(datum) /\ pc' = "ValueError"
                    /\ live' = [live EXCEPT ![tbl].types = @ \o BeforeOdd(datum.vals)]
                 \/ /\ tbl \notin names /\ ~ Odd(datum) /\ pc' = "stmt"
                    /\ live' = [live EXCEPT ![tbl].types = @ \o datum.vals, ![tbl].cols = datum.vals]
<1>1. /\ pc = "table" /\ pos <= Len(batch) /\ names' = names \cup {tbl} /\ Misuse
      /\ disk' = disk /\ lock' = lock /\ stmts' = stmts /\ batch' = batch
      /\ pos' = pos /\ handed' = handed /\ acked' = acked /\ source' = source
  BY DEF CreateTable, Running
<1>2. InCall /\ txn /\ live \in Db /\ names \subseteq Titles /\ misused \subseteq Titles
  BY <1>1 DEF InCall, CallInv, TypeOK
<1>3. tbl \in Titles /\ datum.vals \in Seq(STRING)
  BY <1>1, <1>2, DatumTyped
<1>4. names' \subseteq Titles /\ misused' \subseteq Titles /\ misused \subseteq misused'
  BY <1>1, <1>2, <1>3 DEF Misuse
<1>5. ASSUME NEW n \in 0..Len(datum.vals),
             Fails([live EXCEPT ![tbl].types = @ \o SubSeq(datum.vals, 1, n)])
      PROVE  FailStep
  <2> DEFINE v  == SubSeq(datum.vals, 1, n)
             db == [live EXCEPT ![tbl].types = @ \o v]
  <2>1. v \in Seq(STRING)
    <3>1. Len(datum.vals) \in Nat /\ n \in Nat
      BY <1>3, LenProperties
    <3>2. \A i \in 1..n : datum.vals[i] \in STRING
      BY <1>3, <3>1, ElementOfSeq
    <3> QED
      BY <1>3, <3>1, <3>2, SubSeqProperties
  <2>2. Fails(db)
    BY <1>5
  <2> HIDE DEF v
  <2>3. db \in Db
    BY <1>2, <1>3, <2>1, FieldsEntered, Zenon
  <2>4. SameRows(live, db)
    BY <1>2, <1>3, <2>1, FieldsEntered, Zenon
  <2> HIDE DEF db
  <2> QED
    BY <1>1, <1>2, <1>4, <2>2, <2>3, <2>4 DEF FailStep
<1> QED
  BY <1>5 DEF CreateTable

\* Every table has the rows it has.
LEMMA SameRowsSelf == SameRows(live, live)
BY DEF SameRows

\* BuildStmt fails or leaves the database alone.
LEMMA BuildStmtCases ==
    ASSUME TypeOK, CallInv, BuildStmt
    PROVE  \/ FailStep
           \/ /\ live' = live /\ txn' = txn /\ failed' = failed
              /\ \/ stmts[tbl] # NoStmt /\ pc' = "write" /\ stmts' = stmts
                 \/ Odd(datum) /\ pc' = "ValueError" /\ stmts' = stmts
                 \/ pc' = "IOError" /\ stmts' = stmts
                 \/ pc' = "write" /\ stmts' = [stmts EXCEPT ![tbl] = datum.vals]
<1>1. /\ pc = "stmt" /\ disk' = disk /\ lock' = lock /\ names' = names /\ batch' = batch
      /\ pos' = pos /\ handed' = handed /\ acked' = acked /\ source' = source
      /\ misused' = misused
  BY DEF BuildStmt, Running
<1>2. InCall /\ txn /\ live \in Db /\ names \subseteq Titles /\ misused \subseteq Titles
  BY <1>1 DEF InCall, CallInv, TypeOK
<1>3. Fails(live) /\ stmts' = stmts => FailStep
  BY <1>1, <1>2, SameRowsSelf DEF FailStep
<1> QED
  BY <1>3 DEF BuildStmt

\* WriteDatum fails or does one of three things.
LEMMA WriteDatumCases ==
    ASSUME TypeOK, CallInv, WriteDatum
    PROVE  \/ FailStep
           \/ /\ txn' = txn /\ failed' = failed
              /\ \/ /\ live' = [live EXCEPT ![tbl].rows =
                                   Append(@, [row |-> handed + pos, vals |-> datum.vals])]
                    /\ pos' = pos + 1 /\ pc' = "table" /\ live[tbl].cols # << >>
                 \/ live' = live /\ pos' = pos /\ pc' = "other"
                 \/ /\ live' = live /\ pos' = pos /\ pc' = "ValueError"
                    /\ Len(datum.vals) > Len(stmts[tbl])
<1>1. /\ pc = "write" /\ disk' = disk /\ lock' = lock /\ names' = names /\ stmts' = stmts
      /\ batch' = batch /\ handed' = handed /\ acked' = acked /\ source' = source
      /\ misused' = misused
  BY DEF WriteDatum, Running
<1>2. InCall /\ txn /\ live \in Db /\ names \subseteq Titles /\ misused \subseteq Titles
  BY <1>1 DEF InCall, CallInv, TypeOK
<1>3. Fails(live) /\ pos' = pos => FailStep
  BY <1>1, <1>2, SameRowsSelf DEF FailStep
<1> QED
  BY <1>3 DEF WriteDatum

\* END TRANSACTION fails or ends the call.
LEMMA EndCases ==
    ASSUME TypeOK, CallInv, End \/ Catch
    PROVE  \/ FailStep
           \/ /\ disk' = live /\ txn' = FALSE /\ Over /\ txn
              /\ \/ /\ pc = "table" /\ pos = Len(batch) + 1
                    /\ acked' = acked \cup (handed + 1)..(handed + Len(batch))
                 \/ pc = "ValueError" /\ acked' = acked
<1>1. pc \in {"table", "ValueError"}
  BY DEF End, Catch
<1>2. InCall /\ txn /\ live \in Db /\ names \subseteq Titles /\ misused \subseteq Titles
  BY <1>1 DEF InCall, CallInv, TypeOK
<1>3. /\ Fails(live)
      /\ UNCHANGED <<disk, lock, names, stmts, batch, pos, handed, acked, source, misused, opens>>
      => FailStep
  BY <1>1, <1>2, SameRowsSelf DEF FailStep
<1> QED
  BY <1>2, <1>3 DEF End, Catch, EndTransaction

\* The initial state.
LEMMA InitTyped == Init => TypeOK /\ CallInv
<1> SUFFICES ASSUME Init PROVE TypeOK /\ CallInv
  OBVIOUS
<1>1. << >> \in Seq(STRING) /\ << >> \in Seq(Datum) /\ << >> \in Seq(StoredRow) /\ Len(<< >>) = 0
  BY EmptySeq
<1>2. Empty \in Table
  BY <1>1 DEF Empty, Table
<1>3. disk \in Db /\ live \in Db
  BY <1>2, DbIsTables DEF Init
<1>4. stmts \in [Titles -> Seq(STRING)]
  BY <1>1 DEF Init, NoStmt
<1>5. TypeOK
  <2>1. batch = << >> /\ source = << >> /\ handed = 0 /\ pos = 0 /\ acked = {}
    BY DEF Init
  <2>2. /\ handed + Len(batch) = Len(source) /\ pos \in 0..(Len(batch) + 1)
        /\ acked \subseteq 1..handed /\ handed \in Nat
    BY <1>1, <2>1
  <2>3. batch \in Seq(Datum) /\ source \in Seq(Datum)
    BY <1>1, <2>1
  <2> QED
    BY <1>3, <1>4, <2>2, <2>3 DEF Init, TypeOK
<1>6. CallInv
  BY DEF Init, CallInv, InCall
<1> QED
  BY <1>5, <1>6

(***************************************************************************)
(* Every action keeps the types and the relation of a call to its batch.   *)
(***************************************************************************)
LEMMA TypeStep ==
    ASSUME TypeOK, CallInv, [Next]_vars
    PROVE  TypeOK' /\ CallInv'
<1> USE SqliteBackAssumption
<1>0. /\ disk \in Db /\ live \in Db /\ txn \in BOOLEAN /\ lock \in BOOLEAN
      /\ failed \in BOOLEAN /\ names \subseteq Titles /\ misused \subseteq Titles
      /\ stmts \in [Titles -> Seq(STRING)] /\ handed \in Nat
      /\ batch \in Seq(Datum) /\ source \in Seq(Datum) /\ Len(batch) \in Nat
      /\ Len(source) \in Nat /\ handed + Len(batch) = Len(source) /\ acked \subseteq 1..handed
      /\ pos \in 0..(Len(batch) + 1)
  BY LenProperties DEF TypeOK
<1>1. << >> \in Seq(STRING) /\ << >> \in Seq(Datum) /\ Len(<< >>) = 0
  BY EmptySeq
<1>2. [s \in Titles |-> NoStmt] \in [Titles -> Seq(STRING)]
  BY <1>1 DEF NoStmt
<1>3. CASE Open
  <2>1. /\ pc = "down" /\ pc' = "idle" /\ live' = disk /\ txn' = FALSE /\ disk' = disk /\ lock' = lock
        /\ batch' = batch /\ pos' = pos /\ handed' = handed /\ acked' = acked
        /\ source' = source /\ misused' = misused /\ failed' = FALSE
        /\ names' \subseteq Titles /\ stmts' = [t \in Titles |-> NoStmt]
    BY <1>3 DEF Open
  <2>2. TypeOK'
    BY <1>0, <1>2, <2>1 DEF TypeOK
  <2>3. CallInv'
    BY <2>1 DEF CallInv, InCall
  <2> QED
    BY <2>2, <2>3
<1>4. ASSUME NEW b \in Batches, Notify(b) PROVE TypeOK' /\ CallInv'
  <2>1. /\ pc = "idle" /\ source' = source \o b /\ disk' = disk /\ live' = live /\ lock' = lock
        /\ names' = names /\ stmts' = stmts /\ acked' = acked /\ misused' = misused
        /\ failed' = failed
    BY <1>4 DEF Notify
  <2>2. batch = << >> /\ pos = 0 /\ Len(source) = handed
    BY <1>0, <1>1, <2>1 DEF CallInv, InCall
  <2>3. b \in Seq(Datum) /\ Len(b) \in 1..MaxBatch /\ Len(b) \in Nat
    BY <1>4, BatchTyped
  <2>4. /\ source' \in Seq(Datum) /\ Len(source') = handed + Len(b)
        /\ \A i \in 1..Len(b) : source'[handed + i] = b[i]
    BY <2>1, <2>2, <2>3, SourceGrows
  <2>5. CASE handed' = handed + Len(b) /\ batch' = batch /\ pos' = pos /\ pc' = pc /\ txn' = txn
    <3>1. acked' \subseteq 1..handed' /\ handed' \in Nat
      BY <1>0, <2>1, <2>3, <2>5
    <3>2. TypeOK'
      BY <1>0, <1>1, <2>1, <2>2, <2>3, <2>4, <2>5, <3>1 DEF TypeOK
    <3>3. CallInv'
      BY <2>1, <2>2, <2>5 DEF CallInv, InCall
    <3> QED
      BY <3>2, <3>3
  <2>6. CASE /\ ~ txn /\ batch' = b /\ pos' = 1 /\ pc' = "table" /\ txn' = TRUE
             /\ handed' = handed
    <3>1. TypeOK'
      BY <1>0, <2>1, <2>3, <2>4, <2>6 DEF TypeOK
    <3>2. CallInv'
      BY <2>3, <2>4, <2>6 DEF CallInv, InCall
    <3> QED
      BY <3>1, <3>2
  <2> QED
    BY <1>4, <2>5, <2>6 DEF Notify
<1>5. CASE CreateTable /\ ~ FailStep
  <2>1. /\ pc = "table" /\ pos <= Len(batch) /\ names' = names \cup {tbl} /\ Misuse
        /\ disk' = disk /\ txn' = txn /\ lock' = lock /\ stmts' = stmts /\ batch' = batch
        /\ pos' = pos /\ handed' = handed /\ acked' = acked /\ source' = source
        /\ pc' \in {"stmt", "ValueError"} /\ failed' = failed
    BY <1>5, CreateTableCases DEF CreateTable, Running
  <2>2. tbl \in Titles /\ datum.vals \in Seq(STRING)
    BY <2>1, DatumTyped DEF InCall
  <2>3. names' \subseteq Titles /\ misused' \subseteq Titles
    BY <1>0, <2>1, <2>2 DEF Misuse
  <2>4. BeforeOdd(datum.vals) \in Seq(STRING)
    BY <2>2, BeforeOddTyped
  <2>5. \/ live' = live
        \/ live' = [live EXCEPT ![tbl].types = @ \o BeforeOdd(datum.vals)]
        \/ live' = [live EXCEPT ![tbl].types = @ \o datum.vals, ![tbl].cols = datum.vals]
    BY <1>5, CreateTableCases
  <2>6. live' \in Db
    <3>1. CASE live' = live
      BY <1>0, <3>1
    <3>2. CASE live' = [live EXCEPT ![tbl].types = @ \o BeforeOdd(datum.vals)]
      BY <1>0, <2>2, <2>4, <3>2, FieldsEntered, Zenon
    <3>3. CASE live' = [live EXCEPT ![tbl].types = @ \o datum.vals, ![tbl].cols = datum.vals]
      BY <1>0, <2>2, <3>3, FieldsEntered, Zenon
    <3> QED
      BY <2>5, <3>1, <3>2, <3>3
  <2>7. TypeOK'
    BY <1>0, <2>1, <2>3, <2>6 DEF TypeOK
  <2>8. CallInv'
    BY <2>1 DEF CallInv, InCall
  <2> QED
    BY <2>7, <2>8
<1>6. CASE BuildStmt /\ ~ FailStep
  <2>1. /\ pc = "stmt" /\ pos <= Len(batch) /\ failed' = failed
        /\ disk' = disk /\ live' = live /\ txn' = txn /\ lock' = lock /\ names' = names
        /\ batch' = batch /\ pos' = pos /\ handed' = handed /\ acked' = acked
        /\ source' = source /\ misused' = misused
        /\ pc' \in {"write", "IOError", "ValueError"}
        /\ stmts' = stmts \/ stmts' = [stmts EXCEPT ![tbl] = datum.vals]
    BY <1>6, BuildStmtCases DEF BuildStmt, Running
  <2>2. datum.vals \in Seq(STRING)
    BY <2>1, DatumTyped DEF InCall
  <2>3. stmts' \in [Titles -> Seq(STRING)]
    BY <1>0, <2>1, <2>2
  <2>4. TypeOK'
    BY <1>0, <2>1, <2>3 DEF TypeOK
  <2>5. CallInv'
    BY <2>1 DEF CallInv, InCall
  <2> QED
    BY <2>4, <2>5
<1>7. CASE WriteDatum /\ ~ FailStep
  <2>1. /\ pc = "write" /\ pos <= Len(batch) /\ failed' = failed
        /\ disk' = disk /\ txn' = txn /\ lock' = lock /\ names' = names /\ stmts' = stmts
        /\ batch' = batch /\ handed' = handed /\ acked' = acked
        /\ source' = source /\ misused' = misused
    BY <1>7, WriteDatumCases DEF WriteDatum, Running
  <2>2. \/ /\ live' = [live EXCEPT ![tbl].rows =
                          Append(@, [row |-> handed + pos, vals |-> datum.vals])]
           /\ pos' = pos + 1 /\ pc' = "table"
        \/ live' = live /\ pos' = pos /\ pc' \in {"other", "ValueError"}
    BY <1>7, WriteDatumCases
  <2>3. /\ tbl \in Titles /\ datum.vals \in Seq(STRING) /\ pos \in Nat /\ pos >= 1
    BY <2>1, DatumTyped DEF InCall
  <2>4. [row |-> handed + pos, vals |-> datum.vals] \in StoredRow
    BY <1>0, <2>3 DEF StoredRow
  <2>5. live' \in Db
    <3> DEFINE r == [row |-> handed + pos, vals |-> datum.vals]
    <3>1. live' = live \/ live' = [live EXCEPT ![tbl].rows = Append(@, r)]
      BY <2>2
    <3>2. r \in StoredRow
      BY <2>4
    <3> HIDE DEF r
    <3>3. CASE live' = [live EXCEPT ![tbl].rows = Append(@, r)]
      BY <1>0, <2>3, <3>2, <3>3, RowEntered, Zenon
    <3> QED
      BY <1>0, <3>1, <3>3
  <2>6. pos' \in 0..(Len(batch) + 1) /\ pos' >= 1 /\ (pc' # "table" => pos' <= Len(batch))
    BY <1>0, <2>1, <2>2, <2>3
  <2>7. pc' \in {"table", "other", "ValueError"}
    BY <2>2
  <2>8. TypeOK'
    BY <1>0, <2>1, <2>5, <2>6, <2>7 DEF TypeOK
  <2>9. CallInv'
    BY <2>1, <2>6, <2>7 DEF CallInv, InCall
  <2> QED
    BY <2>8, <2>9
<1>8. ASSUME Over, disk' = live, txn' = FALSE,
             acked' = acked \/ acked' = acked \cup (handed + 1)..(handed + Len(batch))
      PROVE  TypeOK' /\ CallInv'
  <2>1. /\ handed' = handed + Len(batch) /\ batch' = << >> /\ pos' = 0 /\ pc' = "idle"
        /\ live' = live /\ lock' = lock /\ names' = names /\ stmts' = stmts
        /\ source' = source /\ misused' = misused /\ failed' = failed
    BY <1>8 DEF Over
  <2>2. /\ acked' \subseteq 1..handed' /\ handed' \in Nat
        /\ handed' + Len(batch') = Len(source') /\ pos' \in 0..(Len(batch') + 1)
    <3>1. /\ 1..handed \subseteq 1..handed'
          /\ (handed + 1)..(handed + Len(batch)) \subseteq 1..handed'
          /\ handed' \in Nat
      BY <1>0, <2>1
    <3>2. handed' + Len(batch') = Len(source') /\ pos' \in 0..(Len(batch') + 1)
      BY <1>0, <1>1, <2>1
    <3> QED
      BY <1>0, <1>8, <3>1, <3>2
  <2>3. TypeOK'
    BY <1>0, <1>1, <1>8, <2>1, <2>2 DEF TypeOK
  <2>4. CallInv'
    BY <1>8, <2>1 DEF CallInv, InCall
  <2> QED
    BY <2>3, <2>4
<1>9. CASE (End \/ Catch) /\ ~ FailStep
  BY <1>8, <1>9, EndCases
<1>10. CASE Throw
  <2>1. /\ handed' = handed + Len(batch) /\ batch' = << >> /\ pos' = 0 /\ pc' = "idle"
        /\ live' = live /\ lock' = lock /\ names' = names /\ stmts' = stmts
        /\ source' = source /\ misused' = misused /\ disk' = disk /\ txn' = txn /\ acked' = acked
        /\ failed' = failed
    BY <1>10 DEF Throw, Over
  <2>2. acked' \subseteq 1..handed' /\ handed' \in Nat
    BY <1>0, <2>1
  <2>3. TypeOK'
    BY <1>0, <1>1, <2>1, <2>2 DEF TypeOK
  <2>4. CallInv'
    BY <2>1 DEF CallInv, InCall
  <2> QED
    BY <2>3, <2>4
<1>11. CASE Close
  <2>1. /\ pc = "idle" /\ pc' = "down" /\ lock' \in BOOLEAN /\ live' = disk /\ txn' = FALSE
        /\ names' = {} /\ stmts' = [s \in Titles |-> NoStmt] /\ disk' = disk /\ batch' = batch
        /\ pos' = pos /\ handed' = handed /\ acked' = acked /\ source' = source
        /\ misused' = misused /\ failed' = failed
    BY <1>0, <1>11 DEF Close, history
  <2>2. TypeOK'
    BY <1>0, <1>2, <2>1 DEF TypeOK
  <2>3. CallInv'
    BY <2>1 DEF CallInv, InCall
  <2> QED
    BY <2>2, <2>3
<1>12. CASE Crash
  <2>1. /\ handed' = handed + Len(batch) /\ live' = disk /\ txn' = FALSE /\ lock' = FALSE
        /\ names' = {} /\ stmts' = [s \in Titles |-> NoStmt] /\ batch' = << >> /\ pos' = 0
        /\ pc' = "down" /\ disk' = disk /\ acked' = acked /\ source' = source
        /\ misused' = misused /\ failed' = failed
    BY <1>12 DEF Crash
  <2>2. /\ acked' \subseteq 1..handed' /\ handed' \in Nat
        /\ handed' + Len(batch') = Len(source') /\ pos' \in 0..(Len(batch') + 1)
    BY <1>0, <1>1, <2>1
  <2>3. TypeOK'
    BY <1>0, <1>1, <1>2, <2>1, <2>2 DEF TypeOK
  <2>4. CallInv'
    BY <2>1 DEF CallInv, InCall
  <2> QED
    BY <2>3, <2>4
<1>13. CASE UNCHANGED vars
  <2>1. /\ disk' = disk /\ live' = live /\ txn' = txn /\ lock' = lock /\ names' = names
        /\ stmts' = stmts /\ batch' = batch /\ pos' = pos /\ pc' = pc /\ handed' = handed
        /\ acked' = acked /\ source' = source /\ misused' = misused /\ failed' = failed
    BY <1>13 DEF vars, connection, history
  <2> QED
    BY <2>1 DEF TypeOK, CallInv, InCall
<1>14. CASE FailStep
  <2>1. PICK db \in Db : Fails(db)
    BY <1>14 DEF FailStep
  <2>2. /\ pc' = "IOError" /\ failed' = TRUE /\ live' \in Db /\ txn' \in BOOLEAN
        /\ ~ txn' => live' = disk
    BY <1>0, <1>14, <2>1 DEF Fails, FailStep
  <2>3. /\ InCall /\ disk' = disk /\ lock' = lock /\ stmts' = stmts /\ batch' = batch
        /\ pos' = pos /\ handed' = handed /\ acked' = acked /\ source' = source
        /\ names' \subseteq Titles /\ misused' \subseteq Titles
    BY <1>14 DEF FailStep
  <2>4. TypeOK'
    BY <1>0, <2>2, <2>3 DEF TypeOK
  <2>5. CallInv'
    BY <2>2, <2>3 DEF CallInv, InCall
  <2> QED
    BY <2>4, <2>5
<1> QED
  BY <1>3, <1>4, <1>5, <1>6, <1>7, <1>9, <1>10, <1>11, <1>12, <1>13, <1>14 DEF Next

(***************************************************************************)
(* The back end's fields keep their types.                                 *)
(***************************************************************************)
THEOREM TypeCorrect == Spec => []TypeOK
<1>1. TypeOK /\ CallInv /\ [Next]_vars => (TypeOK /\ CallInv)'
  BY TypeStep
<1> QED
  BY <1>1, InitTyped, PTL DEF Spec
-----------------------------------------------------------------------------
\* The rows of a database that nobody wrote rows to.
LEMMA FaithfulKept ==
    ASSUME NEW db, NEW new, NEW n \in Nat, NEW m \in Nat, n <= m, NEW src, NEW src2,
           Faithful(db, n, src), SameRows(db, new),
           \A i \in 1..n : src2[i] = src[i]
    PROVE  Faithful(new, m, src2)
<1> SUFFICES ASSUME NEW s \in Titles
             PROVE  /\ \A j, k \in DOMAIN db[s].rows : j < k => db[s].rows[j].row < db[s].rows[k].row
                    /\ \A k \in DOMAIN db[s].rows :
                          /\ db[s].rows[k].row \in 1..m
                          /\ db[s].rows[k].vals = src2[db[s].rows[k].row].vals
  BY DEF Faithful, SameRows
<1>1. /\ \A j, k \in DOMAIN db[s].rows : j < k => db[s].rows[j].row < db[s].rows[k].row
      /\ \A k \in DOMAIN db[s].rows : /\ db[s].rows[k].row \in 1..n
                                      /\ db[s].rows[k].vals = src[db[s].rows[k].row].vals
  BY DEF Faithful
<1> QED
  BY <1>1

\* The next row appended to one table.
LEMMA FaithfulAppended ==
    ASSUME NEW db \in Db, NEW new, NEW t \in Titles, NEW n \in Nat, NEW src,
           NEW r \in StoredRow, r.row = n + 1, r.vals = src[n + 1].vals,
           Faithful(db, n, src), new[t].rows = Append(db[t].rows, r),
           SameBut(t, db, new)
    PROVE  /\ Faithful(new, n + 1, src)
           /\ RowsIn(new, t) = RowsIn(db, t) \cup {n + 1}
           /\ DOMAIN new[t].rows = 1..(Len(db[t].rows) + 1)
<1>1. db[t].rows \in Seq(StoredRow)
  BY DbIsTables DEF Table
<1> DEFINE old == db[t].rows
           add == new[t].rows
<1> HIDE DEF old, add
<1>2. /\ DOMAIN add = 1..(Len(old) + 1) /\ DOMAIN old = 1..Len(old) /\ Len(old) \in Nat
      /\ \A k \in 1..Len(old) : add[k] = old[k]
      /\ add[Len(old) + 1] = r
  <2>1. old \in Seq(StoredRow) /\ add = Append(old, r)
    BY <1>1 DEF old, add
  <2>2. Len(old) \in Nat /\ DOMAIN old = 1..Len(old)
    BY <2>1, LenProperties
  <2>3. add \in Seq(StoredRow) /\ Len(add) = Len(old) + 1
    BY <2>1, AppendProperties
  <2>4. DOMAIN add = 1..(Len(old) + 1)
    BY <2>3, LenProperties
  <2>5. (\A k \in 1..Len(old) : add[k] = old[k]) /\ add[Len(old) + 1] = r
    BY <2>1, AppendProperties
  <2> QED
    BY <2>2, <2>4, <2>5
<1>3. /\ \A j, k \in DOMAIN old : j < k => old[j].row < old[k].row
      /\ \A k \in DOMAIN old : old[k].row \in 1..n /\ old[k].vals = src[old[k].row].vals
  BY DEF Faithful, old
<1>4. \A j, k \in DOMAIN add : j < k => add[j].row < add[k].row
  <2> SUFFICES ASSUME NEW j \in DOMAIN add, NEW k \in DOMAIN add, j < k
               PROVE  add[j].row < add[k].row
    OBVIOUS
  <2>1. j \in 1..Len(old) /\ add[j] = old[j] /\ old[j].row \in 1..n
    BY <1>2, <1>3
  <2>2. CASE k = Len(old) + 1
    BY <1>2, <2>1, <2>2
  <2>3. CASE k \in 1..Len(old)
    BY <1>2, <1>3, <2>1, <2>3
  <2> QED
    BY <1>2, <2>2, <2>3
<1>5. \A k \in DOMAIN add : add[k].row \in 1..(n + 1) /\ add[k].vals = src[add[k].row].vals
  <2> TAKE k \in DOMAIN add
  <2>1. CASE k = Len(old) + 1
    BY <1>2, <2>1
  <2>2. CASE k \in 1..Len(old)
    BY <1>2, <1>3, <2>2
  <2> QED
    BY <1>2, <2>1, <2>2
<1>6. Faithful(new, n + 1, src)
  <2> SUFFICES ASSUME NEW s \in Titles
               PROVE  /\ \A j, k \in DOMAIN new[s].rows : j < k => new[s].rows[j].row < new[s].rows[k].row
                      /\ \A k \in DOMAIN new[s].rows :
                            /\ new[s].rows[k].row \in 1..(n + 1)
                            /\ new[s].rows[k].vals = src[new[s].rows[k].row].vals
    BY DEF Faithful
  <2>1. CASE s = t
    BY <1>4, <1>5, <2>1 DEF add
  <2>2. CASE s # t
    <3>1. /\ \A j, k \in DOMAIN db[s].rows : j < k => db[s].rows[j].row < db[s].rows[k].row
          /\ \A k \in DOMAIN db[s].rows : /\ db[s].rows[k].row \in 1..n
                                          /\ db[s].rows[k].vals = src[db[s].rows[k].row].vals
      BY DEF Faithful
    <3> QED
      BY <2>2, <3>1 DEF SameBut
  <2> QED
    BY <2>1, <2>2
<1>7. {add[k].row : k \in DOMAIN add} = {old[k].row : k \in DOMAIN old} \cup {n + 1}
  <2>1. \A k \in DOMAIN old : k \in DOMAIN add /\ add[k].row = old[k].row
    BY <1>2
  <2>2. Len(old) + 1 \in DOMAIN add /\ add[Len(old) + 1].row = n + 1
    BY <1>2
  <2>3. \A k \in DOMAIN add : k \in DOMAIN old \/ k = Len(old) + 1
    BY <1>2
  <2> QED
    BY <2>1, <2>2, <2>3
<1> QED
  BY <1>2, <1>6, <1>7 DEF RowsIn, old, add

\* A call that is over, whatever it left on the disk being unchanged.
LEMMA RowsAtRest ==
    ASSUME TypeOK, TypeOK', RowsInv, disk' = disk, acked' = acked, ~ InCall',
           handed <= handed', \A i \in 1..handed : source'[i] = source[i]
    PROVE  RowsInv'
<1>1. handed \in Nat /\ handed' \in Nat /\ acked \subseteq 1..handed
  BY DEF TypeOK
<1>2. Faithful(disk', handed', source')
  <2>1. Faithful(disk, handed, source) /\ SameRows(disk, disk')
    BY DEF RowsInv, SameRows
  <2> QED
    BY <1>1, <2>1, FaithfulKept, Zenon
<1>3. \A r \in acked' : r \in RowsIn(disk', source'[r].title)
  BY <1>1 DEF RowsInv
<1> QED
  BY <1>2, <1>3 DEF RowsInv, RowsIn

\* A step within a call that leaves every row where it is.
LEMMA RowsUntouched ==
    ASSUME TypeOK, RowsInv, disk' = disk, acked' = acked, source' = source, handed' = handed,
           pos' = pos, batch' = batch, InCall, txn' => txn /\ SameRows(live, live')
    PROVE  RowsInv'
<1>1. handed \in Nat /\ pos \in Nat
  BY LenProperties DEF TypeOK
<1>2. txn' => Faithful(live', (handed + pos) - 1, source)
  BY DEF RowsInv, Faithful, SameRows
<1>3. txn' => \A s \in Titles : RowsIn(live', s) = RowsIn(disk, s) \cup Written(s)
  BY DEF RowsInv, RowsIn, SameRows
<1> QED
  BY <1>2, <1>3 DEF RowsInv, RowsIn, Written

\* The rows of a file after a call that committed what it wrote.
LEMMA RowsCommitted ==
    ASSUME TypeOK, TypeOK', CallInv, RowsInv, InCall, txn, ~ InCall',
           disk' = live, source' = source, handed' = handed + Len(batch),
           pos <= Len(batch) + 1,
           acked' \subseteq acked \cup (handed + 1)..((handed + pos) - 1)
    PROVE  RowsInv'
<1>1. /\ handed \in Nat /\ pos \in Nat /\ Len(batch) \in Nat /\ pos >= 1
      /\ \A i \in 1..Len(batch) : batch[i] = source[handed + i]
  BY LenProperties DEF TypeOK, CallInv
<1>2. Faithful(disk', handed', source')
  <2>1. (handed + pos) - 1 \in Nat /\ handed' \in Nat /\ (handed + pos) - 1 <= handed'
    BY <1>1
  <2>2. Faithful(live, (handed + pos) - 1, source) /\ SameRows(live, disk')
    BY DEF RowsInv, SameRows
  <2>3. \A i \in 1..((handed + pos) - 1) : source'[i] = source[i]
    OBVIOUS
  <2> QED
    BY <2>1, <2>2, <2>3, FaithfulKept, Zenon
<1>3. ASSUME NEW r \in acked' PROVE r \in RowsIn(disk', source'[r].title)
  <2>1. CASE r \in acked
    <3>1. r \in RowsIn(disk, source[r].title)
      BY <2>1 DEF RowsInv
    <3>2. r \in 1..handed
      BY <2>1 DEF TypeOK
    <3>3. source[r].title \in Titles
      <4>1. source \in Seq(Datum) /\ r \in 1..Len(source)
        BY <1>1, <3>2 DEF TypeOK
      <4>2. source[r] \in Datum
        BY <4>1, ElementOfSeq
      <4> QED
        BY <4>2 DEF Datum
    <3> QED
      BY <3>1, <3>3 DEF RowsInv
  <2>2. CASE r \in (handed + 1)..((handed + pos) - 1)
    <3>1. /\ r - handed \in 1..(pos - 1) /\ r - handed \in 1..Len(batch)
          /\ handed + (r - handed) = r
      BY <1>1, <2>2
    <3>2. batch[r - handed] = source[r]
      BY <1>1, <3>1
    <3>3. r \in Written(source[r].title)
      BY <3>1, <3>2 DEF Written
    <3>4. source[r].title \in Titles
      <4>1. batch \in Seq(Datum)
        BY DEF TypeOK
      <4>2. batch[r - handed] \in Datum
        BY <4>1, <3>1, ElementOfSeq
      <4> QED
        BY <3>2, <4>2 DEF Datum
    <3> QED
      BY <3>3, <3>4 DEF RowsInv
  <2> QED
    BY <1>3, <2>1, <2>2
<1> QED
  BY <1>2, <1>3 DEF RowsInv, RowsIn

(***************************************************************************)
(* Every action keeps the rows of the file and of the connection right.    *)
(***************************************************************************)
LEMMA RowsStep ==
    ASSUME TypeOK, CallInv, RowsInv, [Next]_vars
    PROVE  RowsInv'
<1> USE SqliteBackAssumption
<1>0. /\ handed \in Nat /\ pos \in Nat /\ Len(batch) \in Nat /\ Len(source) \in Nat
      /\ handed + Len(batch) = Len(source) /\ acked \subseteq 1..handed
      /\ live \in Db /\ disk \in Db /\ batch \in Seq(Datum) /\ Len(<< >>) = 0
      /\ pos \in 0..(Len(batch) + 1)
  BY LenProperties, EmptySeq DEF TypeOK
<1>1. TypeOK' /\ CallInv'
  BY TypeStep
<1>2. CASE Open
  <2>1. /\ pc' = "idle" /\ disk' = disk /\ acked' = acked /\ handed' = handed /\ source' = source
    BY <1>2 DEF Open
  <2> QED
    BY <1>0, <1>1, <2>1, RowsAtRest DEF InCall
<1>3. ASSUME NEW b \in Batches, Notify(b) PROVE RowsInv'
  <2>1. /\ pc = "idle" /\ source' = source \o b /\ disk' = disk /\ live' = live /\ acked' = acked
    BY <1>3 DEF Notify
  <2>2. batch = << >> /\ pos = 0 /\ Len(source) = handed
    BY <1>0, <2>1 DEF CallInv, InCall
  <2>3. b \in Seq(Datum) /\ Len(b) \in Nat
    BY <1>3, BatchTyped
  <2>4. \A i \in 1..handed : source'[i] = source[i]
    BY <2>1, <2>2, <2>3, SourceGrows
  <2>5. CASE handed' = handed + Len(b) /\ pc' = pc
    <3>1. handed <= handed' /\ ~ InCall'
      BY <1>0, <2>1, <2>3, <2>5 DEF InCall
    <3> QED
      BY <1>1, <2>1, <2>4, <3>1, RowsAtRest
  <2>6. CASE /\ ~ txn /\ batch' = b /\ pos' = 1 /\ pc' = "table" /\ handed' = handed
    <3>1. live = disk
      BY <2>6 DEF CallInv
    <3>2. Faithful(disk', handed', source')
      <4>1. /\ Faithful(disk, handed, source) /\ SameRows(disk, disk')
            /\ handed <= handed' /\ handed' \in Nat
        BY <1>0, <2>1, <2>6 DEF RowsInv, SameRows
      <4> QED
        BY <1>0, <2>4, <4>1, FaithfulKept, Zenon
    <3>3. (handed' + pos') - 1 = handed' /\ 1..(pos' - 1) = {}
      BY <1>0, <2>6
    <3>4. \A s \in Titles : Written(s)' = {}
      BY <3>3 DEF Written
    <3>5. \A s \in Titles : RowsIn(live, s)' = (RowsIn(disk, s) \cup Written(s))'
      BY <2>1, <3>1, <3>4 DEF RowsIn
    <3>6. \A r \in acked' : r \in RowsIn(disk', source'[r].title)
      BY <1>0, <2>1, <2>4 DEF RowsInv
    <3>7. Faithful(live', (handed' + pos') - 1, source')
      BY <2>1, <3>1, <3>2, <3>3
    <3> QED
      BY <3>2, <3>5, <3>6, <3>7 DEF RowsInv, RowsIn
  <2> QED
    BY <1>3, <2>5, <2>6 DEF Notify
<1>4. CASE CreateTable /\ ~ FailStep
  <2>1. /\ pc = "table" /\ pos <= Len(batch)
        /\ disk' = disk /\ batch' = batch /\ txn' = txn
        /\ pos' = pos /\ handed' = handed /\ acked' = acked /\ source' = source
    BY <1>4, CreateTableCases DEF CreateTable, Running
  <2>2. tbl \in Titles /\ datum.vals \in Seq(STRING) /\ InCall
    BY <2>1, DatumTyped DEF InCall
  <2>3. BeforeOdd(datum.vals) \in Seq(STRING)
    BY <2>2, BeforeOddTyped
  <2>4. \/ live' = live
        \/ live' = [live EXCEPT ![tbl].types = @ \o BeforeOdd(datum.vals)]
        \/ live' = [live EXCEPT ![tbl].types = @ \o datum.vals, ![tbl].cols = datum.vals]
    BY <1>4, CreateTableCases
  <2>5. SameRows(live, live')
    <3>1. CASE live' = [live EXCEPT ![tbl].types = @ \o BeforeOdd(datum.vals)]
      BY <1>0, <2>2, <2>3, <3>1, FieldsEntered, Zenon
    <3>2. CASE live' = [live EXCEPT ![tbl].types = @ \o datum.vals, ![tbl].cols = datum.vals]
      BY <1>0, <2>2, <3>2, FieldsEntered, Zenon
    <3> QED
      BY <2>4, <3>1, <3>2 DEF SameRows
  <2> QED
    BY <2>1, <2>2, <2>5, RowsUntouched
<1>5. CASE BuildStmt /\ ~ FailStep
  <2>1. /\ pc = "stmt" /\ disk' = disk /\ live' = live /\ batch' = batch /\ txn' = txn
        /\ pos' = pos /\ handed' = handed /\ acked' = acked /\ source' = source
    BY <1>5, BuildStmtCases DEF BuildStmt, Running
  <2> QED
    BY <2>1, RowsUntouched DEF InCall, SameRows
<1>6. CASE WriteDatum /\ ~ FailStep
  <2> DEFINE r == [row |-> handed + pos, vals |-> datum.vals]
  <2>1. /\ pc = "write" /\ pos <= Len(batch) /\ disk' = disk
        /\ batch' = batch /\ handed' = handed /\ acked' = acked /\ source' = source
        /\ txn' = txn /\ txn
    BY <1>6, WriteDatumCases DEF WriteDatum, Running, CallInv, InCall
  <2>2. \/ live' = [live EXCEPT ![tbl].rows = Append(@, r)] /\ pos' = pos + 1 /\ pc' = "table"
        \/ live' = live /\ pos' = pos
    BY <1>6, WriteDatumCases
  <2>3. CASE live' = live /\ pos' = pos
    BY <2>1, <2>3, RowsUntouched DEF InCall, SameRows
  <2>4. CASE live' = [live EXCEPT ![tbl].rows = Append(@, r)] /\ pos' = pos + 1
    <3>1. /\ tbl \in Titles /\ datum.vals \in Seq(STRING) /\ pos >= 1 /\ pos \in 1..Len(batch)
          /\ datum = source[handed + pos] /\ InCall
      BY <2>1, DatumTyped DEF InCall
    <3> DEFINE n == (handed + pos) - 1
    <3>2. r \in StoredRow /\ r.row = n + 1 /\ n \in Nat /\ n + 1 = handed + pos
      BY <1>0, <3>1 DEF StoredRow
    <3>3. r.vals = source[n + 1].vals
      BY <3>1, <3>2
    <3>4. Faithful(live, n, source)
      BY <2>1, <3>1 DEF RowsInv
    <3> HIDE DEF r, n
    <3>5. SameBut(tbl, live, live') /\ live'[tbl].rows = Append(live[tbl].rows, r)
      <4>1. /\ live \in Db /\ tbl \in Titles /\ r \in StoredRow
            /\ live' = [live EXCEPT ![tbl].rows = Append(@, r)]
        BY <1>0, <2>4, <3>1, <3>2
      <4>2. SameBut(tbl, live, live')
        BY ONLY <4>1, RowEntered, Zenon
      <4>3. live'[tbl].rows = Append(live[tbl].rows, r)
        BY ONLY <4>1, RowEntered, Zenon
      <4> QED
        BY <4>2, <4>3
    <3>6. Faithful(live', n + 1, source) /\ RowsIn(live', tbl) = RowsIn(live, tbl) \cup {n + 1}
      <4>1. live \in Db /\ tbl \in Titles /\ n \in Nat /\ r \in StoredRow /\ r.row = n + 1
        BY <1>0, <3>1, <3>2
      <4>2. Faithful(live', n + 1, source)
        BY ONLY <4>1, <3>3, <3>4, <3>5, FaithfulAppended, Zenon
      <4>3. RowsIn(live', tbl) = RowsIn(live, tbl) \cup {n + 1}
        BY ONLY <4>1, <3>3, <3>4, <3>5, FaithfulAppended, SMT
      <4> QED
        BY <4>2, <4>3
    <3>7. Faithful(live', (handed' + pos') - 1, source')
      <4>1. (handed' + pos') - 1 = n + 1
        BY <1>0, <2>1, <2>4, <3>2
      <4> QED
        BY <2>1, <3>6, <4>1
    <3>8. ASSUME NEW s \in Titles
          PROVE  RowsIn(live', s) = RowsIn(disk, s) \cup Written(s)'
      <4>1. RowsIn(live, s) = RowsIn(disk, s) \cup Written(s)
        BY <2>1, <3>1 DEF RowsInv
      <4>2. 1..(pos' - 1) = 1..(pos - 1) \cup {pos}
        BY <1>0, <2>4, <3>1
      <4>3. batch[pos].title = tbl
        BY DEF tbl, datum
      <4>4. CASE s = tbl
        <5>1. Written(s)' = Written(s) \cup {handed + pos}
          BY <2>1, <4>2, <4>3, <4>4 DEF Written
        <5> QED
          BY <3>2, <3>6, <4>1, <4>4, <5>1
      <4>5. CASE s # tbl
        <5>1. Written(s)' = Written(s)
          BY <2>1, <4>2, <4>3, <4>5 DEF Written
        <5>2. RowsIn(live', s) = RowsIn(live, s)
          BY <3>5, <4>5 DEF RowsIn, SameBut
        <5> QED
          BY <4>1, <5>1, <5>2
      <4> QED
        BY <4>4, <4>5
    <3> QED
      BY <2>1, <3>7, <3>8 DEF RowsInv, RowsIn
  <2> QED
    BY <2>2, <2>3, <2>4
<1>7. CASE (End \/ Catch) /\ ~ FailStep
  <2>1. /\ txn /\ disk' = live /\ handed' = handed + Len(batch) /\ pc' = "idle" /\ source' = source
        /\ \/ /\ pc = "table" /\ pos = Len(batch) + 1
              /\ acked' = acked \cup (handed + 1)..(handed + Len(batch))
           \/ pc = "ValueError" /\ acked' = acked
    BY <1>7, EndCases DEF Over
  <2>2. pos <= Len(batch) + 1 /\ (pos = Len(batch) + 1 => (handed + pos) - 1 = handed + Len(batch))
    BY <1>0
  <2>3. acked' \subseteq acked \cup (handed + 1)..((handed + pos) - 1)
    BY <2>1, <2>2
  <2> QED
    BY <1>1, <2>1, <2>2, <2>3, RowsCommitted DEF InCall
<1>8. CASE FailStep
  <2>1. PICK db \in Db : SameRows(live, db) /\ Fails(db)
    BY <1>8 DEF FailStep
  <2>2. txn' => txn /\ SameRows(live, live')
    BY <2>1 DEF Fails
  <2>3. /\ InCall /\ disk' = disk /\ batch' = batch /\ pos' = pos
        /\ handed' = handed /\ acked' = acked /\ source' = source
    BY <1>8 DEF FailStep
  <2> QED
    BY <2>2, <2>3, RowsUntouched
<1>9. CASE Throw \/ Crash
  <2>1. /\ pc' \in {"idle", "down"} /\ disk' = disk /\ acked' = acked
        /\ handed' = handed + Len(batch) /\ source' = source
    BY <1>9 DEF Throw, Crash, Over
  <2>2. handed <= handed'
    BY <1>0, <2>1
  <2> QED
    BY <1>1, <2>1, <2>2, RowsAtRest DEF InCall
<1>10. CASE Close
  <2>1. pc' = "down" /\ disk' = disk /\ acked' = acked /\ handed' = handed /\ source' = source
    BY <1>10 DEF Close, history
  <2> QED
    BY <1>0, <1>1, <2>1, RowsAtRest DEF InCall
<1>11. CASE UNCHANGED vars
  <2>1. /\ disk' = disk /\ live' = live /\ batch' = batch /\ pos' = pos /\ pc' = pc
        /\ handed' = handed /\ acked' = acked /\ source' = source /\ txn' = txn
    BY <1>11 DEF vars, connection, history
  <2>2. CASE InCall
    BY <2>1, <2>2, RowsUntouched DEF SameRows
  <2>3. CASE ~ InCall
    <3>1. ~ InCall' /\ handed <= handed'
      BY <1>0, <2>1, <2>3 DEF InCall
    <3> QED
      BY <1>1, <2>1, <3>1, RowsAtRest
  <2> QED
    BY <2>2, <2>3
<1> QED
  BY <1>2, <1>3, <1>4, <1>5, <1>6, <1>7, <1>8, <1>9, <1>10, <1>11 DEF Next
-----------------------------------------------------------------------------
\* A table without columns that was not misused has no rows.
LEMMA NoColumnsNoRows ==
    ASSUME TypeOK, CallInv, RowsInv, InCall, txn, NEW s \in Titles, Uniform(live, s),
           live[s].cols = << >>
    PROVE  DOMAIN live[s].rows = {}
<1> SUFFICES ASSUME NEW k \in DOMAIN live[s].rows PROVE FALSE
  OBVIOUS
<1> DEFINE r == live[s].rows[k].row
<1>1. live[s].rows[k].vals = << >>
  BY DEF Uniform
<1>2. r \in 1..((handed + pos) - 1) /\ live[s].rows[k].vals = source[r].vals
  BY DEF RowsInv, Faithful
<1>3. /\ handed \in Nat /\ pos \in Nat /\ Len(batch) \in Nat /\ pos <= Len(batch) + 1
      /\ handed + Len(batch) = Len(source) /\ source \in Seq(Datum)
  BY LenProperties DEF TypeOK
<1>4. r \in 1..Len(source)
  BY <1>2, <1>3
<1>5. source[r] \in Datum
  BY <1>3, <1>4, ElementOfSeq
<1>6. source[r].vals # << >>
  BY <1>5, SqliteBackAssumption DEF Datum
<1> QED
  BY <1>1, <1>2, <1>6

(***************************************************************************)
(* CreateTable: a table that was not misused is created once, for the      *)
(* types of its Datum.                                                     *)
(***************************************************************************)
LEMMA CreateTableKeeps ==
    ASSUME TypeOK, CallInv, RowsInv, TablesInv, CreateTable, ~ FailStep
    PROVE  TablesInv'
<1>1. /\ pc = "table" /\ pos <= Len(batch) /\ names' = names \cup {tbl} /\ Misuse
      /\ disk' = disk /\ batch' = batch /\ pos' = pos /\ txn' = txn /\ stmts' = stmts
      /\ failed' = failed /\ InCall /\ txn /\ live \in Db
  BY CreateTableCases DEF CreateTable, Running, InCall, TypeOK, CallInv
<1>2. tbl \in Titles /\ datum.vals \in Seq(STRING) /\ datum.vals # << >>
  BY <1>1, DatumTyped
<1>3. datum' = datum /\ tbl' = tbl /\ (Odd(datum)' <=> Odd(datum))
  BY <1>1 DEF datum, tbl, Odd
<1>4. misused \subseteq misused'
  BY <1>1 DEF Misuse
<1>5. tbl \notin misused' => /\ ~ Odd(datum)
                             /\ live[tbl].cols = << >> \/ live[tbl].cols = datum.vals
                             /\ stmts[tbl] = << >> \/ stmts[tbl] = datum.vals
  BY <1>1 DEF Misuse, Deviates
<1>pc. pc' \in {"stmt", "ValueError"}
  BY CreateTableCases
<1> SUFFICES ASSUME NEW s \in Titles \ misused'
             PROVE  /\ Uniform(disk', s) /\ Uniform(live', s)
                    /\ live'[s].cols # << >> => s \in names'
                    /\ s \in names' /\ ~ failed => live'[s].cols # << >>
                    /\ pc' = "stmt" /\ tbl = s =>
                          ~ Odd(datum) /\ live'[s].cols \in {<< >>, datum.vals}
                    /\ pc' = "ValueError" => tbl # s
  <2>1. \A s \in Titles \ misused' : disk'[s].cols # << >> => s \in names'
    BY <1>1, <1>4 DEF TablesInv
  <2>2. \A s \in Titles \ misused' : tbl = s => stmts'[s] = NoStmt \/ stmts'[s] = datum.vals
    BY <1>1, <1>5 DEF NoStmt
  <2> QED
    BY <1>1, <1>3, <1>pc, <2>1, <2>2 DEF TablesInv, Uniform, InCall
<1>6. /\ s \in Titles /\ s \notin misused /\ Uniform(disk, s) /\ Uniform(live, s)
      /\ live[s].cols # << >> => s \in names
      /\ s \in names /\ ~ failed => live[s].cols # << >>
  BY <1>1, <1>4 DEF TablesInv
<1>7. Uniform(disk', s)
  BY <1>1, <1>6 DEF Uniform
<1>8. CASE tbl \in names /\ pc' = "stmt" /\ live' = live
  <2>1. names' = names
    BY <1>1, <1>8
  <2>2. tbl = s => live[s].cols \in {<< >>, datum.vals} /\ ~ Odd(datum)
    BY <1>5
  <2> QED
    BY <1>6, <1>7, <1>8, <2>1, <2>2
<1>10. CASE /\ tbl \notin names /\ Odd(datum) /\ pc' = "ValueError"
            /\ live' = [live EXCEPT ![tbl].types = @ \o BeforeOdd(datum.vals)]
  <2>1. tbl # s
    BY <1>5, <1>10
  <2>2. BeforeOdd(datum.vals) \in Seq(STRING)
    BY <1>2, BeforeOddTyped
  <2>3. SameBut(tbl, live, live')
    BY <1>1, <1>2, <1>10, <2>2, FieldsEntered, Zenon
  <2>4. live'[s] = live[s]
    BY <2>1, <2>3 DEF SameBut
  <2>5. s \in names' <=> s \in names
    BY <1>1, <2>1
  <2> QED
    BY <1>6, <1>7, <1>10, <2>1, <2>4, <2>5 DEF Uniform
<1>11. CASE /\ tbl \notin names /\ ~ Odd(datum) /\ pc' = "stmt"
            /\ live' = [live EXCEPT ![tbl].types = @ \o datum.vals, ![tbl].cols = datum.vals]
  <2>1. SameBut(tbl, live, live') /\ SameRows(live, live')
    BY <1>1, <1>2, <1>11, FieldsEntered, Zenon
  <2>2. live'[tbl].types = live[tbl].types \o datum.vals
    <3>1. TypesAdded(tbl, datum.vals, live, live')
      BY <1>1, <1>2, <1>11, FieldsEntered, Zenon
    <3> QED
      BY <3>1 DEF TypesAdded
  <2>3. live'[tbl].cols = datum.vals
    <3>1. HasColumns(tbl, datum.vals, live')
      BY <1>1, <1>2, <1>11, TableCreated, Zenon
    <3> QED
      BY <3>1 DEF HasColumns
  <2>4. CASE s = tbl
    <3>1. live[s].cols = << >> /\ live[s].types = << >>
      BY <1>6, <1>11, <2>4 DEF Uniform
    <3>2. live'[s].types = datum.vals
      <4>1. << >> \o datum.vals = datum.vals
        BY <1>2, ConcatEmptySeq
      <4> QED
        BY <2>2, <2>4, <3>1, <4>1
    <3>3. DOMAIN live'[s].rows = {}
      <4>1. DOMAIN live[s].rows = {}
        BY <1>1, <1>6, <3>1, NoColumnsNoRows
      <4> QED
        BY <1>6, <2>1, <4>1 DEF SameRows
    <3>4. Uniform(live', s)
      BY <2>3, <2>4, <3>2, <3>3 DEF Uniform
    <3> QED
      BY <1>1, <1>2, <1>7, <1>11, <2>3, <2>4, <3>4
  <2>5. CASE s # tbl
    <3>1. live'[s] = live[s] /\ (s \in names' <=> s \in names)
      BY <1>1, <1>6, <2>1, <2>5 DEF SameBut
    <3> QED
      BY <1>6, <1>7, <2>5, <3>1 DEF Uniform
  <2> QED
    BY <2>4, <2>5
<1> QED
  BY <1>8, <1>10, <1>11, CreateTableCases

\* WriteDatum: the row has the columns of its table.
LEMMA WriteDatumKeeps ==
    ASSUME TypeOK, CallInv, TablesInv, WriteDatum, ~ FailStep
    PROVE  TablesInv'
<1> DEFINE r == [row |-> handed + pos, vals |-> datum.vals]
<1>1. /\ pc = "write" /\ pos <= Len(batch) /\ disk' = disk /\ names' = names /\ stmts' = stmts
      /\ batch' = batch /\ misused' = misused /\ txn' = txn /\ failed' = failed
      /\ InCall /\ txn /\ live \in Db
  BY WriteDatumCases DEF WriteDatum, Running, InCall, TypeOK, CallInv
<1>2. \/ /\ live' = [live EXCEPT ![tbl].rows = Append(@, r)] /\ pos' = pos + 1 /\ pc' = "table"
         /\ live[tbl].cols # << >>
      \/ live' = live /\ pos' = pos /\ pc' = "other"
      \/ live' = live /\ pos' = pos /\ pc' = "ValueError" /\ Len(datum.vals) > Len(stmts[tbl])
  BY WriteDatumCases
<1>3. tbl \in Titles /\ datum.vals \in Seq(STRING) /\ handed \in Nat /\ pos \in Nat
  BY <1>1, DatumTyped
<1>4. r \in StoredRow /\ r.vals = datum.vals
  BY <1>3 DEF StoredRow
<1> HIDE DEF r
<1> SUFFICES ASSUME NEW s \in Titles \ misused
             PROVE  /\ Uniform(disk', s) /\ Uniform(live', s)
                    /\ live'[s].cols # << >> => s \in names'
                    /\ s \in names' /\ ~ failed => live'[s].cols # << >>
                    /\ pc' = "ValueError" => tbl # s
  <2>1. \A s \in Titles \ misused' : disk'[s].cols # << >> => s \in names'
    BY <1>1 DEF TablesInv
  <2>2. pc' = "ValueError" => tbl' = tbl
    BY <1>1, <1>2 DEF tbl, datum
  <2>3. pc' \in {"table", "other", "ValueError"}
    BY <1>2
  <2> QED
    BY <1>1, <2>1, <2>2, <2>3 DEF TablesInv, Uniform
<1>5. /\ Uniform(disk, s) /\ Uniform(live, s)
      /\ live[s].cols # << >> => s \in names
      /\ s \in names /\ ~ failed => live[s].cols # << >>
      /\ tbl = s => live[s].cols \in {<< >>, datum.vals} /\ stmts[s] = datum.vals
  BY <1>1 DEF TablesInv
<1>err. pc' = "ValueError" => tbl # s
  <2>1. Len(datum.vals) \in Nat
    BY <1>3, LenProperties
  <2> QED
    BY <1>2, <1>5, <2>1
<1>6. Uniform(disk', s)
  BY <1>1, <1>5 DEF Uniform
<1>7. CASE live' = live
  BY <1>1, <1>5, <1>6, <1>7, <1>err
<1>8. CASE live' = [live EXCEPT ![tbl].rows = Append(@, r)] /\ live[tbl].cols # << >>
  <2>1. SameBut(tbl, live, live') /\ SameFields(live, live')
    BY <1>1, <1>3, <1>4, <1>8, RowEntered, Zenon
  <2>2. live'[tbl].rows = Append(live[tbl].rows, r)
    BY <1>1, <1>3, <1>4, <1>8, RowEntered, Zenon
  <2>3. live'[s].cols = live[s].cols /\ live'[s].types = live[s].types
    BY <2>1 DEF SameFields
  <2>4. CASE s # tbl
    <3>1. live'[s] = live[s]
      BY <2>1, <2>4 DEF SameBut
    <3> QED
      BY <1>1, <1>5, <1>6, <1>err, <3>1 DEF Uniform
  <2>5. CASE s = tbl
    <3> DEFINE old == live[s].rows
    <3>1. old \in Seq(StoredRow) /\ live'[s].rows = Append(old, r)
      BY <1>1, <2>2, <2>5, DbIsTables DEF Table
    <3>2. \A k \in DOMAIN old : old[k].vals = live[s].cols
      BY <1>5 DEF Uniform
    <3>3. r.vals = live[s].cols
      BY <1>4, <1>5, <1>8, <2>5
    <3> HIDE DEF old
    <3>4. /\ Append(old, r) \in Seq(StoredRow) /\ Len(Append(old, r)) = Len(old) + 1
          /\ Len(old) \in Nat /\ DOMAIN old = 1..Len(old)
      BY <1>4, <3>1, AppendProperties, LenProperties
    <3>5. DOMAIN Append(old, r) = 1..(Len(old) + 1)
      BY <3>4, LenProperties
    <3>6. \A k \in 1..Len(old) : Append(old, r)[k] = old[k]
      BY <1>4, <3>1, AppendProperties
    <3>7. Append(old, r)[Len(old) + 1] = r
      BY <1>4, <3>1, AppendProperties
    <3>8. \A k \in 1..(Len(old) + 1) : Append(old, r)[k].vals = live[s].cols
      BY <3>2, <3>3, <3>4, <3>6, <3>7
    <3>9. Uniform(live', s)
      BY <1>5, <2>3, <3>1, <3>5, <3>8 DEF Uniform
    <3> QED
      BY <1>1, <1>5, <1>6, <1>err, <2>3, <3>9
  <2> QED
    BY <2>4, <2>5
<1> QED
  BY <1>2, <1>7, <1>8

\* Every action keeps the tables and the catalogue right.
LEMMA TablesStep ==
    ASSUME TypeOK, CallInv, RowsInv, TablesInv, [Next]_vars
    PROVE  TablesInv'
<1>1. CASE Open
  <2>1. /\ names' = {t \in Titles : disk[t].cols # << >>} /\ live' = disk /\ disk' = disk
        /\ pc' = "idle" /\ misused' = misused
    BY <1>1 DEF Open
  <2> QED
    BY <2>1 DEF TablesInv, Uniform, InCall
<1>2. ASSUME NEW b \in Batches, Notify(b) PROVE TablesInv'
  <2>1. /\ pc = "idle" /\ disk' = disk /\ live' = live /\ names' = names /\ misused' = misused
        /\ failed' = failed
    BY <1>2 DEF Notify
  <2>2. CASE pc' = pc /\ txn' = txn
    BY <2>1, <2>2 DEF TablesInv, Uniform, InCall
  <2>3. CASE ~ txn /\ pc' = "table"
    <3>1. live = disk
      BY <2>3 DEF CallInv
    <3> QED
      BY <2>1, <2>3, <3>1 DEF TablesInv, Uniform, InCall
  <2> QED
    BY <1>2, <2>2, <2>3 DEF Notify
<1>3. CASE CreateTable /\ ~ FailStep
  BY <1>3, CreateTableKeeps
<1>4. CASE BuildStmt /\ ~ FailStep
  <2>1. /\ pc = "stmt" /\ pos <= Len(batch) /\ disk' = disk /\ live' = live /\ names' = names
        /\ batch' = batch /\ pos' = pos /\ misused' = misused /\ txn' = txn /\ failed' = failed
        /\ InCall /\ txn
    BY <1>4, BuildStmtCases DEF BuildStmt, Running, InCall, CallInv
  <2>2. \/ stmts[tbl] # NoStmt /\ pc' = "write" /\ stmts' = stmts
        \/ Odd(datum) /\ pc' = "ValueError" /\ stmts' = stmts
        \/ pc' = "IOError" /\ stmts' = stmts
        \/ pc' = "write" /\ stmts' = [stmts EXCEPT ![tbl] = datum.vals]
    BY <1>4, BuildStmtCases
  <2>3. datum' = datum /\ tbl' = tbl /\ (Odd(datum)' <=> Odd(datum))
    BY <2>1 DEF datum, tbl, Odd
  <2>4. tbl \in Titles /\ stmts \in [Titles -> Seq(STRING)]
    BY <2>1, DatumTyped DEF TypeOK
  <2>5. ASSUME NEW s \in Titles \ misused, tbl = s
        PROVE  /\ pc' = "write" => ~ Odd(datum) /\ stmts'[s] = datum.vals
               /\ pc' # "ValueError"
    BY <2>1, <2>2, <2>4, <2>5 DEF TablesInv
  <2>6. \A s \in Titles \ misused :
          /\ Uniform(disk, s) /\ Uniform(live, s)
          /\ disk[s].cols # << >> => s \in names
          /\ live[s].cols # << >> => s \in names
          /\ s \in names /\ ~ failed => live[s].cols # << >>
          /\ tbl = s => live[s].cols \in {<< >>, datum.vals}
    BY <2>1 DEF TablesInv
  <2>7. \A s \in Titles : (Uniform(disk', s) <=> Uniform(disk, s)) /\ (Uniform(live', s) <=> Uniform(live, s))
    BY <2>1 DEF Uniform
  <2>8. pc' \in {"write", "IOError", "ValueError"}
    BY <2>2
  <2>9. \A s \in Titles \ misused' :
          /\ Uniform(disk, s)'
          /\ InCall' /\ pc' # "IOError" => Uniform(live, s)'
          /\ pc' # "down" /\ disk'[s].cols # << >> => s \in names'
          /\ InCall' /\ pc' # "IOError" /\ live'[s].cols # << >> => s \in names'
          /\ (InCall' /\ pc' \notin {"IOError", "other"}) \/ (pc' # "down" /\ ~ txn')
                => (s \in names' /\ ~ failed' => live'[s].cols # << >>)
    BY <2>1, <2>6, <2>7 DEF Uniform
  <2>10. \A s \in Titles \ misused' :
          /\ pc' \in {"stmt", "write"} /\ tbl' = s
                => /\ ~ Odd(datum)' /\ live'[s].cols \in {<< >>, datum'.vals}
                   /\ stmts'[s] = datum'.vals \/ (pc' = "stmt" /\ stmts'[s] = NoStmt)
          /\ pc' = "ValueError" => tbl' # s
    BY <2>1, <2>3, <2>5, <2>6, <2>8
  <2> QED
    BY <2>9, <2>10 DEF TablesInv
<1>5. CASE WriteDatum /\ ~ FailStep
  BY <1>5, WriteDatumKeeps
<1>6. CASE (End \/ Catch) /\ ~ FailStep
  <2>1. /\ pc \in {"table", "ValueError"} /\ disk' = live /\ live' = live /\ names' = names
        /\ pc' = "idle" /\ misused' = misused /\ failed' = failed /\ txn' = FALSE
    BY <1>6, EndCases DEF Over
  <2> QED
    BY <2>1 DEF TablesInv, Uniform, InCall
<1>7. CASE Throw
  <2>1. /\ pc \in {"IOError", "other"} /\ disk' = disk /\ txn' = txn /\ live' = live
        /\ pc' = "idle" /\ misused' = misused /\ names' = names /\ failed' = failed
    BY <1>7 DEF Throw, Over
  <2> QED
    BY <2>1 DEF TablesInv, Uniform, InCall
<1>8. CASE Close \/ Crash
  <2>1. disk' = disk /\ pc' = "down" /\ misused' = misused
    BY <1>8 DEF Close, Crash, history
  <2> QED
    BY <2>1 DEF TablesInv, Uniform, InCall
<1>9. CASE UNCHANGED vars
  <2>1. /\ disk' = disk /\ live' = live /\ names' = names /\ txn' = txn /\ pc' = pc
        /\ batch' = batch /\ pos' = pos /\ misused' = misused /\ stmts' = stmts
        /\ failed' = failed
    BY <1>9 DEF vars, connection, history
  <2>2. datum' = datum /\ tbl' = tbl /\ (Odd(datum)' <=> Odd(datum))
    BY <2>1 DEF datum, tbl, Odd
  <2> QED
    BY <2>1, <2>2 DEF TablesInv, Uniform, InCall
<1>10. CASE FailStep
  <2>1. /\ pc' = "IOError" /\ failed' = TRUE
    BY <1>10 DEF FailStep, Fails
  <2>2. /\ InCall /\ disk' = disk /\ names \subseteq names' /\ misused \subseteq misused'
    BY <1>10 DEF FailStep
  <2>3. \A s \in Titles \ misused : Uniform(disk, s) /\ (disk[s].cols # << >> => s \in names)
    BY <2>2 DEF TablesInv, InCall
  <2> QED
    BY <2>1, <2>2, <2>3 DEF TablesInv, Uniform
<1> QED
  BY <1>1, <1>2, <1>3, <1>4, <1>5, <1>6, <1>7, <1>8, <1>9, <1>10 DEF Next

\* The initial state satisfies the invariant.
LEMMA InvInit == Init => SqliteInv
<1> SUFFICES ASSUME Init PROVE SqliteInv
  OBVIOUS
<1>1. TypeOK /\ CallInv
  BY InitTyped
<1>2. \A s \in Titles : /\ disk[s].cols = << >> /\ disk[s].types = << >> /\ disk[s].rows = << >>
                        /\ disk[s].rows = << >> => DOMAIN disk[s].rows = {}
  BY DEF Init, Empty
<1>3. acked = {} /\ ~ InCall /\ pc = "down"
  BY DEF Init, InCall
<1>4. RowsInv
  BY <1>2, <1>3 DEF RowsInv, Faithful
<1>5. TablesInv
  BY <1>2, <1>3 DEF TablesInv, Uniform
<1> QED
  BY <1>1, <1>4, <1>5 DEF SqliteInv

(***************************************************************************)
(* The invariant of the back end: what a running call has written, what    *)
(* the file holds and what tbl_names_ knows, through failed calls, locks,  *)
(* closes, crashes and reopenings.                                         *)
(***************************************************************************)
THEOREM Invariance == Spec => []SqliteInv
<1>1. SqliteInv /\ [Next]_vars => SqliteInv'
  BY TypeStep, RowsStep, TablesStep DEF SqliteInv
<1> QED
  BY <1>1, InvInit, PTL DEF Spec

(***************************************************************************)
(* FieldTypes describes exactly the tables there are of titles that were   *)
(* not misused, and tbl_names_ has them all (CreateTable).                 *)
(***************************************************************************)
THEOREM CatalogRight == Spec => []CatalogMatches
<1>1. SqliteInv => CatalogMatches
  <2> SUFFICES ASSUME SqliteInv PROVE CatalogMatches
    OBVIOUS
  <2>1. ~ txn => live = disk
    BY DEF SqliteInv, CallInv
  <2> QED
    BY <2>1 DEF SqliteInv, TablesInv, Uniform, CatalogMatches
<1> QED
  BY <1>1, Invariance, PTL

(***************************************************************************)
(* Every row whose Notify returned is found in the table of its title,     *)
(* once and in the order of delivery, and, if its title was not misused,   *)
(* with its values, as long as a crash undoes the open transaction only.   *)
(***************************************************************************)
THEOREM ReadBack == Spec => []ReadsBack
<1>1. SqliteInv => ReadsBack
  <2> SUFFICES ASSUME SqliteInv, NEW s \in Titles
               PROVE  LET q == Query(disk, s)
                      IN  /\ \A r \in acked : source[r].title = s => \E k \in DOMAIN q : q[k].row = r
                          /\ \A j, k \in DOMAIN q : j < k => q[j].row < q[k].row
                          /\ s \notin misused => \A k \in DOMAIN q :
                                q[k].right /\ disk[s].rows[k].vals = source[q[k].row].vals
    BY DEF ReadsBack
  <2> DEFINE q == Query(disk, s)
             rows == disk[s].rows
  <2>1. /\ DOMAIN q = DOMAIN rows
        /\ \A k \in DOMAIN rows : /\ q[k].row = rows[k].row
                                  /\ q[k].right = (rows[k].vals = disk[s].types)
    BY DEF Query
  <2>2. /\ \A j, k \in DOMAIN rows : j < k => rows[j].row < rows[k].row
        /\ \A k \in DOMAIN rows : rows[k].vals = source[rows[k].row].vals
    BY DEF SqliteInv, RowsInv, Faithful
  <2>3. ASSUME NEW r \in acked, source[r].title = s
        PROVE  \E k \in DOMAIN rows : rows[k].row = r
    <3>1. r \in RowsIn(disk, s)
      BY <2>3 DEF SqliteInv, RowsInv
    <3> QED
      BY <3>1 DEF RowsIn
  <2>4. s \notin misused => \A k \in DOMAIN rows : rows[k].vals = disk[s].types
    BY DEF SqliteInv, TablesInv, Uniform
  <2> HIDE DEF q, rows
  <2>5. \A r \in acked : source[r].title = s => \E k \in DOMAIN q : q[k].row = r
    BY <2>1, <2>3
  <2>6. \A j, k \in DOMAIN q : j < k => q[j].row < q[k].row
    BY <2>1, <2>2
  <2>7. s \notin misused => \A k \in DOMAIN q : q[k].right /\ rows[k].vals = source[q[k].row].vals
    BY <2>1, <2>2, <2>4
  <2> QED
    BY <2>5, <2>6, <2>7 DEF q, rows
<1> QED
  BY <1>1, Invariance, PTL
-----------------------------------------------------------------------------
\* The rows of the file, by table.
LEMMA StoredByTable == StoredRows = UNION {RowsIn(disk, s) : s \in Titles}
BY DEF StoredRows, RowsIn

\* What a committing call adds to the file: its rows before pos.
LEMMA CommitStores ==
    ASSUME TypeOK, CallInv, RowsInv, InCall, txn, disk' = live
    PROVE  StoredRows' = StoredRows \cup (handed + 1)..((handed + pos) - 1)
<1>1. /\ handed \in Nat /\ pos \in Nat /\ Len(batch) \in Nat /\ pos <= Len(batch) + 1
      /\ batch \in Seq(Datum)
  BY LenProperties DEF TypeOK
<1>2. StoredRows' = UNION {RowsIn(live, s) : s \in Titles}
  BY DEF StoredRows, RowsIn
<1>3. \A s \in Titles : RowsIn(live, s) = RowsIn(disk, s) \cup Written(s)
  BY DEF RowsInv
<1>4. UNION {Written(s) : s \in Titles} = (handed + 1)..((handed + pos) - 1)
  <2>1. ASSUME NEW s \in Titles, NEW r \in Written(s)
        PROVE  r \in (handed + 1)..((handed + pos) - 1)
    BY <1>1, <2>1 DEF Written
  <2>2. ASSUME NEW r \in (handed + 1)..((handed + pos) - 1)
        PROVE  \E s \in Titles : r \in Written(s)
    <3>1. r - handed \in 1..(pos - 1) /\ r - handed \in 1..Len(batch) /\ handed + (r - handed) = r
      BY <1>1, <2>2
    <3>2. batch[r - handed] \in Datum
      BY <1>1, <3>1, ElementOfSeq
    <3>3. batch[r - handed].title \in Titles
      BY <3>2 DEF Datum
    <3>4. r \in Written(batch[r - handed].title)
      BY <3>1 DEF Written
    <3> QED
      BY <3>3, <3>4
  <2> QED
    BY <2>1, <2>2
<1>5. UNION {RowsIn(live, s) : s \in Titles}
         = (UNION {RowsIn(disk, s) : s \in Titles}) \cup (UNION {Written(s) : s \in Titles})
  BY <1>3
<1> QED
  BY <1>2, <1>4, <1>5, StoredByTable

\* A row that may be refused stays so.
LEMMA RefusedGrows ==
    ASSUME TypeOK, source' = source \/ \E b \in Batches : source' = source \o b,
           misused \subseteq misused'
    PROVE  Refused \subseteq Refused'
<1>1. CASE source' = source
  BY <1>1 DEF Refused
<1>2. ASSUME NEW b \in Batches, source' = source \o b
      PROVE  Refused \subseteq Refused'
  <2>1. b \in Seq(Datum)
    BY BatchTyped
  <2>2. /\ Len(source') = Len(source) + Len(b) /\ Len(source) \in Nat /\ Len(b) \in Nat
        /\ \A i \in 1..Len(source) : source'[i] = source[i]
    BY <1>2, <2>1, SourceGrows
  <2> QED
    BY <2>2 DEF Refused
<1> QED
  BY <1>1, <1>2

\* No step takes back what was handed over or misused.
LEMMA HistoryGrows ==
    ASSUME TypeOK, CallInv, [Next]_vars
    PROVE  /\ source' = source \/ \E b \in Batches : source' = source \o b
           /\ misused \subseteq misused'
<1>1. ASSUME NEW b \in Batches, Notify(b) PROVE source' = source \o b /\ misused' = misused
  BY <1>1 DEF Notify
<1>2. CASE FailStep
  BY <1>2 DEF FailStep
<1>3. CASE Open \/ CreateTable \/ BuildStmt \/ WriteDatum \/ Close \/ Crash \/ Throw
  BY <1>3 DEF Open, CreateTable, Misuse, BuildStmt, WriteDatum, Close, Crash, Throw, Over, history
<1>4. CASE (End \/ Catch) /\ ~ FailStep
  BY <1>4, EndCases DEF Over
<1>5. CASE UNCHANGED vars
  BY <1>5 DEF vars, history
<1> QED
  BY <1>1, <1>2, <1>3, <1>4, <1>5 DEF Next

(***************************************************************************)
(* The back end keeps its contract with the recorder (RowLog): a call that *)
(* returns has stored its rows; one that raises or that the program ends   *)
(* in has stored none, or those before a row of a title with unsupported   *)
(* or changing types; and nothing else ever becomes visible, as long as a  *)
(* crash undoes the open transaction only.                                 *)
(***************************************************************************)
THEOREM Refinement == Spec => ImplementsLog
<1> DEFINE Step == [Log!Next]_<<handed, StoredRows, acked, Refused>>
<1>1. Init => Log!Init
  <2> SUFFICES ASSUME Init PROVE Log!Init
    OBVIOUS
  <2>1. \A s \in Titles : disk[s].rows = << >>
    BY DEF Init, Empty
  <2>2. StoredRows = {}
    BY <2>1 DEF StoredRows
  <2>3. Refused = {}
    BY DEF Init, Refused
  <2> QED
    BY <2>2, <2>3 DEF Init, Log!Init
<1>2. ASSUME SqliteInv, [Next]_vars
      PROVE  Step
  <2> USE SqliteBackAssumption
  <2>0. /\ TypeOK /\ CallInv /\ RowsInv /\ TablesInv
        /\ handed \in Nat /\ pos \in Nat /\ Len(batch) \in Nat
        /\ pos \in 0..(Len(batch) + 1) /\ Len(<< >>) = 0
    BY <1>2, LenProperties, EmptySeq DEF SqliteInv, TypeOK
  <2>1. disk' = disk => StoredRows' = StoredRows
    BY DEF StoredRows
  <2>2. (handed + 1)..(handed + 0) = {}
    BY <2>0
  <2>r. Refused \subseteq Refused'
    BY <1>2, <2>0, RefusedGrows, HistoryGrows
  <2>3. ASSUME disk' = disk, acked' = acked, handed' = handed
        PROVE  Step
    BY <2>1, <2>3, <2>r DEF Log!Next
  <2>4. ASSUME NEW n \in 1..MaxBatch, disk' = disk, acked' = acked, handed' = handed + n
        PROVE  Step
    <3>1. StoredRows' = StoredRows \cup (handed + 1)..(handed + 0)
      BY <2>1, <2>2, <2>4
    <3>2. Log!Fail(n, 0)
      BY <2>4, <3>1 DEF Log!Fail
    <3>3. 0 \in 0..(n - 1)
      OBVIOUS
    <3> QED
      BY <2>r, <3>2, <3>3 DEF Log!Next
  <2>5. CASE Open \/ CreateTable \/ BuildStmt \/ WriteDatum \/ Close \/ UNCHANGED vars
    <3>1. disk' = disk /\ acked' = acked /\ handed' = handed
      BY <2>5 DEF Open, CreateTable, BuildStmt, WriteDatum, Close, vars, history
    <3> QED
      BY <2>3, <3>1
  <2>6. ASSUME NEW b \in Batches, Notify(b)
        PROVE  Step
    <3>1. disk' = disk /\ acked' = acked /\ (handed' = handed \/ handed' = handed + Len(b))
      BY <2>6 DEF Notify
    <3>2. Len(b) \in 1..MaxBatch
      BY <2>6, BatchTyped
    <3> QED
      BY <2>3, <2>4, <3>1, <3>2
  <2>7. ASSUME (End \/ Catch) /\ ~ FailStep, pc = "table"
        PROVE  Step
    <3>1. /\ InCall /\ txn /\ pos = Len(batch) + 1 /\ disk' = live
          /\ acked' = acked \cup (handed + 1)..(handed + Len(batch))
          /\ handed' = handed + Len(batch)
      BY <2>0, <2>7, EndCases DEF Over, InCall
    <3>2. Len(batch) \in 1..MaxBatch
      BY <2>0, <3>1 DEF CallInv
    <3>3. (handed + pos) - 1 = handed + Len(batch)
      BY <2>0, <3>1
    <3>4. StoredRows' = StoredRows \cup (handed + 1)..(handed + Len(batch))
      BY <2>0, <3>1, <3>3, CommitStores
    <3>5. Log!Store(Len(batch))
      BY <3>1, <3>4 DEF Log!Store
    <3> QED
      BY <2>r, <3>2, <3>5 DEF Log!Next
  <2>8. ASSUME (End \/ Catch) /\ ~ FailStep, pc = "ValueError"
        PROVE  Step
    <3>1. /\ InCall /\ txn /\ disk' = live /\ acked' = acked
          /\ handed' = handed + Len(batch) /\ source' = source /\ misused' = misused
      BY <2>0, <2>8, EndCases DEF Over, InCall
    <3>2. Len(batch) \in 1..MaxBatch /\ pos >= 1 /\ pos <= Len(batch)
      BY <2>0, <2>8, <3>1 DEF CallInv
    <3>3. (handed + pos) - 1 = handed + (pos - 1) /\ pos - 1 \in 0..(Len(batch) - 1)
      BY <2>0, <3>2
    <3>4. StoredRows' = StoredRows \cup (handed + 1)..(handed + (pos - 1))
      BY <2>0, <3>1, <3>3, CommitStores
    <3>5. handed + (pos - 1) + 1 \in Refused
      <4>1. /\ tbl \in Titles /\ datum = source[handed + pos] /\ pos \in 1..Len(batch)
        BY <2>0, <3>1, <3>2, DatumTyped
      <4>2. tbl \in misused
        BY <2>0, <2>8, <4>1 DEF TablesInv
      <4>3. handed + pos \in 1..Len(source) /\ handed + (pos - 1) + 1 = handed + pos
        BY <2>0, <4>1 DEF TypeOK
      <4> QED
        BY <4>1, <4>2, <4>3 DEF Refused, tbl
    <3>6. Log!Fail(Len(batch), pos - 1)
      BY <3>1, <3>4, <3>5 DEF Log!Fail
    <3> QED
      BY <2>r, <3>2, <3>3, <3>6 DEF Log!Next
  <2>9. CASE Throw \/ Crash
    <3>1. disk' = disk /\ acked' = acked /\ handed' = handed + Len(batch)
      BY <2>9 DEF Throw, Crash, Over
    <3>2. CASE InCall
      <4>1. Len(batch) \in 1..MaxBatch
        BY <2>0, <3>2 DEF CallInv
      <4> QED
        BY <2>4, <3>1, <4>1
    <3>3. CASE ~ InCall
      <4>1. Len(batch) = 0
        BY <2>0, <3>3 DEF CallInv
      <4>2. handed' = handed
        BY <2>0, <3>1, <4>1
      <4> QED
        BY <2>3, <3>1, <4>2
    <3> QED
      BY <3>2, <3>3
  <2>10. CASE FailStep
    BY <2>3, <2>10 DEF FailStep
  <2>11. End \/ Catch => pc \in {"table", "ValueError"}
    BY DEF End, Catch
  <2> HIDE DEF Step
  <2> QED
    BY <1>2, <2>5, <2>6, <2>7, <2>8, <2>9, <2>10, <2>11 DEF Next
<1> QED
  BY <1>1, <1>2, Invariance, PTL DEF Spec, ImplementsLog, Log!Spec
=============================================================================
