----------------------------- MODULE DbmsProofs -----------------------------
(***************************************************************************)
(* The DBMS, without its connections: the rows of every table stay typed,  *)
(* for any names and values and any sequence of statements, and servers    *)
(* never take the socket path from one another, for any number of          *)
(* processes that start, stop and die.                                     *)
(***************************************************************************)
EXTENDS Database, DbListen, FiniteSetTheorems, WellFoundedInduction, TLAPS

-----------------------------------------------------------------------------
(* The tables *)

\* What the tables are made of.
Typed ==
    /\ DOMAIN tables \subseteq Names
    /\ \A name \in DOMAIN tables : tables[name] \in Table

TablesInv == Typed /\ RowsTyped

-----------------------------------------------------------------------------
LEMMA MinIsLeast ==
    ASSUME NEW S, S \subseteq Nat, S # {}
    PROVE  Min(S) \in S
<1> DEFINE R == {ss \in Nat \X Nat : ss[1] < ss[2]}
<1>0. IsWellFoundedOn(R, Nat)
  BY NatLessThanWellFounded DEF OpToRel
<1>1. PICK x \in S : \A y \in S : ~(<<y, x>> \in R)
  BY <1>0, WFMin, Zenon
<1>2. ASSUME NEW y \in S
      PROVE  x =< y
  <2>1. x \in Nat /\ y \in Nat
    OBVIOUS
  <2>2. ~(y < x)
    BY <1>1, <2>1, Zenon
  <2> QED BY <2>1, <2>2
<1> QED BY <1>2, Zenon DEF Min

\* columnIndex finds the position of a column that has the name.
LEMMA ColumnIndexFinds ==
    ASSUME NEW t \in Table, NEW name
    PROVE  \/ columnIndex(t, name) = 0
           \/ /\ columnIndex(t, name) \in 1..Len(t.columns)
              /\ t.columns[columnIndex(t, name)].name = name
<1> DEFINE named == {i \in DOMAIN t.columns : t.columns[i].name = name}
<1>1. DOMAIN t.columns = 1..Len(t.columns) /\ Len(t.columns) \in Nat
  BY DEF Table
<1>2. CASE named = {}
  BY <1>2 DEF columnIndex
<1>3. CASE named # {}
  <2>1. named \subseteq Nat
    BY <1>1
  <2>2. Min(named) \in named
    BY <1>3, <2>1, MinIsLeast
  <2>3. columnIndex(t, name) = Min(named)
    BY <1>3 DEF columnIndex
  <2> QED BY <1>1, <2>2, <2>3
<1> QED BY <1>2, <1>3

\* A listed column that fits is at a position of the table, and its value has
\* the type of the column there.
LEMMA FittingColumn ==
    ASSUME NEW t \in Table, NEW name, NEW v, checkType(t, name, v)
    PROVE  /\ columnIndex(t, name) \in 1..Len(t.columns)
           /\ t.columns[columnIndex(t, name)].name = name
           /\ t.columns[columnIndex(t, name)].type = v.type
BY ColumnIndexFinds DEF checkType

\* Assigned keeps the length of a row and puts values of the right types where
\* it changes it.
LEMMA AssignedRow ==
    ASSUME NEW t \in Table, NEW s \in Statement, Assignable(t, s),
           Len(s.columns) = Len(s.values),
           NEW row \in Seq(Value), Len(row) = Len(t.columns)
    PROVE  /\ Assigned(t, s, row) \in Seq(Value)
           /\ Len(Assigned(t, s, row)) = Len(t.columns)
           /\ \A n \in 1..Len(t.columns) :
                 \/ Assigned(t, s, row)[n].type = t.columns[n].type
                 \/ /\ Assigned(t, s, row)[n] = row[n]
                    /\ \A i \in DOMAIN s.columns : columnIndex(t, s.columns[i]) # n
<1> DEFINE new == Assigned(t, s, row)
<1> DEFINE given(n) == {i \in DOMAIN s.columns : columnIndex(t, s.columns[i]) = n}
<1>1. /\ DOMAIN row = 1..Len(t.columns) /\ Len(t.columns) \in Nat
      /\ s.columns \in Seq(Names) /\ s.values \in Seq(Value)
      /\ DOMAIN s.columns = 1..Len(s.columns) /\ DOMAIN s.values = 1..Len(s.columns)
  BY DEF Table, Statement
<1>2. ASSUME NEW n \in 1..Len(t.columns), given(n) # {}
      PROVE  new[n] \in Value /\ new[n].type = t.columns[n].type
  <2>1. PICK i \in given(n) : new[n] = s.values[i]
    <3>1. (CHOOSE i \in given(n) : TRUE) \in given(n)
      BY <1>2
    <3>2. new[n] = s.values[CHOOSE i \in given(n) : TRUE]
      BY <1>1, <1>2 DEF Assigned
    <3> QED BY <3>1, <3>2, Zenon
  <2>2. checkType(t, s.columns[i], s.values[i])
    BY <2>1 DEF Assignable
  <2>3. s.values[i] \in Value
    BY <1>1, <2>1
  <2> QED BY <2>1, <2>2, <2>3, FittingColumn
<1>3. ASSUME NEW n \in 1..Len(t.columns), given(n) = {}
      PROVE  /\ new[n] \in Value /\ new[n] = row[n]
             /\ \A i \in DOMAIN s.columns : columnIndex(t, s.columns[i]) # n
  <2>1. new[n] = row[n]
    BY <1>1, <1>3 DEF Assigned
  <2> QED BY <1>1, <1>3, <2>1
<1>4. DOMAIN new = 1..Len(t.columns)
  BY <1>1 DEF Assigned
<1>5. \A n \in 1..Len(t.columns) : new[n] \in Value
  BY <1>2, <1>3
<1>6. new = [n \in 1..Len(t.columns) |-> new[n]]
  BY <1>1 DEF Assigned
<1> HIDE DEF new
<1>7. new \in [1..Len(t.columns) -> Value]
  BY <1>5, <1>6, Zenon
<1>8. new \in Seq(Value) /\ Len(new) = Len(t.columns)
  BY <1>1, <1>4, <1>7, SMTT(30)
<1> QED BY <1>2, <1>3, <1>8 DEF new

-----------------------------------------------------------------------------
LEMMA CreatedGood ==
    ASSUME NEW s \in Statement, CreateAccepted(s)
    PROVE  Created(s) \in Table /\ WellFormed(Created(s))
BY DEF Statement, Created, CreateAccepted, Table, WellFormed

\* An accepted INSERT gives every column a value: as many distinct columns are
\* listed as there are positions.
LEMMA InsertCovers ==
    ASSUME NEW t \in Table, NEW s \in Statement, InsertAccepted(t, s),
           NEW n \in 1..Len(t.columns)
    PROVE  \E i \in DOMAIN s.columns : columnIndex(t, s.columns[i]) = n
<1> DEFINE N == Len(t.columns)
           f == [i \in 1..N |-> columnIndex(t, s.columns[i])]
<1>1. N \in Nat /\ s.columns \in Seq(Names) /\ Len(s.columns) = N /\ DOMAIN s.columns = 1..N
  BY DEF Table, Statement, InsertAccepted
<1>2. \A i \in 1..N : /\ columnIndex(t, s.columns[i]) \in 1..N
                      /\ t.columns[columnIndex(t, s.columns[i])].name = s.columns[i]
  BY <1>1, FittingColumn DEF InsertAccepted, Assignable
<1>3. f \in [1..N -> 1..N]
  BY <1>2
<1>4. ASSUME NEW i \in 1..N, NEW j \in 1..N, f[i] = f[j]
      PROVE  i = j
  <2>1. s.columns[i] = s.columns[j]
    BY <1>2, <1>4, Zenon
  <2> QED BY <1>1, <2>1 DEF InsertAccepted, Assignable, Distinct
<1>5. f \in Injection(1..N, 1..N)
  BY <1>3, <1>4, Zenon DEF Injection, IsInjective
<1>6. IsFiniteSet(1..N)
  BY <1>1, FS_Interval
<1>7. f \in Surjection(1..N, 1..N)
  BY <1>5, <1>6, FS_Injection
<1>8. \E i \in 1..N : f[i] = n
  BY <1>7, Zenon DEF Surjection
<1> QED BY <1>1, <1>8

LEMMA Appended ==
    ASSUME NEW S, NEW r \in Seq(S), NEW x \in S
    PROVE  /\ Append(r, x) \in Seq(S) /\ Len(r) \in Nat /\ Len(Append(r, x)) = Len(r) + 1
           /\ Append(r, x)[Len(r) + 1] = x
           /\ \A k \in 1..Len(r) : Append(r, x)[k] = r[k]
OBVIOUS

LEMMA FunctionIsSeq ==
    ASSUME NEW S, NEW n \in Nat, NEW f \in [1..n -> S]
    PROVE  f \in Seq(S) /\ Len(f) = n
OBVIOUS

LEMMA UpToNext ==
    ASSUME NEW n \in Nat, NEW k \in 1..n + 1
    PROVE  k = n + 1 \/ k \in 1..n
OBVIOUS

\* A table with other rows that fit its columns.
LEMMA OtherRows ==
    ASSUME NEW t \in Table, WellFormed(t), NEW rows \in Seq(Seq(Value)),
           \A k \in 1..Len(rows) :
               /\ Len(rows[k]) = Len(t.columns)
               /\ \A n \in 1..Len(t.columns) : rows[k][n].type = t.columns[n].type
    PROVE  [t EXCEPT !.rows = rows] \in Table /\ WellFormed([t EXCEPT !.rows = rows])
<1> DEFINE new == [t EXCEPT !.rows = rows]
<1>1. new \in Table /\ new.columns = t.columns /\ new.rows = rows
  BY DEF Table
<1>2. DOMAIN t.columns = 1..Len(t.columns) /\ DOMAIN rows = 1..Len(rows)
  BY DEF Table
<1> HIDE DEF new
<1>3. WellFormed(new)
  BY <1>1, <1>2 DEF WellFormed
<1> QED BY <1>1, <1>3 DEF new

LEMMA InsertedGood ==
    ASSUME NEW t \in Table, NEW s \in Statement, InsertAccepted(t, s), WellFormed(t)
    PROVE  Inserted(t, s) \in Table /\ WellFormed(Inserted(t, s))
<1> DEFINE row == Assigned(t, s, Blank(t))
<1>1. /\ t.columns \in Seq(Column) /\ t.rows \in Seq(Seq(Value))
      /\ Len(t.columns) \in Nat /\ DOMAIN t.columns = 1..Len(t.columns)
  BY DEF Table
<1>2. Blank(t) \in Seq(Value) /\ Len(Blank(t)) = Len(t.columns)
  <2>1. ZeroValue \in Value
    BY DatabaseAssumption DEF ZeroValue, Value, Types
  <2> QED BY <1>1, <2>1 DEF Blank
<1>3. /\ row \in Seq(Value) /\ Len(row) = Len(t.columns)
      /\ \A n \in 1..Len(t.columns) : row[n].type = t.columns[n].type
  <2>1. Assignable(t, s) /\ Len(s.columns) = Len(s.values)
    BY DEF InsertAccepted
  <2> QED BY <1>2, <2>1, AssignedRow, InsertCovers
<1> HIDE DEF row
<1> DEFINE rows == Append(t.rows, row)
<1>4. /\ rows \in Seq(Seq(Value)) /\ Len(t.rows) \in Nat /\ Len(rows) = Len(t.rows) + 1
      /\ rows[Len(t.rows) + 1] = row
      /\ \A k \in 1..Len(t.rows) : rows[k] = t.rows[k]
  BY <1>1, <1>3, Appended
<1>5. Inserted(t, s) = [t EXCEPT !.rows = rows]
  BY DEF Inserted, row
<1> HIDE DEF rows
<1>6. \A k \in DOMAIN t.rows :
        /\ Len(t.rows[k]) = Len(t.columns)
        /\ \A n \in 1..Len(t.columns) : t.rows[k][n].type = t.columns[n].type
  BY <1>1, Zenon DEF WellFormed
<1>7. ASSUME NEW k \in 1..Len(rows)
      PROVE  /\ Len(rows[k]) = Len(t.columns)
             /\ \A n \in 1..Len(t.columns) : rows[k][n].type = t.columns[n].type
  <2>1. k = Len(t.rows) + 1 \/ k \in 1..Len(t.rows)
    BY <1>4, UpToNext
  <2>2. DOMAIN t.rows = 1..Len(t.rows)
    BY <1>1
  <2> QED BY <1>3, <1>4, <1>6, <2>1, <2>2, Zenon
<1> QED BY <1>4, <1>5, <1>7, OtherRows

LEMMA UpdatedGood ==
    ASSUME NEW t \in Table, NEW s \in Statement, s.operation = "update",
           UpdateAccepted(t, s), WellFormed(t)
    PROVE  Updated(t, s) \in Table /\ WellFormed(Updated(t, s))
<1> DEFINE rows == [k \in DOMAIN t.rows |->
                      IF Selected(t, s, t.rows[k]) THEN Assigned(t, s, t.rows[k]) ELSE t.rows[k]]
<1>1. /\ t.columns \in Seq(Column) /\ t.rows \in Seq(Seq(Value))
      /\ Len(t.columns) \in Nat /\ DOMAIN t.columns = 1..Len(t.columns)
      /\ Len(t.rows) \in Nat /\ DOMAIN t.rows = 1..Len(t.rows)
  BY DEF Table
<1>2. Assignable(t, s) /\ Len(s.columns) = Len(s.values)
  BY DEF UpdateAccepted, Statement
<1>3. ASSUME NEW k \in 1..Len(t.rows)
      PROVE  /\ rows[k] \in Seq(Value)
             /\ Len(rows[k]) = Len(t.columns)
             /\ \A n \in 1..Len(t.columns) : rows[k][n].type = t.columns[n].type
  <2>1. /\ t.rows[k] \in Seq(Value) /\ Len(t.rows[k]) = Len(t.columns)
        /\ \A n \in 1..Len(t.columns) : t.rows[k][n].type = t.columns[n].type
    BY <1>1 DEF WellFormed
  <2>2. CASE Selected(t, s, t.rows[k])
    <3>1. rows[k] = Assigned(t, s, t.rows[k])
      BY <1>1, <2>2
    <3> HIDE DEF rows
    <3>2. /\ Assigned(t, s, t.rows[k]) \in Seq(Value)
          /\ Len(Assigned(t, s, t.rows[k])) = Len(t.columns)
          /\ \A n \in 1..Len(t.columns) :
                \/ Assigned(t, s, t.rows[k])[n].type = t.columns[n].type
                \/ Assigned(t, s, t.rows[k])[n] = t.rows[k][n]
      BY <1>2, <2>1, AssignedRow, Zenon
    <3> QED BY <2>1, <3>1, <3>2, Zenon
  <2>3. CASE ~Selected(t, s, t.rows[k])
    BY <1>1, <2>1, <2>3
  <2> QED BY <2>2, <2>3
<1>4. rows \in [1..Len(t.rows) -> Seq(Value)]
  BY <1>1, <1>3, Zenon
<1>5. Updated(t, s) = [t EXCEPT !.rows = rows]
  BY DEF Updated
<1> HIDE DEF rows
<1>6. rows \in Seq(Seq(Value)) /\ Len(rows) = Len(t.rows)
  BY <1>1, <1>4, FunctionIsSeq, Zenon
<1>7. \A k \in 1..Len(rows) :
          /\ Len(rows[k]) = Len(t.columns)
          /\ \A n \in 1..Len(t.columns) : rows[k][n].type = t.columns[n].type
  BY <1>3, <1>6, Zenon
<1>8. [t EXCEPT !.rows = rows] \in Table /\ WellFormed([t EXCEPT !.rows = rows])
  BY <1>6, <1>7, OtherRows, Zenon
<1> QED BY <1>5, <1>8, Zenon

-----------------------------------------------------------------------------
\* Storing a good table keeps all of them good.
LEMMA StoreGood ==
    ASSUME TablesInv, NEW name \in Names, NEW t \in Table, WellFormed(t), Store(name, t)
    PROVE  TablesInv'
<1>1. DOMAIN tables' = DOMAIN tables \cup {name}
  BY DEF Store
<1>2. ASSUME NEW n \in DOMAIN tables'
      PROVE  tables'[n] \in Table /\ WellFormed(tables'[n])
  BY <1>1, <1>2 DEF Store, TablesInv, Typed, RowsTyped
<1>3. Typed'
  BY <1>1, <1>2 DEF TablesInv, Typed
<1>4. RowsTyped'
  BY <1>2 DEF RowsTyped
<1> QED BY <1>3, <1>4 DEF TablesInv

LEMMA ExecuteGood ==
    ASSUME TablesInv, NEW s \in Statement, Execute(s)
    PROVE  TablesInv'
<1>0. s.table \in Names
  BY DEF Statement
<1>1. CASE Create(s)
  BY <1>0, <1>1, CreatedGood, StoreGood DEF Create
<1>2. CASE Insert(s)
  <2>1. tables[s.table] \in Table /\ WellFormed(tables[s.table])
    BY <1>2 DEF Insert, TablesInv, Typed, RowsTyped
  <2> QED BY <1>0, <1>2, <2>1, InsertedGood, StoreGood DEF Insert
<1>3. CASE Update(s)
  <2>1. tables[s.table] \in Table /\ WellFormed(tables[s.table])
    BY <1>3 DEF Update, TablesInv, Typed, RowsTyped
  <2> QED BY <1>0, <1>3, <2>1, UpdatedGood, StoreGood DEF Update
<1>4. CASE Select(s) \/ Invalid(s)
  <2>1. UNCHANGED tables
    BY <1>4 DEF Select, Invalid, Refuse
  <2> QED BY <2>1 DEF TablesInv, Typed, RowsTyped
<1> QED BY <1>1, <1>2, <1>3, <1>4 DEF Execute

-----------------------------------------------------------------------------
\* RowsTyped for every set of names and values: whatever statements the
\* executor of database.go is given, every row has one value of the right type
\* per column and column names stay unique.
THEOREM RowsTypedHolds == DbSpec => []RowsTyped
<1>1. DbInit => TablesInv
  BY DEF DbInit, TablesInv, Typed, RowsTyped
<1>2. TablesInv /\ [DbNext]_dbVars => TablesInv'
  <2> SUFFICES ASSUME TablesInv, [DbNext]_dbVars
               PROVE  TablesInv'
    OBVIOUS
  <2>1. CASE DbNext
    BY <2>1, ExecuteGood DEF DbNext
  <2>2. CASE UNCHANGED dbVars
    BY <2>2 DEF dbVars, TablesInv, Typed, RowsTyped
  <2> QED BY <2>1, <2>2
<1>3. TablesInv => RowsTyped
  BY DEF TablesInv
<1> QED BY <1>1, <1>2, <1>3, PTL DEF DbSpec

-----------------------------------------------------------------------------
(* The socket path *)

\* The lock is held exactly by the process between Flock and CloseUnlocks.
LockInv == \A p \in Procs : flock = p <=> pc[p] \in Holding

\* What each step knows of the path and of the sockets that listen on it.
PathInv == \A p \in Procs :
    /\ pc[p] \in {"listen", "stat", "chmod", "serving", "undo", "unlink"} => file = p
    /\ pc[p] = "unlock" => file # p
    /\ pc[p] \in {"probe", "remove"} => file # Foreign
    /\ pc[p] = "remove" => Refuses
    /\ pc[p] \in {"stat", "chmod", "serving"} => p \in listening
    /\ p \in listening => pc[p] \in {"stat", "chmod", "serving", "dying"}

ListenInv == TypeOK /\ LockInv /\ PathInv

LEMMA InitListenInv == Init => ListenInv
BY UnixSocketAssumption, DbListenAssumption
   DEF Init, SocketInit, ListenInv, TypeOK, SocketTypeOK, LockInv, PathInv, Holding

LEMMA NextListenInv == ListenInv /\ [Next]_vars => ListenInv'
<1> SUFFICES ASSUME ListenInv, [Next]_vars PROVE ListenInv'
  OBVIOUS
<1> USE UnixSocketAssumption, DbListenAssumption
     DEF ListenInv, TypeOK, SocketTypeOK, LockInv, PathInv, Holding, Refuses,
         Goes, Fails, socketVars
<1>1. CASE UNCHANGED vars
  BY <1>1 DEF vars
<1>2. ASSUME NEW p \in Procs, Listen(p) PROVE ListenInv'
  <2>1. CASE Flock(p)
    BY <2>1 DEF Flock
  <2>2. CASE FlockFails(p)
    BY <2>2 DEF FlockFails
  <2>3. CASE LstatNone(p)
    BY <2>3 DEF LstatNone
  <2>4. CASE LstatSocket(p)
    BY <2>4 DEF LstatSocket
  <2>5. CASE LstatForeign(p)
    BY <2>5 DEF LstatForeign
  <2>6. CASE ProbeRefused(p)
    BY <2>6 DEF ProbeRefused
  <2>7. CASE ProbeOther(p)
    BY <2>7 DEF ProbeOther
  <2>8. CASE RemoveStale(p)
    BY <2>8 DEF RemoveStale, Unlink
  <2>9. CASE ListenBind(p)
    BY <2>9 DEF ListenBind, Bind
  <2>10. CASE ListenBindFails(p)
    BY <2>10 DEF ListenBindFails
  <2>11. CASE ListenListens(p)
    BY <2>11 DEF ListenListens, ListenOn
  <2>12. CASE Stat(p)
    BY <2>12 DEF Stat
  <2>13. CASE StatFails(p)
    BY <2>13 DEF StatFails, CloseSocket
  <2>14. CASE Chmod(p)
    BY <2>14 DEF Chmod
  <2>15. CASE ChmodFails(p)
    BY <2>15 DEF ChmodFails, CloseSocket
  <2>16. CASE ChmodUndone(p)
    BY <2>16 DEF ChmodUndone, Unlink
  <2>17. CASE LstatFails(p)
    BY <2>17 DEF LstatFails
  <2>18. CASE RemoveStaleFails(p)
    BY <2>18 DEF RemoveStaleFails
  <2> QED
    BY <1>2, <2>1, <2>2, <2>3, <2>4, <2>5, <2>6, <2>7, <2>8, <2>9, <2>10, <2>11,
       <2>12, <2>13, <2>14, <2>15, <2>16, <2>17, <2>18, Zenon DEF Listen
<1>3. ASSUME NEW p \in Procs, Close(p) PROVE ListenInv'
  <2>1. CASE CloseListener(p)
    BY <2>1 DEF CloseListener, CloseSocket
  <2>2. CASE CloseStat(p)
    BY <2>2 DEF CloseStat
  <2>3. CASE CloseRemoves(p)
    BY <2>3 DEF CloseRemoves, Unlink
  <2>4. CASE CloseUnlocks(p)
    BY <2>4 DEF CloseUnlocks
  <2>5. CASE CloseLeaves(p)
    BY <2>5 DEF CloseLeaves
  <2> QED
    BY <1>3, <2>1, <2>2, <2>3, <2>4, <2>5 DEF Close
<1>4. ASSUME NEW p \in Procs, Die(p) PROVE ListenInv'
  BY <1>4 DEF Die
<1>5. ASSUME NEW p \in Procs, Dead(p) PROVE ListenInv'
  BY <1>5 DEF Dead, CloseSocket
<1> QED
  BY <1>1, <1>2, <1>3, <1>4, <1>5, Zenon DEF Next

\* The types of the DBMS listener's state, its lock discipline and what each
\* step of Listen and Close knows hold in every state.
THEOREM ListenInvHolds == Spec => []ListenInv
BY InitListenInv, NextListenInv, PTL DEF Spec

\* However many servers start, stop and die on one path, a server that serves
\* is the one its path leads to.
THEOREM ServingIsReachableHolds == Spec => []ServingIsReachable
<1>1. ListenInv => ServingIsReachable
  BY DEF ListenInv, PathInv, ServingIsReachable
<1> QED
  BY <1>1, ListenInvHolds, PTL

\* A Close without an error of the file system never leaves the server's own
\* socket file behind.
THEOREM CloseLeavesNothingHolds == Spec => []CloseLeavesNothing
<1>1. ListenInv => CloseLeavesNothing
  BY DEF ListenInv, PathInv, CloseLeavesNothing
<1> QED
  BY <1>1, ListenInvHolds, PTL

\* No step of any server unlinks a socket that goes on listening, or a file
\* that is not a socket of the user.
THEOREM RemovesOnlyStaleHolds == Spec => RemovesOnlyStale
<1>1. ASSUME ListenInv, [Next]_vars
      PROVE  [file = Foreign \/ file \in listening \cap listening' => file' = file]_vars
  <2> SUFFICES ASSUME Next, file = Foreign \/ file \in listening \cap listening'
               PROVE  file' = file
    BY <1>1
  <2>1. PICK p \in Procs : Listen(p) \/ Close(p) \/ Die(p) \/ Dead(p)
    BY DEF Next
  <2> USE <1>1, UnixSocketAssumption
       DEF ListenInv, TypeOK, PathInv, Goes, Fails, socketVars, Unlink, Bind, ListenOn,
           CloseSocket, Refuses, Holding
  <2>2. CASE Listen(p)
    <3>1. CASE RemoveStale(p)
      BY <3>1 DEF RemoveStale
    <3>2. CASE ListenBind(p)
      BY <3>2 DEF ListenBind, SocketTypeOK
    <3>3. CASE ChmodUndone(p)
      BY <3>3 DEF ChmodUndone
    <3>4. CASE Flock(p) \/ FlockFails(p) \/ LstatNone(p) \/ LstatSocket(p) \/ LstatForeign(p)
          \/ LstatFails(p)
      BY <3>4 DEF Flock, FlockFails, LstatNone, LstatSocket, LstatForeign, LstatFails
    <3>5. CASE ProbeRefused(p) \/ ProbeOther(p) \/ ListenBindFails(p) \/ ListenListens(p)
          \/ RemoveStaleFails(p)
      BY <3>5 DEF ProbeRefused, ProbeOther, ListenBindFails, ListenListens, RemoveStaleFails
    <3>6. CASE Stat(p) \/ StatFails(p) \/ Chmod(p) \/ ChmodFails(p)
      BY <3>6 DEF Stat, StatFails, Chmod, ChmodFails
    <3> QED
      BY <2>2, <3>1, <3>2, <3>3, <3>4, <3>5, <3>6 DEF Listen
  <2>3. CASE Close(p)
    BY <2>3 DEF Close, CloseListener, CloseStat, CloseRemoves, CloseLeaves, CloseUnlocks
  <2>4. CASE Die(p) \/ Dead(p)
    BY <2>4 DEF Die, Dead
  <2> QED
    BY <2>1, <2>2, <2>3, <2>4
<1> QED
  BY <1>1, ListenInvHolds, PTL DEF Spec, RemovesOnlyStale

====
