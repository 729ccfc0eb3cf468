----------------------------- MODULE SqlTemplate -----------------------------
(***************************************************************************)
(* SqlTemplate and DBPoolGuard (db/sqlTemplate.h, db/dbpool.cpp): threads  *)
(* that run statements over connections borrowed from one libzdb pool.     *)
(*                                                                         *)
(* pc[c] = "idle"     c is in the code of its application                  *)
(*         "guard"    query() or update() is about to borrow               *)
(*         "execute"  in the first TRY block                               *)
(*         "rows"     in the loop over the result of query()               *)
(*         "leave"    the guard is about to be destroyed                   *)
(*                                                                         *)
(* A row in a list is the position it had in the result set of the call    *)
(* that is running, or 0 when it is from an earlier one.                   *)
(***************************************************************************)
EXTENDS PreparedStmt, FiniteSets

CONSTANTS Connections,  \* what the pool holds when it could be created
          Callers,
          Builders,     \* callers that set parameters; the others pass plain SQL
          NoConn,       \* a NULL Connection_T
          MaxSets,      \* bounds of the model: setter calls of a builder,
          MaxRows,      \* rows of a result set,
          MaxList       \* rows a list may hold when it is passed to query()

ASSUME SqlAssumption ==
  /\ NoConn \notin Connections
  /\ MaxRows \in Nat

VARIABLES pool,  \* connections that are not lent
          pc, op, conn, rc,
          stmt,  \* the caller's PreparedStmt
          sets,  \* the setter calls on it, oldest first
          bound, \* what the driver was last given
          list,  \* the caller's result list
          old,   \* its length when query() was called
          row    \* rows read of the result set

vars == <<pool, pc, op, conn, rc, stmt, sets, bound, list, old, row>>
locals == <<op, rc, stmt, sets, bound, list, old, row>>

\* The variables of a call that has not begun, or has returned; the rows in
\* the list are from now on old ones.
Fresh(c) ==
  /\ list' = [list EXCEPT ![c] = [i \in DOMAIN @ |-> 0]]
  /\ op' = [op EXCEPT ![c] = "query"]
  /\ rc' = [rc EXCEPT ![c] = 0]
  /\ bound' = [bound EXCEPT ![c] = {}]
  /\ old' = [old EXCEPT ![c] = 0]
  /\ row' = [row EXCEPT ![c] = 0]

\* PoolInit(): without a URL or a pool there are no connections; a pool that
\* was not started, or started with an error, lends all the same.
Init ==
  /\ pool \in {{}, Connections}
  /\ pc = [c \in Callers |-> "idle"]
  /\ op = [c \in Callers |-> "query"]
  /\ conn = [c \in Callers |-> NoConn]
  /\ rc = [c \in Callers |-> 0]
  /\ stmt = [c \in Callers |-> New]
  /\ sets = [c \in Callers |-> <<>>]
  /\ bound = [c \in Callers |-> {}]
  /\ list = [c \in Callers |-> <<>>]
  /\ old = [c \in Callers |-> 0]
  /\ row = [c \in Callers |-> 0]
-----------------------------------------------------------------------------
\* setInt, setString or setDouble, each time with another value.
SetParam(c) ==
  /\ pc[c] = "idle" /\ c \in Builders /\ Len(sets[c]) < MaxSets
  /\ \E k \in Kinds, i \in Positions :
       /\ sets' = [sets EXCEPT ![c] = Append(@, <<"value", i, k>>)]
       /\ stmt' = [stmt EXCEPT ![c] = Set(@, k, i, Len(sets'[c]))]
  /\ UNCHANGED <<pool, pc, op, conn, rc, bound, list, old, row>>

\* The public setType.
Retype(c) ==
  /\ pc[c] = "idle" /\ c \in Builders /\ Len(sets[c]) < MaxSets
  /\ \E t \in ElemType, i \in Positions :
       /\ stmt' = [stmt EXCEPT ![c] = SetType(@, i, t)]
       /\ sets' = [sets EXCEPT ![c] = Append(@, <<"type", i, t>>)]
  /\ UNCHANGED <<pool, pc, op, conn, rc, bound, list, old, row>>

\* query() with a list that may hold rows already, or update().
Call(c) ==
  /\ pc[c] = "idle"
  /\ \E o \in {"query", "update"} :
       /\ o = "query" => Len(list[c]) <= MaxList
       /\ op' = [op EXCEPT ![c] = o]
  /\ pc' = [pc EXCEPT ![c] = "guard"]
  /\ old' = [old EXCEPT ![c] = Len(list[c])]
  /\ UNCHANGED <<pool, conn, rc, stmt, sets, bound, list, row>>

\* The constructor of the guard.
Borrow(c) ==
  /\ pc[c] = "guard"
  /\ \E x \in pool :
       /\ conn' = [conn EXCEPT ![c] = x]
       /\ pool' = pool \ {x}
  /\ pc' = [pc EXCEPT ![c] = "execute"]
  /\ UNCHANGED locals

\* The pool is empty, was not created, or cannot connect.
BorrowNothing(c) ==
  /\ pc[c] = "guard"
  /\ rc' = [rc EXCEPT ![c] = -1]
  /\ pc' = [pc EXCEPT ![c] = "leave"]
  /\ UNCHANGED <<pool, op, conn, stmt, sets, bound, list, old, row>>

\* Prepared, bound and executed.
Execute(c) ==
  /\ pc[c] = "execute"
  /\ bound' = [bound EXCEPT ![c] = Bindings(stmt[c])]
  /\ pc' = [pc EXCEPT ![c] = IF op[c] = "query" THEN "rows" ELSE "leave"]
  /\ UNCHANGED <<pool, op, conn, rc, stmt, sets, list, old, row>>

\* Mutant of Cleared: the list keeps what it has.
Kept(c) == list

\* What a CATCH block of query() leaves in the caller's list.
Cleared(c) == IF op[c] = "query" THEN [list EXCEPT ![c] = <<>>] ELSE list

\* An SQLException in either TRY block, at any of its calls.
Catch(c) ==
  /\ pc[c] \in {"execute", "rows"}
  /\ rc' = [rc EXCEPT ![c] = -1]
  /\ list' = Cleared(c)
  /\ pc' = [pc EXCEPT ![c] = "leave"]
  /\ UNCHANGED <<pool, op, conn, stmt, sets, bound, old, row>>

\* ResultSet_next() gives a row, which mapRow() accepts or not.
Row(c) ==
  /\ pc[c] = "rows" /\ row[c] < MaxRows
  /\ row' = [row EXCEPT ![c] = @ + 1]
  /\ list' \in {list, [list EXCEPT ![c] = Append(@, row'[c])]}
  /\ UNCHANGED <<pool, pc, op, conn, rc, stmt, sets, bound, old>>

\* No more rows.
End(c) ==
  /\ pc[c] = "rows"
  /\ pc' = [pc EXCEPT ![c] = "leave"]
  /\ UNCHANGED <<pool, conn>> /\ UNCHANGED locals

\* Mutant of Leave: a failed call returns its connection and goes on using it.
LeaveEarly(c) ==
  /\ pc[c] = "leave"
  /\ pool' = pool \cup ({conn[c]} \ {NoConn})
  /\ conn' = IF rc[c] = 0 THEN [conn EXCEPT ![c] = NoConn] ELSE conn
  /\ pc' = [pc EXCEPT ![c] = "idle"]
  /\ Fresh(c) /\ UNCHANGED <<stmt, sets>>

\* Mutant of Leave: a failed call does not return its connection.
LeaveWithConn(c) ==
  /\ pc[c] = "leave"
  /\ pool' = IF rc[c] = 0 THEN pool \cup ({conn[c]} \ {NoConn}) ELSE pool
  /\ conn' = IF rc[c] = 0 THEN [conn EXCEPT ![c] = NoConn] ELSE conn
  /\ pc' = [pc EXCEPT ![c] = "idle"]
  /\ Fresh(c) /\ UNCHANGED <<stmt, sets>>

\* The destructor of the guard, then the return.
Leave(c) ==
  /\ pc[c] = "leave"
  /\ pool' = pool \cup ({conn[c]} \ {NoConn})
  /\ conn' = [conn EXCEPT ![c] = NoConn]
  /\ pc' = [pc EXCEPT ![c] = "idle"]
  /\ Fresh(c) /\ UNCHANGED <<stmt, sets>>

Statement(c) ==
  Borrow(c) \/ BorrowNothing(c) \/ Execute(c) \/ Catch(c) \/ Row(c) \/ End(c) \/ Leave(c)

Next == \E c \in Callers : SetParam(c) \/ Retype(c) \/ Call(c) \/ Statement(c)

Spec == Init /\ [][Next]_vars

\* A call that began goes on; libzdb and the database answer.
FairSpec == Spec /\ \A c \in Callers : WF_vars(Statement(c))
-----------------------------------------------------------------------------
\* Each variable keeps to its type; a connection is held only inside a call.
TypeOK ==
  /\ pool \subseteq Connections
  /\ pc \in [Callers -> {"idle", "guard", "execute", "rows", "leave"}]
  /\ op \in [Callers -> {"query", "update"}]
  /\ conn \in [Callers -> Connections \cup {NoConn}]
  /\ rc \in [Callers -> {0, -1}]
  /\ row \in [Callers -> 0 .. MaxRows]
  /\ old \in [Callers -> Nat]
  /\ list \in [Callers -> Seq(0 .. MaxRows)]
  /\ \A c \in Callers :
       /\ pc[c] \in {"idle", "guard"} => conn[c] = NoConn
       /\ pc[c] \in {"execute", "rows"} => conn[c] # NoConn

\* A connection has one user at a time, whatever calls overlap and fail: it is
\* in the pool, or one caller holds it, and not both.
OneUser ==
  /\ TypeOK
  /\ \A c, d \in Callers : conn[c] = conn[d] /\ conn[c] # NoConn => c = d
  /\ \A c \in Callers : conn[c] \notin pool

\* The answer of query() and the caller's list agree.  0: the list has its old
\* rows and after them rows of this result, in order.  -1 without a
\* connection: as before.  -1 otherwise: empty, no rows of a broken result.
ResultAgrees ==
  \A c \in Callers :
    pc[c] = "leave" /\ op[c] = "query" =>
      IF rc[c] = 0
      THEN /\ Len(list[c]) >= old[c]
           /\ \A i \in 1 .. Len(list[c]) : list[c][i] = 0 <=> i <= old[c]
           /\ \A i, j \in old[c] + 1 .. Len(list[c]) : i < j => list[c][i] < list[c][j]
      ELSE Len(list[c]) = (IF conn[c] = NoConn THEN old[c] ELSE 0)

\* The driver is given, for each position, the type that was asked for last
\* and the value last set there under that type, whatever else was set or
\* retyped in between; positions never asked for are left out.
LastAt(c, i) ==
  CHOOSE n \in 0 .. Len(sets[c]) :
    /\ n = 0 \/ sets[c][n][2] = i
    /\ \A m \in n + 1 .. Len(sets[c]) : sets[c][m][2] # i
ValueAt(c, i, k) ==
  LET given == {n \in 1 .. Len(sets[c]) :
                  sets[c][n][1] = "value" /\ sets[c][n][2] = i /\ sets[c][n][3] = k}
  IN  IF given = {} THEN NoValue
      ELSE CHOOSE n \in given : \A m \in given : m <= n
BoundAsSet ==
  \A c \in Callers :
    pc[c] = "rows" \/ (pc[c] = "leave" /\ rc[c] = 0) =>
      bound[c] =
        {<<i, sets[c][LastAt(c, i)][3], ValueAt(c, i, sets[c][LastAt(c, i)][3])>> :
           i \in {j \in Positions :
                    /\ j > 0 /\ LastAt(c, j) # 0
                    /\ sets[c][LastAt(c, j)][3] # "INVALID"}}

\* A borrowed connection comes back to the pool.
ComesBack == \A c \in Callers : conn[c] # NoConn ~> conn[c] = NoConn
=============================================================================
