---------------------------- MODULE WebAppProofs ----------------------------
(***************************************************************************)
(* What an application does around its requests: statements over a         *)
(* database pool (SqlTemplate), for any number of callers, connections,    *)
(* parameters and rows; its start from a configuration (Startup), for      *)
(* files of any lines; and Base64, for data of any length.                 *)
(***************************************************************************)
EXTENDS SqlTemplate, Startup, Base64, WellFoundedInduction, TLAPS

\* A list that was returned is as long as before, with old rows only.
LEMMA FreshList ==
  ASSUME NEW q \in Seq(0 .. MaxRows)
  PROVE  LET z == [i \in DOMAIN q |-> 0]
         IN  /\ z \in Seq(0 .. MaxRows)
             /\ Len(z) = Len(q)
             /\ \A i \in 1 .. Len(z) : z[i] = 0
<1> DEFINE z == [i \in DOMAIN q |-> 0]
<1>1. Len(q) \in Nat /\ DOMAIN q = 1 .. Len(q) /\ 0 \in 0 .. MaxRows
  BY SqlAssumption
<1>2. z \in [1 .. Len(q) -> 0 .. MaxRows]
  BY <1>1
<1>3. z \in Seq(0 .. MaxRows) /\ Len(z) = Len(q)
  BY <1>1, <1>2
<1>4. QED
  BY <1>1, <1>3

\* What Fresh leaves is of the right type.
LEMMA FreshType ==
  ASSUME TypeOK, NEW c \in Callers, Fresh(c)
  PROVE  /\ op' \in [Callers -> {"query", "update"}]
         /\ rc' \in [Callers -> {0, -1}]
         /\ row' \in [Callers -> 0 .. MaxRows]
         /\ old' \in [Callers -> Nat]
         /\ list' \in [Callers -> Seq(0 .. MaxRows)]
<1>1. list[c] \in Seq(0 .. MaxRows) /\ 0 \in 0 .. MaxRows
  BY SqlAssumption DEF TypeOK
<1>2. [i \in DOMAIN list[c] |-> 0] \in Seq(0 .. MaxRows)
  BY <1>1, FreshList
<1>3. list' = [list EXCEPT ![c] = [i \in DOMAIN list[c] |-> 0]]
  BY DEF Fresh
<1>4. list' \in [Callers -> Seq(0 .. MaxRows)]
  BY <1>2, <1>3 DEF TypeOK
<1>5. QED
  BY <1>1, <1>4 DEF Fresh, TypeOK

\* The type invariant holds in every behaviour.
THEOREM TypeCorrect == Spec => []TypeOK
<1>1. Init => TypeOK
  BY SqlAssumption DEF Init, TypeOK
<1>2. TypeOK /\ [Next]_vars => TypeOK'
  <2> SUFFICES ASSUME TypeOK, [Next]_vars PROVE TypeOK'
    OBVIOUS
  <2>1. CASE UNCHANGED <<pool, pc, op, conn, rc, row, old, list>>
    BY <2>1 DEF TypeOK
  <2>2. ASSUME NEW c \in Callers, SetParam(c) \/ Retype(c) PROVE TypeOK'
    BY <2>1, <2>2 DEF SetParam, Retype
  <2>3. ASSUME NEW c \in Callers, Call(c) PROVE TypeOK'
    <3>1. /\ pool' = pool /\ conn' = conn /\ rc' = rc /\ list' = list /\ row' = row
          /\ pc[c] = "idle" /\ pc' = [pc EXCEPT ![c] = "guard"]
          /\ old' = [old EXCEPT ![c] = Len(list[c])]
      BY <2>3 DEF Call
    <3>2. op' \in [Callers -> {"query", "update"}]
      BY <2>3 DEF Call, TypeOK
    <3>3. Len(list[c]) \in Nat
      BY DEF TypeOK
    <3>4. QED
      BY <3>1, <3>2, <3>3 DEF TypeOK
  <2>4. ASSUME NEW c \in Callers, Borrow(c) PROVE TypeOK'
    <3>1. PICK x \in pool : conn' = [conn EXCEPT ![c] = x] /\ pool' = pool \ {x}
      BY <2>4 DEF Borrow
    <3>2. x \in Connections /\ x # NoConn
      BY <3>1, SqlAssumption DEF TypeOK
    <3>3. /\ pc' = [pc EXCEPT ![c] = "execute"] /\ op' = op /\ rc' = rc
          /\ old' = old /\ list' = list /\ row' = row
      BY <2>4 DEF Borrow, locals
    <3>4. QED
      BY <3>1, <3>2, <3>3 DEF TypeOK
  <2>5. ASSUME NEW c \in Callers, BorrowNothing(c) PROVE TypeOK'
    BY <2>5 DEF BorrowNothing, TypeOK
  <2>6. ASSUME NEW c \in Callers, Execute(c) PROVE TypeOK'
    BY <2>6 DEF Execute, TypeOK
  <2>7. ASSUME NEW c \in Callers, Catch(c) PROVE TypeOK'
    <3>1. list' \in [Callers -> Seq(0 .. MaxRows)]
      BY <2>7 DEF Catch, Cleared, TypeOK
    <3>2. QED
      BY <2>7, <3>1 DEF Catch, TypeOK
  <2>8. ASSUME NEW c \in Callers, Row(c) PROVE TypeOK'
    <3>1. /\ row[c] \in 0 .. MaxRows /\ row[c] < MaxRows
          /\ row' = [row EXCEPT ![c] = row[c] + 1]
      BY <2>8 DEF Row, TypeOK
    <3>2. row[c] + 1 \in 0 .. MaxRows
      BY <3>1, SqlAssumption
    <3>3. row' \in [Callers -> 0 .. MaxRows] /\ row'[c] \in 0 .. MaxRows
      BY <3>1, <3>2 DEF TypeOK
    <3>4. list' \in [Callers -> Seq(0 .. MaxRows)]
      <4>1. Append(list[c], row'[c]) \in Seq(0 .. MaxRows)
        BY <3>3 DEF TypeOK
      <4>2. list' = list \/ list' = [list EXCEPT ![c] = Append(list[c], row'[c])]
        BY <2>8 DEF Row
      <4>3. QED
        BY <4>1, <4>2 DEF TypeOK
    <3>5. QED
      BY <2>8, <3>3, <3>4 DEF Row, TypeOK
  <2>9. ASSUME NEW c \in Callers, End(c) PROVE TypeOK'
    BY <2>9 DEF End, locals, TypeOK
  <2>10. ASSUME NEW c \in Callers, Leave(c) PROVE TypeOK'
    <3>1. /\ pc' = [pc EXCEPT ![c] = "idle"] /\ conn' = [conn EXCEPT ![c] = NoConn]
          /\ pool' = pool \cup ({conn[c]} \ {NoConn}) /\ Fresh(c)
      BY <2>10 DEF Leave
    <3>2. pool' \subseteq Connections
      BY <3>1 DEF TypeOK
    <3>3. QED
      BY <3>1, <3>2, FreshType DEF TypeOK
  <2>11. QED
    BY <2>1, <2>2, <2>3, <2>4, <2>5, <2>6, <2>7, <2>8, <2>9, <2>10
       DEF Next, Statement, vars
<1>3. QED
  BY <1>1, <1>2, PTL DEF Spec
-----------------------------------------------------------------------------
\* A connection has one user, whatever calls overlap and fail.
THEOREM ConnectionHasOneUser == Spec => []OneUser
<1>1. Init => OneUser
  <2> SUFFICES ASSUME Init PROVE OneUser
    OBVIOUS
  <2>1. TypeOK
    BY SqlAssumption DEF Init, TypeOK
  <2>2. NoConn \notin pool /\ \A c \in Callers : conn[c] = NoConn
    BY SqlAssumption DEF Init
  <2>3. QED
    BY <2>1, <2>2 DEF OneUser
<1>2. OneUser /\ TypeOK' /\ [Next]_vars => OneUser'
  <2> SUFFICES ASSUME OneUser, TypeOK', [Next]_vars PROVE OneUser'
    OBVIOUS
  <2>1. TypeOK /\ conn \in [Callers -> Connections \cup {NoConn}]
    BY DEF OneUser, TypeOK
  <2>2. CASE pool' = pool /\ conn' = conn
    BY <2>2 DEF OneUser
  <2>3. ASSUME NEW c \in Callers, Borrow(c) PROVE OneUser'
    <3>1. PICK x \in pool : conn' = [conn EXCEPT ![c] = x] /\ pool' = pool \ {x}
      BY <2>3 DEF Borrow
    <3>2. conn'[c] = x /\ \A d \in Callers \ {c} : conn'[d] = conn[d]
      BY <2>1, <3>1
    <3>3. \A d \in Callers : conn[d] # x
      BY <3>1 DEF OneUser
    <3>4. QED
      BY <3>1, <3>2, <3>3 DEF OneUser
  <2>4. ASSUME NEW c \in Callers, Leave(c) PROVE OneUser'
    <3>1. /\ conn' = [conn EXCEPT ![c] = NoConn]
          /\ pool' = pool \cup ({conn[c]} \ {NoConn})
      BY <2>4 DEF Leave
    <3>2. conn'[c] = NoConn /\ \A d \in Callers \ {c} : conn'[d] = conn[d]
      BY <2>1, <3>1
    <3>3. NoConn \notin pool'
      BY SqlAssumption DEF TypeOK
    <3>4. QED
      BY <3>1, <3>2, <3>3 DEF OneUser
  <2>5. ASSUME NEW c \in Callers,
               \/ SetParam(c) \/ Retype(c) \/ Call(c) \/ BorrowNothing(c)
               \/ Execute(c) \/ Catch(c) \/ Row(c) \/ End(c)
        PROVE  OneUser'
    BY <2>2, <2>5 DEF SetParam, Retype, Call, BorrowNothing, Execute, Catch, Row, End
  <2>6. QED
    BY <2>2, <2>3, <2>4, <2>5 DEF Next, Statement, vars
<1>3. QED
  BY <1>1, <1>2, TypeCorrect, PTL DEF Spec
-----------------------------------------------------------------------------
\* l holds o old rows, then rows of this result up to the r-th, in order.
Agrees(l, o, r) ==
  /\ Len(l) >= o
  /\ \A i \in 1 .. Len(l) : l[i] = 0 <=> i <= o
  /\ \A i \in 1 .. Len(l) : l[i] <= r
  /\ \A i, j \in o + 1 .. Len(l) : i < j => l[i] < l[j]

\* The list of one caller, at every point of its call.
ListOf(c) ==
  /\ pc[c] \in {"idle", "guard", "execute"} =>
       /\ rc[c] = 0 /\ row[c] = 0
       /\ \A i \in 1 .. Len(list[c]) : list[c][i] = 0
  /\ pc[c] \in {"guard", "execute"} => old[c] = Len(list[c])
  /\ pc[c] = "rows" => rc[c] = 0 /\ op[c] = "query" /\ Agrees(list[c], old[c], row[c])
  /\ pc[c] = "leave" /\ op[c] = "query" =>
       IF rc[c] = 0 THEN Agrees(list[c], old[c], row[c])
       ELSE Len(list[c]) = (IF conn[c] = NoConn THEN old[c] ELSE 0)

\* One more row keeps a list in agreement, whether it is kept or not.
LEMMA RowAgrees ==
  ASSUME NEW l \in Seq(0 .. MaxRows), NEW o \in Nat, NEW r \in Nat,
         r + 1 \in 0 .. MaxRows, Agrees(l, o, r)
  PROVE  Agrees(l, o, r + 1) /\ Agrees(Append(l, r + 1), o, r + 1)
<1>1. Len(l) \in Nat /\ \A i \in 1 .. Len(l) : l[i] \in Nat
  BY SqlAssumption
<1>2. Agrees(l, o, r + 1)
  BY <1>1 DEF Agrees
<1> DEFINE a == Append(l, r + 1)
<1>3. /\ Len(a) = Len(l) + 1
      /\ a[Len(l) + 1] = r + 1
      /\ \A i \in 1 .. Len(l) : a[i] = l[i]
  OBVIOUS
<1> HIDE DEF a
<1>4. \A i \in 1 .. Len(a) : i \in 1 .. Len(l) \/ i = Len(l) + 1
  BY <1>1, <1>3
<1>5. Len(a) >= o
  BY <1>1, <1>3 DEF Agrees
<1>6. \A i \in 1 .. Len(a) : a[i] = 0 <=> i <= o
  BY <1>1, <1>3, <1>4 DEF Agrees
<1>7. \A i \in 1 .. Len(a) : a[i] <= r + 1
  BY <1>1, <1>3, <1>4 DEF Agrees
<1>8. ASSUME NEW i \in o + 1 .. Len(a), NEW j \in o + 1 .. Len(a), i < j
      PROVE  a[i] < a[j]
  <2>1. i \in o + 1 .. Len(l) /\ i \in 1 .. Len(l) /\ a[i] = l[i]
    BY <1>1, <1>3, <1>8
  <2>2. CASE j \in o + 1 .. Len(l)
    BY <1>1, <1>3, <1>8, <2>1, <2>2 DEF Agrees
  <2>3. CASE j = Len(l) + 1
    <3>1. a[j] = r + 1 /\ l[i] <= r
      BY <1>3, <2>1, <2>3 DEF Agrees
    <3>2. QED
      BY <1>1, <2>1, <3>1
  <2>4. QED
    BY <1>1, <1>3, <1>8, <2>2, <2>3
<1>9. QED
  BY <1>2, <1>5, <1>6, <1>7, <1>8 DEF Agrees, a

\* A list of old rows agrees with a result of which nothing is read.
LEMMA NothingRead ==
  ASSUME NEW l \in Seq(0 .. MaxRows), \A i \in 1 .. Len(l) : l[i] = 0
  PROVE  Agrees(l, Len(l), 0)
<1>1. Len(l) \in Nat
  OBVIOUS
<1>2. QED
  BY <1>1 DEF Agrees

\* A step of one caller leaves the call of another as it is.
LEMMA OtherList ==
  ASSUME NEW d \in Callers, ListOf(d),
         pc'[d] = pc[d], op'[d] = op[d], conn'[d] = conn[d], rc'[d] = rc[d],
         list'[d] = list[d], old'[d] = old[d], row'[d] = row[d]
  PROVE  ListOf(d)'
BY DEF ListOf

\* The answer of query() and the caller's list agree, in every statement with
\* any number of rows, whatever fails and whatever the list held before.
THEOREM AnswerAndListAgree == Spec => []ResultAgrees
<1> DEFINE Lists == \A c \in Callers : ListOf(c)
<1>1. Init => Lists
  BY DEF Init, ListOf
<1>2. TypeOK /\ Lists /\ [Next]_vars => Lists'
  <2> SUFFICES ASSUME TypeOK, Lists, [Next]_vars, NEW d \in Callers
               PROVE  ListOf(d)'
    OBVIOUS
  <2>1. /\ ListOf(d)
        /\ list[d] \in Seq(0 .. MaxRows) /\ old[d] \in Nat /\ row[d] \in 0 .. MaxRows
    BY DEF TypeOK
  <2>2. CASE UNCHANGED <<pc, op, conn, rc, list, old, row>>
    BY <2>1, <2>2, OtherList
  <2>3. ASSUME NEW c \in Callers, SetParam(c) \/ Retype(c) PROVE ListOf(d)'
    BY <2>2, <2>3 DEF SetParam, Retype
  <2>4. ASSUME NEW c \in Callers, c # d,
               \/ Call(c) \/ Borrow(c) \/ BorrowNothing(c) \/ Execute(c)
               \/ Catch(c) \/ Row(c) \/ End(c) \/ Leave(c)
        PROVE  ListOf(d)'
    <3>1. pc'[d] = pc[d]
      BY <2>4 DEF Call, Borrow, BorrowNothing, Execute, Catch, Row, End, Leave, TypeOK
    <3>2. op'[d] = op[d]
      BY <2>4 DEF Call, Borrow, BorrowNothing, Execute, Catch, Row, End, Leave,
                  Fresh, locals, TypeOK
    <3>3. conn'[d] = conn[d]
      BY <2>4 DEF Call, Borrow, BorrowNothing, Execute, Catch, Row, End, Leave, TypeOK
    <3>4. rc'[d] = rc[d]
      BY <2>4 DEF Call, Borrow, BorrowNothing, Execute, Catch, Row, End, Leave,
                  Fresh, locals, TypeOK
    <3>5. list'[d] = list[d]
      BY <2>4 DEF Call, Borrow, BorrowNothing, Execute, Catch, Cleared, Row, End, Leave,
                  Fresh, locals, TypeOK
    <3>6. old'[d] = old[d]
      BY <2>4 DEF Call, Borrow, BorrowNothing, Execute, Catch, Row, End, Leave,
                  Fresh, locals, TypeOK
    <3>7. row'[d] = row[d]
      BY <2>4 DEF Call, Borrow, BorrowNothing, Execute, Catch, Row, End, Leave,
                  Fresh, locals, TypeOK
    <3>8. QED
      BY <2>1, <3>1, <3>2, <3>3, <3>4, <3>5, <3>6, <3>7, OtherList
  <2>5. CASE Call(d)
    BY <2>1, <2>5 DEF Call, ListOf, TypeOK
  <2>6. CASE Borrow(d)
    <3>1. /\ pc[d] = "guard" /\ pc'[d] = "execute"
          /\ rc' = rc /\ list' = list /\ old' = old /\ row' = row
      BY <2>6 DEF Borrow, locals, TypeOK
    <3>2. QED
      BY <2>1, <3>1 DEF ListOf
  <2>7. CASE BorrowNothing(d)
    <3>1. /\ pc[d] = "guard" /\ pc'[d] = "leave" /\ rc'[d] = -1
          /\ conn' = conn /\ conn[d] = NoConn /\ list' = list /\ old' = old
      BY <2>7 DEF BorrowNothing, TypeOK
    <3>2. QED
      BY <2>1, <3>1 DEF ListOf
  <2>8. CASE Execute(d)
    <3>1. /\ pc[d] = "execute" /\ pc'[d] = IF op[d] = "query" THEN "rows" ELSE "leave"
          /\ rc' = rc /\ list' = list /\ old' = old /\ row' = row /\ op' = op
      BY <2>8 DEF Execute, TypeOK
    <3>2. Agrees(list[d], old[d], row[d]) /\ rc[d] = 0
      BY <2>1, <3>1, NothingRead DEF ListOf
    <3>3. QED
      BY <3>1, <3>2 DEF ListOf
  <2>9. CASE Catch(d)
    <3>1. /\ pc[d] \in {"execute", "rows"} /\ pc'[d] = "leave" /\ rc'[d] = -1
          /\ conn' = conn /\ conn[d] # NoConn /\ op' = op
          /\ list' = Cleared(d)
      BY <2>9 DEF Catch, TypeOK
    <3>2. op[d] = "query" => list'[d] = <<>>
      BY <3>1 DEF Cleared, TypeOK
    <3>3. QED
      BY <3>1, <3>2 DEF ListOf
  <2>10. CASE Row(d)
    <3>1. /\ pc[d] = "rows" /\ pc' = pc /\ op' = op /\ rc' = rc /\ old' = old
          /\ row[d] < MaxRows /\ row'[d] = row[d] + 1
      BY <2>10 DEF Row, TypeOK
    <3>2. list'[d] = list[d] \/ list'[d] = Append(list[d], row[d] + 1)
      BY <2>10, <3>1 DEF Row, TypeOK
    <3>3. Agrees(list[d], old[d], row[d])
      BY <2>1, <3>1 DEF ListOf
    <3>4. row[d] \in Nat /\ row[d] + 1 \in 0 .. MaxRows
      BY <2>1, <3>1, SqlAssumption
    <3>5. Agrees(list'[d], old[d], row[d] + 1)
      BY <2>1, <3>2, <3>3, <3>4, RowAgrees
    <3>6. QED
      BY <2>1, <3>1, <3>5 DEF ListOf
  <2>11. CASE End(d)
    <3>1. /\ pc[d] = "rows" /\ pc'[d] = "leave"
          /\ rc' = rc /\ list' = list /\ old' = old /\ row' = row
      BY <2>11 DEF End, locals, TypeOK
    <3>2. QED
      BY <2>1, <3>1 DEF ListOf
  <2>12. CASE Leave(d)
    <3>1. pc'[d] = "idle" /\ rc'[d] = 0 /\ row'[d] = 0
      BY <2>12 DEF Leave, Fresh, TypeOK
    <3>2. list'[d] = [i \in DOMAIN list[d] |-> 0]
      BY <2>12 DEF Leave, Fresh, TypeOK
    <3>3. \A i \in 1 .. Len(list'[d]) : list'[d][i] = 0
      BY <2>1, <3>2, FreshList
    <3>4. QED
      BY <3>1, <3>3 DEF ListOf
  <2>13. QED
    BY <2>2, <2>3, <2>4, <2>5, <2>6, <2>7, <2>8, <2>9, <2>10, <2>11, <2>12
       DEF Next, Statement, vars
<1>3. TypeOK /\ Lists => ResultAgrees
  <2> SUFFICES ASSUME TypeOK, Lists, NEW c \in Callers, pc[c] = "leave", op[c] = "query"
               PROVE  IF rc[c] = 0
                      THEN /\ Len(list[c]) >= old[c]
                           /\ \A i \in 1 .. Len(list[c]) : list[c][i] = 0 <=> i <= old[c]
                           /\ \A i, j \in old[c] + 1 .. Len(list[c]) :
                                i < j => list[c][i] < list[c][j]
                      ELSE Len(list[c]) = (IF conn[c] = NoConn THEN old[c] ELSE 0)
    BY DEF ResultAgrees
  <2>1. QED
    BY DEF ListOf, Agrees
<1> HIDE DEF Lists
<1>4. QED
  BY <1>1, <1>2, <1>3, TypeCorrect, PTL DEF Spec
-----------------------------------------------------------------------------
(***************************************************************************)
(* A statement and the history of the setter calls on it.                  *)
(***************************************************************************)
Statements ==
  [types_ : Seq(ElemType), values : [Kinds -> [Positions -> Nat \cup {NoValue}]]]
Setter == {"value", "type"} \X Positions \X ElemType

\* The n-th call of s is the last one for position i, or n is 0.
LastFor(s, i, n) ==
  /\ n \in 0 .. Len(s)
  /\ n = 0 \/ s[n][2] = i
  /\ \A m \in n + 1 .. Len(s) : s[m][2] # i

\* The calls of s that gave position i a value of kind k.
Given(s, i, k) ==
  {n \in 1 .. Len(s) : s[n][1] = "value" /\ s[n][2] = i /\ s[n][3] = k}

\* v is the value that the last of them gave.
ValueFor(s, i, k, v) ==
  IF Given(s, i, k) = {} THEN v = NoValue
  ELSE v \in Given(s, i, k) /\ \A m \in Given(s, i, k) : m <= v

\* The statement says of every position what the history says.
TypesRecorded(ps, s) ==
  \A i \in Positions : i > 0 =>
    \E n \in 0 .. Len(s) :
      /\ LastFor(s, i, n)
      /\ GetType(ps, i) = IF n = 0 THEN "INVALID" ELSE s[n][3]
ValuesRecorded(ps, s) ==
  \A i \in Positions, k \in Kinds : ValueFor(s, i, k, ps.values[k][i])
OnlyPositions(ps) ==
  \A j \in 1 .. Size(ps) : GetType(ps, j) # "INVALID" => j \in Positions
Recorded(ps, s) ==
  /\ ps \in Statements
  /\ s \in Seq(Setter)
  /\ TypesRecorded(ps, s)
  /\ ValuesRecorded(ps, s)
  /\ OnlyPositions(ps)

\* What SetType does to the type of every position.
LEMMA TypeSet ==
  ASSUME NEW ps \in Statements, NEW i \in Int, NEW t \in ElemType
  PROVE  /\ SetType(ps, i, t) \in Statements
         /\ SetType(ps, i, t).values = ps.values
         /\ i <= 0 => SetType(ps, i, t) = ps
         /\ i > 0 => \A j \in Int :
              GetType(SetType(ps, i, t), j) = IF j = i THEN t ELSE GetType(ps, j)
<1>1. CASE i <= 0
  BY <1>1 DEF SetType
<1>2. CASE i > 0
  <2> DEFINE n == IF i > Size(ps) THEN i ELSE Size(ps)
             f == [j \in 1 .. n |-> IF j = i THEN t ELSE GetType(ps, j)]
  <2>1. ps.types_ \in Seq(ElemType) /\ Size(ps) \in Nat /\ "INVALID" \in ElemType
    BY DEF Statements, Size, ElemType
  <2>2. n \in Nat /\ i \in 1 .. n /\ Size(ps) <= n
    BY <1>2, <2>1
  <2>3. \A j \in Int : GetType(ps, j) \in ElemType
    BY <2>1 DEF GetType, Size
  <2> HIDE DEF n
  <2>4. f \in [1 .. n -> ElemType]
    BY <2>3
  <2>5. f \in Seq(ElemType) /\ Len(f) = n
    BY <2>2, <2>4
  <2>6. SetType(ps, i, t) = [ps EXCEPT !.types_ = f]
    BY <1>2 DEF SetType, n
  <2> DEFINE q == [ps EXCEPT !.types_ = f]
  <2>7. q \in Statements /\ q.types_ = f /\ q.values = ps.values
    <3> HIDE DEF f
    <3>1. QED
      BY <2>5 DEF Statements
  <2>8. \A j \in Int : GetType(q, j) = IF j = i THEN t ELSE GetType(ps, j)
    <3>1. SUFFICES ASSUME NEW j \in Int
                   PROVE  GetType(q, j) = IF j = i THEN t ELSE GetType(ps, j)
      OBVIOUS
    <3>2. GetType(q, j) = IF j \in 1 .. n THEN f[j] ELSE "INVALID"
      <4> HIDE DEF f, q
      <4>1. QED
        BY <2>5, <2>7 DEF GetType, Size
    <3>3. CASE j \in 1 .. n
      BY <3>2, <3>3
    <3>4. CASE j \notin 1 .. n
      <4>1. j # i /\ j \notin 1 .. Size(ps)
        BY <2>1, <2>2, <3>4
      <4>2. QED
        BY <3>2, <3>4, <4>1 DEF GetType
    <3>5. QED
      BY <3>3, <3>4
  <2>9. QED
    BY <1>2, <2>6, <2>7, <2>8
<1>3. QED
  BY <1>1, <1>2

\* What one more call makes the last one for each position.
LEMMA LastAfter ==
  ASSUME NEW s \in Seq(Setter), NEW e \in Setter, NEW j \in Positions
  PROVE  /\ e[2] = j => LastFor(Append(s, e), j, Len(s) + 1)
         /\ e[2] # j => \A n \in 0 .. Len(s) :
              LastFor(s, j, n) => LastFor(Append(s, e), j, n)
<1> DEFINE q == Append(s, e)
<1>1. /\ Len(s) \in Nat /\ Len(q) = Len(s) + 1 /\ q[Len(s) + 1] = e
      /\ \A n \in 1 .. Len(s) : q[n] = s[n]
  OBVIOUS
<1> HIDE DEF q
<1>2. ASSUME e[2] = j PROVE LastFor(q, j, Len(s) + 1)
  <2>1. \A m \in Len(s) + 1 + 1 .. Len(q) : FALSE
    BY <1>1
  <2>2. QED
    BY <1>1, <1>2, <2>1 DEF LastFor
<1>3. ASSUME e[2] # j, NEW n \in 0 .. Len(s), LastFor(s, j, n) PROVE LastFor(q, j, n)
  <2>1. n \in 0 .. Len(q) /\ (n = 0 \/ q[n][2] = j)
    BY <1>1, <1>3 DEF LastFor
  <2>2. ASSUME NEW m \in n + 1 .. Len(q) PROVE q[m][2] # j
    <3>1. CASE m = Len(s) + 1
      BY <1>1, <1>3, <3>1
    <3>2. CASE m \in n + 1 .. Len(s)
      <4>1. m \in 1 .. Len(s)
        BY <1>1, <3>2
      <4>2. QED
        BY <1>1, <1>3, <3>2, <4>1 DEF LastFor
    <3>3. QED
      BY <1>1, <3>1, <3>2
  <2>3. QED
    BY <2>1, <2>2 DEF LastFor
<1>4. QED
  BY <1>2, <1>3 DEF q

\* What one more call gives each position and kind.
LEMMA GivenAfter ==
  ASSUME NEW s \in Seq(Setter), NEW e \in Setter, NEW j \in Positions, NEW k \in Kinds
  PROVE  Given(Append(s, e), j, k) =
           IF e[1] = "value" /\ e[2] = j /\ e[3] = k
           THEN Given(s, j, k) \cup {Len(s) + 1} ELSE Given(s, j, k)
<1> DEFINE q == Append(s, e)
<1>1. /\ Len(s) \in Nat /\ Len(q) = Len(s) + 1 /\ q[Len(s) + 1] = e
      /\ \A n \in 1 .. Len(s) : q[n] = s[n]
  OBVIOUS
<1> HIDE DEF q
<1>2. 1 .. Len(q) = (1 .. Len(s)) \cup {Len(s) + 1}
  BY <1>1
<1>3. Given(q, j, k) = Given(s, j, k) \cup
        {n \in {Len(s) + 1} : e[1] = "value" /\ e[2] = j /\ e[3] = k}
  BY <1>1, <1>2 DEF Given
<1>4. QED
  BY <1>3 DEF q
\* A call that sets the type of position i, and maybe a value there, leaves
\* the types of the statement in agreement with its history.
LEMMA TypesStep ==
  ASSUME NEW ps, NEW s, Recorded(ps, s),
         NEW e \in Setter, NEW qs \in Statements,
         e[2] <= 0 => qs.types_ = ps.types_,
         e[2] > 0 => \A j \in Int :
           GetType(qs, j) = IF j = e[2] THEN e[3] ELSE GetType(ps, j)
  PROVE  TypesRecorded(qs, Append(s, e)) /\ OnlyPositions(qs)
<1> DEFINE q == Append(s, e)
<1>1. /\ ps \in Statements /\ s \in Seq(Setter)
      /\ e[2] \in Positions /\ e[2] \in Int
      /\ Positions \subseteq Int
  BY PreparedStmtAssumption DEF Recorded, Setter
<1>2. /\ Len(s) \in Nat /\ Len(q) = Len(s) + 1 /\ q[Len(s) + 1] = e
      /\ \A n \in 1 .. Len(s) : q[n] = s[n]
  BY <1>1
<1>3. \A j \in Int : j > 0 =>
        GetType(qs, j) = IF j = e[2] THEN e[3] ELSE GetType(ps, j)
  <2>1. CASE e[2] > 0
    BY <2>1
  <2>2. CASE e[2] <= 0
    BY <2>2 DEF GetType, Size
  <2>3. QED
    BY <1>1, <2>1, <2>2
<1>4. \A j \in Positions : e[2] = j => LastFor(q, j, Len(s) + 1)
  BY <1>1, LastAfter
<1>5. \A j \in Positions : e[2] # j =>
        \A n \in 0 .. Len(s) : LastFor(s, j, n) => LastFor(q, j, n)
  BY <1>1, LastAfter
<1> HIDE DEF q
<1>6. TypesRecorded(qs, q)
  <2> SUFFICES ASSUME NEW j \in Positions, j > 0
               PROVE  \E n \in 0 .. Len(q) :
                        /\ LastFor(q, j, n)
                        /\ GetType(qs, j) = IF n = 0 THEN "INVALID" ELSE q[n][3]
    BY DEF TypesRecorded
  <2>1. GetType(qs, j) = IF j = e[2] THEN e[3] ELSE GetType(ps, j)
    BY <1>1, <1>3
  <2>2. CASE j = e[2]
    <3>1. Len(s) + 1 \in 0 .. Len(q) /\ Len(s) + 1 # 0
      BY <1>2
    <3>2. QED
      BY <1>2, <1>4, <2>1, <2>2, <3>1
  <2>3. CASE j # e[2]
    <3>1. PICK n \in 0 .. Len(s) :
            /\ LastFor(s, j, n)
            /\ GetType(ps, j) = IF n = 0 THEN "INVALID" ELSE s[n][3]
      BY DEF Recorded, TypesRecorded
    <3>2. LastFor(q, j, n) /\ n \in 0 .. Len(q)
      BY <1>2, <1>5, <2>3, <3>1
    <3>3. n # 0 => q[n] = s[n]
      BY <1>2, <3>1
    <3>4. QED
      BY <2>1, <2>3, <3>1, <3>2, <3>3
  <2>4. QED
    BY <2>2, <2>3
<1>7. OnlyPositions(qs)
  <2> SUFFICES ASSUME NEW j \in 1 .. Size(qs), GetType(qs, j) # "INVALID",
                      j # e[2]
               PROVE  j \in Positions
    BY <1>1 DEF OnlyPositions
  <2>1. Size(qs) \in Nat /\ j \in Int /\ j > 0
    BY DEF Statements, Size
  <2>2. GetType(ps, j) # "INVALID"
    BY <1>3, <2>1
  <2>3. j \in 1 .. Size(ps)
    BY <2>2 DEF GetType
  <2>4. QED
    BY <2>2, <2>3 DEF Recorded, OnlyPositions
<1>8. QED
  BY <1>6, <1>7 DEF q

\* The same for the values.
LEMMA ValuesStep ==
  ASSUME NEW ps, NEW s, Recorded(ps, s),
         NEW e \in Setter, NEW qs \in Statements,
         \A i \in Positions, k \in Kinds :
           qs.values[k][i] =
             IF e[1] = "value" /\ e[2] = i /\ e[3] = k THEN Len(s) + 1
             ELSE ps.values[k][i]
  PROVE  ValuesRecorded(qs, Append(s, e))
<1> DEFINE q == Append(s, e)
<1>1. s \in Seq(Setter) /\ Len(s) \in Nat
  BY DEF Recorded
<1>2. \A i \in Positions, k \in Kinds :
        Given(q, i, k) = IF e[1] = "value" /\ e[2] = i /\ e[3] = k
                         THEN Given(s, i, k) \cup {Len(s) + 1} ELSE Given(s, i, k)
  BY <1>1, GivenAfter
<1> HIDE DEF q
<1>3. ASSUME NEW i \in Positions, NEW k \in Kinds
      PROVE  ValueFor(q, i, k, qs.values[k][i])
  <2>1. ValueFor(s, i, k, ps.values[k][i])
    BY DEF Recorded, ValuesRecorded
  <2>2. CASE e[1] = "value" /\ e[2] = i /\ e[3] = k
    <3>1. qs.values[k][i] = Len(s) + 1
      BY <2>2
    <3>2. Given(q, i, k) = Given(s, i, k) \cup {Len(s) + 1}
      BY <1>2, <2>2
    <3>3. \A m \in Given(s, i, k) : m \in 1 .. Len(s)
      BY DEF Given
    <3>4. \A m \in Given(q, i, k) : m <= Len(s) + 1
      BY <1>1, <3>2, <3>3
    <3>5. QED
      BY <3>1, <3>2, <3>4 DEF ValueFor
  <2>3. CASE ~(e[1] = "value" /\ e[2] = i /\ e[3] = k)
    <3>1. qs.values[k][i] = ps.values[k][i] /\ Given(q, i, k) = Given(s, i, k)
      BY <1>2, <2>3
    <3>2. QED
      BY <2>1, <3>1 DEF ValueFor
  <2>4. QED
    BY <2>2, <2>3
<1>4. QED
  BY <1>3 DEF ValuesRecorded, q

\* A new statement without history.
LEMMA NewRecorded == Recorded(New, <<>>)
<1>1. New.types_ = <<>> /\ New.values = [k \in Kinds |-> [i \in Positions |-> NoValue]]
  BY DEF New
<1>2. New \in Statements
  BY DEF New, Statements
<1>3. Size(New) = 0 /\ Len(<<>>) = 0
  BY <1>1 DEF Size
<1>4. \A i \in 1 .. 0 : FALSE
  OBVIOUS
<1>5. \A i : GetType(New, i) = "INVALID"
  BY <1>3, <1>4 DEF GetType
<1>6. TypesRecorded(New, <<>>)
  <2>1. \A i \in Positions : LastFor(<<>>, i, 0)
    <3>1. \A m \in 0 + 1 .. Len(<<>>) : FALSE
      BY <1>3
    <3>2. QED
      BY <1>3, <3>1 DEF LastFor
  <2>2. 0 \in 0 .. Len(<<>>)
    BY <1>3
  <2>3. QED
    BY <1>5, <2>1, <2>2 DEF TypesRecorded
<1>7. ValuesRecorded(New, <<>>)
  <2>1. \A i \in Positions, k \in Kinds : Given(<<>>, i, k) = {}
    BY <1>3, <1>4 DEF Given
  <2>2. QED
    BY <1>1, <2>1 DEF ValuesRecorded, ValueFor
<1>8. OnlyPositions(New)
  BY <1>5 DEF OnlyPositions
<1>9. QED
  BY <1>2, <1>6, <1>7, <1>8 DEF Recorded

\* setInt, setString and setDouble.
LEMMA SetRecorded ==
  ASSUME NEW ps, NEW s, Recorded(ps, s), NEW k \in Kinds, NEW i \in Positions
  PROVE  Recorded(Set(ps, k, i, Len(s) + 1), Append(s, <<"value", i, k>>))
<1> DEFINE e == <<"value", i, k>>
           vs == [ps EXCEPT !.values[k][i] = Len(s) + 1]
           qs == SetType(vs, i, k)
<1>1. /\ ps \in Statements /\ s \in Seq(Setter) /\ i \in Int /\ k \in ElemType
      /\ Len(s) + 1 \in Nat
  BY PreparedStmtAssumption DEF Recorded, ElemType
<1>2. e \in Setter /\ e[1] = "value" /\ e[2] = i /\ e[3] = k
  BY <1>1 DEF Setter
<1>3. vs \in Statements /\ vs.types_ = ps.types_
  BY <1>1 DEF Statements
<1>4. \A j \in Positions, h \in Kinds :
        vs.values[h][j] = IF j = i /\ h = k THEN Len(s) + 1 ELSE ps.values[h][j]
  BY <1>1 DEF Statements
<1>5. \A j : GetType(vs, j) = GetType(ps, j)
  BY <1>3 DEF GetType, Size
<1> HIDE DEF vs, e
<1>6. /\ qs \in Statements /\ qs.values = vs.values
      /\ i <= 0 => qs = vs
      /\ i > 0 => \A j \in Int :
           GetType(qs, j) = IF j = i THEN k ELSE GetType(vs, j)
  BY <1>1, <1>3, TypeSet
<1> HIDE DEF qs
<1>7. TypesRecorded(qs, Append(s, e)) /\ OnlyPositions(qs)
  <2>1. e[2] <= 0 => qs.types_ = ps.types_
    BY <1>2, <1>3, <1>6
  <2>2. e[2] > 0 => \A j \in Int :
          GetType(qs, j) = IF j = e[2] THEN e[3] ELSE GetType(ps, j)
    BY <1>2, <1>5, <1>6
  <2>3. QED
    BY <1>2, <1>6, <2>1, <2>2, TypesStep
<1>8. ValuesRecorded(qs, Append(s, e))
  <2>1. \A j \in Positions, h \in Kinds :
          qs.values[h][j] =
            IF e[1] = "value" /\ e[2] = j /\ e[3] = h THEN Len(s) + 1
            ELSE ps.values[h][j]
    BY <1>2, <1>4, <1>6
  <2>2. QED
    BY <1>2, <1>6, <2>1, ValuesStep
<1>9. Append(s, e) \in Seq(Setter)
  BY <1>1, <1>2
<1>10. QED
  BY <1>6, <1>7, <1>8, <1>9 DEF Recorded, Set, qs, vs, e

\* The public setType.
LEMMA RetypeRecorded ==
  ASSUME NEW ps, NEW s, Recorded(ps, s), NEW t \in ElemType, NEW i \in Positions
  PROVE  Recorded(SetType(ps, i, t), Append(s, <<"type", i, t>>))
<1> DEFINE e == <<"type", i, t>>
           qs == SetType(ps, i, t)
<1>1. ps \in Statements /\ s \in Seq(Setter) /\ i \in Int
  BY PreparedStmtAssumption DEF Recorded
<1>2. e \in Setter /\ e[1] = "type" /\ e[2] = i /\ e[3] = t
  BY DEF Setter
<1> HIDE DEF e
<1>3. /\ qs \in Statements /\ qs.values = ps.values
      /\ i <= 0 => qs = ps
      /\ i > 0 => \A j \in Int :
           GetType(qs, j) = IF j = i THEN t ELSE GetType(ps, j)
  BY <1>1, TypeSet
<1> HIDE DEF qs
<1>4. TypesRecorded(qs, Append(s, e)) /\ OnlyPositions(qs)
  BY <1>2, <1>3, TypesStep
<1>5. ValuesRecorded(qs, Append(s, e))
  BY <1>2, <1>3, ValuesStep
<1>6. Append(s, e) \in Seq(Setter)
  BY <1>1, <1>2
<1>7. QED
  BY <1>3, <1>4, <1>5, <1>6 DEF Recorded, qs, e
\* LastAt and ValueAt choose what LastFor and ValueFor describe.
LEMMA LastIs ==
  ASSUME NEW c \in Callers, sets[c] \in Seq(Setter), NEW i,
         NEW n \in 0 .. Len(sets[c]), LastFor(sets[c], i, n)
  PROVE  LastAt(c, i) = n
<1>1. Len(sets[c]) \in Nat
  OBVIOUS
<1>2. LastFor(sets[c], i, LastAt(c, i))
  BY DEF LastFor, LastAt
<1>3. \A m \in 0 .. Len(sets[c]) : LastFor(sets[c], i, m) => ~(m < n) /\ ~(n < m)
  <2> SUFFICES ASSUME NEW m \in 0 .. Len(sets[c]), LastFor(sets[c], i, m)
               PROVE  ~(m < n) /\ ~(n < m)
    OBVIOUS
  <2>1. m < n => n \in m + 1 .. Len(sets[c])
    BY <1>1
  <2>2. n < m => m \in n + 1 .. Len(sets[c])
    BY <1>1
  <2>3. QED
    BY <2>1, <2>2 DEF LastFor
<1>4. LastAt(c, i) \in 0 .. Len(sets[c])
  BY <1>2 DEF LastFor
<1>5. QED
  BY <1>1, <1>2, <1>3, <1>4

\* The same for the value last given.
LEMMA ValueIs ==
  ASSUME NEW c \in Callers, sets[c] \in Seq(Setter), NEW i, NEW k, NEW v,
         ValueFor(sets[c], i, k, v)
  PROVE  ValueAt(c, i, k) = v
<1> DEFINE given == Given(sets[c], i, k)
<1>1. ValueAt(c, i, k) =
        IF given = {} THEN NoValue
        ELSE CHOOSE n \in given : \A m \in given : m <= n
  BY DEF ValueAt, Given
<1>2. given \subseteq Nat
  BY DEF Given
<1> HIDE DEF given
<1>3. CASE given = {}
  BY <1>1, <1>3 DEF ValueFor, given
<1>4. CASE given # {}
  <2>1. v \in given /\ \A m \in given : m <= v
    BY <1>4 DEF ValueFor, given
  <2> DEFINE w == CHOOSE n \in given : \A m \in given : m <= n
  <2>2. w \in given /\ \A m \in given : m <= w
    BY <2>1
  <2> HIDE DEF w
  <2>3. v <= w /\ w <= v /\ v \in Nat /\ w \in Nat
    BY <1>2, <2>1, <2>2
  <2>4. v = w
    BY <2>3
  <2>5. QED
    BY <1>1, <1>4, <2>4 DEF w
<1>5. QED
  BY <1>3, <1>4

\* What the driver is given, read off the history of the statement.
LEMMA BindingsOf ==
  ASSUME NEW c \in Callers, Recorded(stmt[c], sets[c])
  PROVE  Bindings(stmt[c]) =
           {<<i, sets[c][LastAt(c, i)][3], ValueAt(c, i, sets[c][LastAt(c, i)][3])>> :
              i \in {j \in Positions :
                       /\ j > 0 /\ LastAt(c, j) # 0
                       /\ sets[c][LastAt(c, j)][3] # "INVALID"}}
<1> DEFINE ps == stmt[c]
           s == sets[c]
           T(i) == s[LastAt(c, i)][3]
           A == {j \in 1 .. Size(ps) : GetType(ps, j) # "INVALID"}
           B == {j \in Positions : j > 0 /\ LastAt(c, j) # 0 /\ T(j) # "INVALID"}
<1>1. ps \in Statements /\ s \in Seq(Setter) /\ Positions \subseteq Int
  BY PreparedStmtAssumption DEF Recorded
<1>2. \A i \in Positions : i > 0 =>
        GetType(ps, i) = IF LastAt(c, i) = 0 THEN "INVALID" ELSE T(i)
  <2> SUFFICES ASSUME NEW i \in Positions, i > 0
               PROVE  GetType(ps, i) = IF LastAt(c, i) = 0 THEN "INVALID" ELSE T(i)
    OBVIOUS
  <2>1. PICK n \in 0 .. Len(s) :
          /\ LastFor(s, i, n)
          /\ GetType(ps, i) = IF n = 0 THEN "INVALID" ELSE s[n][3]
    BY DEF Recorded, TypesRecorded
  <2>2. LastAt(c, i) = n
    BY <1>1, <2>1, LastIs
  <2>3. QED
    BY <2>1, <2>2
<1>3. \A i : GetType(ps, i) # "INVALID" => i \in 1 .. Size(ps)
  BY DEF GetType
<1>4. \A i \in 1 .. Size(ps) : i > 0
  BY <1>1 DEF Statements, Size
<1>5. A = B
  <2>1. \A i \in A : i \in B
    BY <1>2, <1>4 DEF Recorded, OnlyPositions
  <2>2. \A i \in B : i \in A
    BY <1>2, <1>3
  <2>3. QED
    BY <2>1, <2>2
<1>6. \A i \in B : T(i) = GetType(ps, i) /\ T(i) \in Kinds
  <2> SUFFICES ASSUME NEW i \in B PROVE T(i) = GetType(ps, i) /\ T(i) \in Kinds
    OBVIOUS
  <2>1. T(i) = GetType(ps, i) /\ i \in 1 .. Size(ps) /\ T(i) # "INVALID"
    BY <1>2, <1>5
  <2>2. ps.types_ \in Seq(ElemType)
    BY <1>1 DEF Statements
  <2>3. GetType(ps, i) \in ElemType
    BY <2>1, <2>2 DEF GetType, Size
  <2>4. QED
    BY <2>1, <2>3 DEF ElemType
<1>7. \A i \in B : ValueAt(c, i, T(i)) = Get(ps, GetType(ps, i), i)
  <2> SUFFICES ASSUME NEW i \in B
               PROVE  ValueAt(c, i, T(i)) = Get(ps, GetType(ps, i), i)
    OBVIOUS
  <2>1. ValueFor(s, i, T(i), ps.values[T(i)][i])
    BY <1>6 DEF Recorded, ValuesRecorded
  <2>2. ValueAt(c, i, T(i)) = ps.values[T(i)][i]
    BY <1>1, <2>1, ValueIs
  <2>3. QED
    BY <1>6, <2>2 DEF Get
<1>8. Bindings(ps) = {<<i, GetType(ps, i), Get(ps, GetType(ps, i), i)>> : i \in A}
  BY DEF Bindings
<1>9. {<<i, GetType(ps, i), Get(ps, GetType(ps, i), i)>> : i \in A} =
        {<<i, T(i), ValueAt(c, i, T(i))>> : i \in B}
  <2> HIDE DEF A, B, T
  <2>1. QED
    BY <1>5, <1>6, <1>7
<1>10. QED
  BY <1>8, <1>9

\* The statement of a caller agrees with its history, and is what the driver
\* was given.
BoundOf(c) ==
  /\ Recorded(stmt[c], sets[c])
  /\ pc[c] = "rows" \/ (pc[c] = "leave" /\ rc[c] = 0) => bound[c] = Bindings(stmt[c])

\* The driver is given what was asked for last, in every statement with any
\* positions, set and retyped in any order, any number of times.
THEOREM BoundAsAsked == Spec => []BoundAsSet
<1> DEFINE Fns ==
      /\ stmt \in [Callers -> Statements]
      /\ sets \in [Callers -> Seq(Setter)]
      /\ bound = [c \in Callers |-> bound[c]]
    Bounds == Fns /\ \A c \in Callers : BoundOf(c)
<1>1. Init => Bounds
  <2> SUFFICES ASSUME Init PROVE Bounds
    OBVIOUS
  <2>1. New \in Statements /\ <<>> \in Seq(Setter)
    BY NewRecorded DEF Recorded
  <2>2. Fns
    BY <2>1 DEF Init
  <2>3. \A c \in Callers : BoundOf(c)
    BY NewRecorded DEF Init, BoundOf
  <2>4. QED
    BY <2>2, <2>3
<1>2. TypeOK /\ Bounds /\ [Next]_vars => Bounds'
  <2> SUFFICES ASSUME TypeOK, Bounds, [Next]_vars PROVE Bounds'
    OBVIOUS
  <2>1. CASE UNCHANGED <<pc, rc, stmt, sets, bound>>
    BY <2>1 DEF BoundOf
  <2>2. ASSUME NEW c \in Callers, SetParam(c) PROVE Bounds'
    <3>1. PICK k \in Kinds, i \in Positions :
            /\ sets' = [sets EXCEPT ![c] = Append(sets[c], <<"value", i, k>>)]
            /\ stmt' = [stmt EXCEPT ![c] = Set(stmt[c], k, i, Len(sets'[c]))]
      BY <2>2 DEF SetParam
    <3>2. sets[c] \in Seq(Setter) /\ Recorded(stmt[c], sets[c])
      BY DEF BoundOf
    <3>3. sets'[c] = Append(sets[c], <<"value", i, k>>)
          /\ Len(sets'[c]) = Len(sets[c]) + 1
      BY <3>1, <3>2
    <3>4. stmt'[c] = Set(stmt[c], k, i, Len(sets[c]) + 1)
      BY <3>1, <3>3
    <3>5. Recorded(stmt'[c], sets'[c])
      BY <3>2, <3>3, <3>4, SetRecorded
    <3>6. stmt'[c] \in Statements /\ sets'[c] \in Seq(Setter)
      BY <3>5 DEF Recorded
    <3>7. \A d \in Callers \ {c} : stmt'[d] = stmt[d] /\ sets'[d] = sets[d]
      BY <3>1
    <3>8. stmt' \in [Callers -> Statements] /\ sets' \in [Callers -> Seq(Setter)]
      BY <3>1, <3>6
    <3>9. pc[c] = "idle" /\ pc' = pc /\ rc' = rc /\ bound' = bound
      BY <2>2 DEF SetParam
    <3>10. \A d \in Callers : BoundOf(d)'
      BY <3>5, <3>7, <3>9 DEF BoundOf
    <3>11. QED
      BY <3>8, <3>9, <3>10
  <2>3. ASSUME NEW c \in Callers, Retype(c) PROVE Bounds'
    <3>1. PICK t \in ElemType, i \in Positions :
            /\ stmt' = [stmt EXCEPT ![c] = SetType(stmt[c], i, t)]
            /\ sets' = [sets EXCEPT ![c] = Append(sets[c], <<"type", i, t>>)]
      BY <2>3 DEF Retype
    <3>2. Recorded(stmt[c], sets[c])
      BY DEF BoundOf
    <3>3. Recorded(stmt'[c], sets'[c])
      BY <3>1, <3>2, RetypeRecorded
    <3>4. stmt'[c] \in Statements /\ sets'[c] \in Seq(Setter)
      BY <3>3 DEF Recorded
    <3>5. \A d \in Callers \ {c} : stmt'[d] = stmt[d] /\ sets'[d] = sets[d]
      BY <3>1
    <3>6. stmt' \in [Callers -> Statements] /\ sets' \in [Callers -> Seq(Setter)]
      BY <3>1, <3>4
    <3>7. pc[c] = "idle" /\ pc' = pc /\ rc' = rc /\ bound' = bound
      BY <2>3 DEF Retype
    <3>8. \A d \in Callers : BoundOf(d)'
      BY <3>3, <3>5, <3>7 DEF BoundOf
    <3>9. QED
      BY <3>6, <3>7, <3>8
  <2>4. ASSUME NEW c \in Callers, stmt' = stmt, sets' = sets, bound' = bound,
               \A d \in Callers :
                 pc'[d] = "rows" \/ (pc'[d] = "leave" /\ rc'[d] = 0) =>
                   pc[d] = "rows" \/ (pc[d] = "leave" /\ rc[d] = 0)
        PROVE  Bounds'
    BY <2>4 DEF BoundOf
  <2>5. ASSUME NEW c \in Callers, Call(c) PROVE Bounds'
    <3>1. /\ pc' = [pc EXCEPT ![c] = "guard"] /\ rc' = rc
          /\ stmt' = stmt /\ sets' = sets /\ bound' = bound
      BY <2>5 DEF Call
    <3>2. QED
      BY <2>4, <3>1 DEF TypeOK
  <2>6. ASSUME NEW c \in Callers, Borrow(c) PROVE Bounds'
    <3>1. /\ pc' = [pc EXCEPT ![c] = "execute"] /\ rc' = rc
          /\ stmt' = stmt /\ sets' = sets /\ bound' = bound
      BY <2>6 DEF Borrow, locals
    <3>2. QED
      BY <2>4, <3>1 DEF TypeOK
  <2>7. ASSUME NEW c \in Callers, BorrowNothing(c) \/ Catch(c) PROVE Bounds'
    <3>1. /\ pc' = [pc EXCEPT ![c] = "leave"] /\ rc' = [rc EXCEPT ![c] = -1]
          /\ stmt' = stmt /\ sets' = sets /\ bound' = bound
      BY <2>7 DEF BorrowNothing, Catch
    <3>2. pc'[c] = "leave" /\ rc'[c] # 0
      BY <3>1 DEF TypeOK
    <3>3. \A d \in Callers \ {c} : pc'[d] = pc[d] /\ rc'[d] = rc[d]
      BY <3>1 DEF TypeOK
    <3>4. QED
      BY <2>4, <3>1, <3>2, <3>3
  <2>8. ASSUME NEW c \in Callers, End(c) PROVE Bounds'
    <3>1. /\ pc[c] = "rows" /\ pc' = [pc EXCEPT ![c] = "leave"] /\ rc' = rc
          /\ stmt' = stmt /\ sets' = sets /\ bound' = bound
      BY <2>8 DEF End, locals
    <3>2. QED
      BY <2>4, <3>1 DEF TypeOK
  <2>9. ASSUME NEW c \in Callers, Row(c) PROVE Bounds'
    BY <2>1, <2>9 DEF Row
  <2>10. ASSUME NEW c \in Callers, Execute(c) PROVE Bounds'
    <3>1. /\ bound' = [bound EXCEPT ![c] = Bindings(stmt[c])]
          /\ \A d \in Callers \ {c} : pc'[d] = pc[d]
          /\ rc' = rc /\ stmt' = stmt /\ sets' = sets
      BY <2>10 DEF Execute, TypeOK
    <3>2. bound'[c] = Bindings(stmt[c])
          /\ \A d \in Callers \ {c} : bound'[d] = bound[d]
      BY <3>1
    <3>3. \A d \in Callers : BoundOf(d)'
      BY <3>1, <3>2 DEF BoundOf
    <3>4. QED
      BY <3>1, <3>3
  <2>11. ASSUME NEW c \in Callers, Leave(c) PROVE Bounds'
    <3>1. /\ pc' = [pc EXCEPT ![c] = "idle"]
          /\ rc' = [rc EXCEPT ![c] = 0]
          /\ bound' = [bound EXCEPT ![c] = {}]
          /\ stmt' = stmt /\ sets' = sets
      BY <2>11 DEF Leave, Fresh
    <3>2. \A d \in Callers : BoundOf(d)'
      BY <3>1 DEF BoundOf, TypeOK
    <3>3. QED
      BY <3>1, <3>2
  <2>12. QED
    BY <2>1, <2>2, <2>3, <2>5, <2>6, <2>7, <2>8, <2>9, <2>10, <2>11
       DEF Next, Statement, vars
<1>3. Bounds => BoundAsSet
  <2> SUFFICES ASSUME Bounds PROVE BoundAsSet
    OBVIOUS
  <2>1. \A c \in Callers :
          pc[c] = "rows" \/ (pc[c] = "leave" /\ rc[c] = 0) =>
            bound[c] = Bindings(stmt[c]) /\ Recorded(stmt[c], sets[c])
    BY DEF BoundOf
  <2>2. QED
    BY <2>1, BindingsOf DEF BoundAsSet
<1> HIDE DEF Bounds
<1>4. QED
  BY <1>1, <1>2, <1>3, TypeCorrect, PTL DEF Spec
-----------------------------------------------------------------------------
(***************************************************************************)
(* The configuration, for files of any lines in any order.                 *)
(***************************************************************************)

\* A nonempty set of naturals has a least member.
LEMMA NatMin ==
  ASSUME NEW T, T \subseteq Nat, T # {}
  PROVE  \E m \in T : \A n \in T : m <= n
<1>1. PICK m \in T : \A n \in T : ~(<<n, m>> \in OpToRel(<, Nat))
  BY NatLessThanWellFounded, WFMin
<1>2. \A n \in T : <<n, m>> \in OpToRel(<, Nat) <=> n < m
  BY DEF OpToRel
<1>3. \A n \in T : ~(n < m) /\ n \in Nat /\ m \in Nat
  BY <1>1, <1>2
<1>4. QED
  BY <1>3

\* A nonempty set of numbers from 1 to n has a largest and a smallest member.
LEMMA MaxIs ==
  ASSUME NEW n \in Nat, NEW T, T \subseteq 1 .. n, T # {}
  PROVE  Max(T) \in T /\ \A x \in T : x <= Max(T)
<1> DEFINE U == {n - x : x \in T}
<1>1. U \subseteq Nat /\ U # {}
  <2>1. \A x \in T : n - x \in Nat
    OBVIOUS
  <2>2. QED
    BY <2>1
<1>2. PICK u \in U : \A v \in U : u <= v
  BY <1>1, NatMin
<1>3. PICK m \in T : u = n - m
  BY <1>2
<1>4. \A x \in T : m >= x
  BY <1>2, <1>3
<1>5. Max(T) \in T /\ \A x \in T : Max(T) >= x
  BY <1>4 DEF Max
<1>6. QED
  BY <1>5

\* ... and a smallest one.
LEMMA MinIs ==
  ASSUME NEW n \in Nat, NEW T, T \subseteq 1 .. n, T # {}
  PROVE  Min(T) \in T /\ \A x \in T : Min(T) <= x
<1>1. T \subseteq Nat
  OBVIOUS
<1>2. \E m \in T : \A x \in T : m <= x
  BY <1>1, NatMin
<1>3. QED
  BY <1>2 DEF Min

\* Line i is a header, with the name s.
IsHead(q, i) == q[i].kind = "header"
IsOwn(q, i, s) == q[i].kind = "header" /\ q[i].name = s

\* Line i begins the last block of s in the first m lines of q.
Heads(q, m, s, i) ==
  i \in 1 .. m /\ IsOwn(q, i, s) /\ \A h \in i + 1 .. m : ~IsOwn(q, h, s)

\* The lines among the first m that give the key k in the last block of s.
InBlock(q, m, s, k) ==
  {j \in 1 .. m :
     /\ q[j].kind = "entry" /\ q[j].key = k
     /\ \E i \in 1 .. m :
          Heads(q, m, s, i) /\ i < j /\ \A h \in i + 1 .. j : ~IsHead(q, h)}

\* keyMap is the section of the last header.
Current(q, m) ==
  \/ /\ keyMap \in {"null", "wild"}
     /\ \A i \in 1 .. m : ~IsHead(q, i)
  \/ /\ keyMap \in Sections
     /\ \E i \in 1 .. m :
          IsOwn(q, i, keyMap) /\ \A h \in i + 1 .. m : ~IsHead(q, h)

\* configMap holds what the first m lines say: every section that has a
\* header, every key of its last block, and of the key the first line, or one
\* of the texts G.
Answers(q, m, G, s, k) ==
  /\ s \in DOMAIN configMap <=> \E i \in 1 .. m : IsOwn(q, i, s)
  /\ s \in DOMAIN configMap =>
       /\ k \in DOMAIN configMap[s] <=> InBlock(q, m, s, k) # {}
       /\ k \in DOMAIN configMap[s] =>
            \E j \in InBlock(q, m, s, k) :
              /\ \A i \in InBlock(q, m, s, k) : j <= i
              /\ configMap[s][k] \in {q[j].val} \cup G
Mapped(q, m, G) ==
  Current(q, m) /\ \A s \in Sections, k \in Keys : Answers(q, m, G, s, k)

\* What one more line makes of the blocks: a header begins one, an entry
\* belongs to the current one.
LEMMA BlockAfter ==
  ASSUME NEW q \in Seq(Lines), NEW l \in Lines, NEW s \in Sections, NEW k \in Keys
  PROVE  LET z == Append(q, l)
             n == Len(q)
         IN  /\ InBlock(z, n, s, k) = InBlock(q, n, s, k)
             /\ l.kind = "header" /\ l.name = s => InBlock(z, n + 1, s, k) = {}
             /\ l.kind = "header" /\ l.name # s =>
                  InBlock(z, n + 1, s, k) = InBlock(q, n, s, k)
             /\ l.kind = "other" => InBlock(z, n + 1, s, k) = InBlock(q, n, s, k)
             /\ l.kind = "entry" /\ l.key # k =>
                  InBlock(z, n + 1, s, k) = InBlock(q, n, s, k)
             /\ l.kind = "entry" /\ l.key = k =>
                  InBlock(z, n + 1, s, k) =
                    IF \E i \in 1 .. n : Heads(q, n, s, i) /\ \A h \in i + 1 .. n : ~IsHead(q, h)
                    THEN InBlock(q, n, s, k) \cup {n + 1} ELSE InBlock(q, n, s, k)
<1> DEFINE z == Append(q, l)
           n == Len(q)
<1>1. /\ n \in Nat /\ z[n + 1] = l
      /\ \A i \in 1 .. n : z[i] = q[i]
  OBVIOUS
<1> HIDE DEF z, n
<1>2. \A i \in 1 .. n + 1 : i \in 1 .. n \/ i = n + 1
  BY <1>1
<1>3. \A i \in 1 .. n : /\ IsHead(z, i) <=> IsHead(q, i)
                        /\ IsOwn(z, i, s) <=> IsOwn(q, i, s)
  BY <1>1 DEF IsHead, IsOwn
<1>4. \A i \in 1 .. n : Heads(z, n, s, i) <=> Heads(q, n, s, i)
  <2> SUFFICES ASSUME NEW i \in 1 .. n PROVE Heads(z, n, s, i) <=> Heads(q, n, s, i)
    OBVIOUS
  <2>1. \A h \in i + 1 .. n : h \in 1 .. n
    BY <1>1
  <2>2. QED
    BY <1>3, <2>1 DEF Heads
<1>5. InBlock(z, n, s, k) = InBlock(q, n, s, k)
  <2>1. \A i \in 1 .. n, j \in 1 .. n : i < j =>
          ((\A h \in i + 1 .. j : ~IsHead(z, h)) <=> \A h \in i + 1 .. j : ~IsHead(q, h))
    <3>1. \A i \in 1 .. n, j \in 1 .. n : \A h \in i + 1 .. j : h \in 1 .. n
      BY <1>1
    <3>2. QED
      BY <1>3, <3>1
  <2>2. \A j \in 1 .. n : j \in InBlock(z, n, s, k) <=> j \in InBlock(q, n, s, k)
    BY <1>1, <1>4, <2>1 DEF InBlock
  <2>3. QED
    BY <2>2 DEF InBlock
<1>6. ASSUME ~(l.kind = "header" /\ l.name = s)
      PROVE  /\ \A i \in 1 .. n : Heads(z, n + 1, s, i) <=> Heads(q, n, s, i)
             /\ ~Heads(z, n + 1, s, n + 1)
  <2>1. ~IsOwn(z, n + 1, s)
    BY <1>1, <1>6 DEF IsOwn
  <2>2. ASSUME NEW i \in 1 .. n PROVE Heads(z, n + 1, s, i) <=> Heads(z, n, s, i)
    <3>1. i \in 1 .. n + 1 /\ \A h : h \in i + 1 .. n + 1 <=> h \in i + 1 .. n \/ h = n + 1
      BY <1>1
    <3>2. QED
      BY <2>1, <3>1 DEF Heads
  <2>3. QED
    BY <1>4, <2>1, <2>2 DEF Heads
<1>7. ASSUME ~(l.kind = "header" /\ l.name = s)
      PROVE  \A j \in 1 .. n : j \in InBlock(z, n + 1, s, k) <=> j \in InBlock(z, n, s, k)
  <2>1. \A i \in 1 .. n + 1 : Heads(z, n + 1, s, i) <=> i \in 1 .. n /\ Heads(z, n, s, i)
    BY <1>2, <1>4, <1>6, <1>7
  <2>2. 1 .. n \subseteq 1 .. n + 1
    BY <1>1
  <2>3. QED
    BY <2>1, <2>2 DEF InBlock
<1>8. ASSUME l.kind # "entry" \/ l.key # k PROVE n + 1 \notin InBlock(z, n + 1, s, k)
  BY <1>1, <1>8 DEF InBlock
<1>9. \A p : p \in InBlock(z, n + 1, s, k) => p \in 1 .. n \/ p = n + 1
  BY <1>2 DEF InBlock
<1>10. \A p : p \in InBlock(q, n, s, k) => p \in 1 .. n
  BY DEF InBlock
<1>11. ASSUME ~(l.kind = "header" /\ l.name = s), l.kind # "entry" \/ l.key # k
       PROVE  InBlock(z, n + 1, s, k) = InBlock(q, n, s, k)
  <2>1. \A p : p \in InBlock(z, n + 1, s, k) <=> p \in InBlock(q, n, s, k)
    BY <1>1, <1>5, <1>7, <1>8, <1>9, <1>10, <1>11
  <2>2. QED
    BY <2>1 DEF InBlock
<1>12. ASSUME l.kind = "header", l.name = s PROVE InBlock(z, n + 1, s, k) = {}
  <2>1. IsOwn(z, n + 1, s)
    BY <1>1, <1>12 DEF IsOwn
  <2>2. \A i \in 1 .. n : n + 1 \in i + 1 .. n + 1
    BY <1>1
  <2>3. \A i \in 1 .. n + 1 : Heads(z, n + 1, s, i) => i = n + 1
    BY <1>2, <2>1, <2>2 DEF Heads
  <2>4. QED
    BY <1>1, <2>3 DEF InBlock
<1>13. ASSUME l.kind = "entry", l.key = k
       PROVE  InBlock(z, n + 1, s, k) =
                IF \E i \in 1 .. n : Heads(q, n, s, i) /\ \A h \in i + 1 .. n : ~IsHead(q, h)
                THEN InBlock(q, n, s, k) \cup {n + 1} ELSE InBlock(q, n, s, k)
  <2> DEFINE E == \E i \in 1 .. n : Heads(q, n, s, i) /\ \A h \in i + 1 .. n : ~IsHead(q, h)
  <2>1. ~IsHead(z, n + 1)
    BY <1>1, <1>13 DEF IsHead
  <2>2. ASSUME NEW i \in 1 .. n
        PROVE  (\A h \in i + 1 .. n + 1 : ~IsHead(z, h)) <=> \A h \in i + 1 .. n : ~IsHead(q, h)
    <3>1. \A h : h \in i + 1 .. n + 1 <=> h \in i + 1 .. n \/ h = n + 1
      BY <1>1
    <3>2. \A h \in i + 1 .. n : h \in 1 .. n
      BY <1>1
    <3>3. QED
      BY <1>3, <2>1, <3>1, <3>2
  <2>3. n + 1 \in InBlock(z, n + 1, s, k) <=>
          \E i \in 1 .. n + 1 : /\ Heads(z, n + 1, s, i) /\ i < n + 1
                                /\ \A h \in i + 1 .. n + 1 : ~IsHead(z, h)
    BY <1>1, <1>13 DEF InBlock
  <2>4. \A i \in 1 .. n + 1 : i < n + 1 <=> i \in 1 .. n
    BY <1>1
  <2>5. n + 1 \in InBlock(z, n + 1, s, k) <=> E
    <3>1. \A i \in 1 .. n : i \in 1 .. n + 1 /\ i < n + 1
      BY <1>1
    <3>2. \A i \in 1 .. n : Heads(z, n + 1, s, i) <=> Heads(q, n, s, i)
      BY <1>6, <1>13
    <3>3. ASSUME E PROVE n + 1 \in InBlock(z, n + 1, s, k)
      BY <2>2, <2>3, <3>1, <3>2, <3>3
    <3>4. ASSUME n + 1 \in InBlock(z, n + 1, s, k) PROVE E
      <4>1. PICK i \in 1 .. n + 1 : /\ Heads(z, n + 1, s, i) /\ i < n + 1
                                    /\ \A h \in i + 1 .. n + 1 : ~IsHead(z, h)
        BY <2>3, <3>4
      <4>2. i \in 1 .. n
        BY <2>4, <4>1
      <4>3. QED
        BY <2>2, <3>2, <4>1, <4>2
    <3>5. QED
      BY <3>3, <3>4
  <2> HIDE DEF E
  <2>6. \A p : p \in InBlock(z, n + 1, s, k) <=>
                 p \in InBlock(q, n, s, k) \/ (p = n + 1 /\ E)
    BY <1>1, <1>5, <1>7, <1>9, <1>10, <1>13, <2>5
  <2>7. InBlock(z, n + 1, s, k) =
          IF E THEN InBlock(q, n, s, k) \cup {n + 1} ELSE InBlock(q, n, s, k)
    BY <2>6 DEF InBlock
  <2>8. QED
    BY <2>7 DEF E
<1>14. /\ l.kind = "header" /\ l.name # s =>
            InBlock(z, n + 1, s, k) = InBlock(q, n, s, k)
       /\ l.kind = "other" => InBlock(z, n + 1, s, k) = InBlock(q, n, s, k)
       /\ l.kind = "entry" /\ l.key # k =>
            InBlock(z, n + 1, s, k) = InBlock(q, n, s, k)
  BY <1>11
<1>15. QED
  BY <1>5, <1>12, <1>13, <1>14 DEF z, n

\* What the file says of a key is its first line in the last block.
LEMMA DeclaredIs ==
  ASSUME file \in Seq(Lines), NEW m \in Nat, m <= Len(file), Legible = 1 .. m,
         NEW s \in Sections, NEW k \in Keys
  PROVE  /\ InBlock(file, m, s, k) = {} => Declared(s, k) = Empty
         /\ \A j \in InBlock(file, m, s, k) :
              (\A i \in InBlock(file, m, s, k) : j <= i) => Declared(s, k) = file[j].val
<1> DEFINE heads == {i \in Legible : file[i].kind = "header"}
           own == {i \in heads : file[i].name = s}
           lines == {i \in Legible :
                       /\ file[i].kind = "entry" /\ file[i].key = k
                       /\ \E h \in heads : h < i
                       /\ Max({h \in heads : h < i}) = Max(own)}
           B == InBlock(file, m, s, k)
<1>1. Declared(s, k) = IF own = {} \/ lines = {} THEN Empty ELSE file[Min(lines)].val
  BY DEF Declared
<1>2. heads \subseteq 1 .. m /\ own \subseteq 1 .. m /\ B \subseteq 1 .. m
  BY DEF InBlock
<1>3. /\ \A i \in 1 .. m : i \in heads <=> IsHead(file, i)
      /\ \A i \in 1 .. m : i \in own <=> IsOwn(file, i, s)
  BY DEF IsHead, IsOwn
<1>4. \A i : i \in lines <=>
        /\ i \in 1 .. m /\ file[i].kind = "entry" /\ file[i].key = k
        /\ \E h \in heads : h < i
        /\ Max({h \in heads : h < i}) = Max(own)
  OBVIOUS
<1>5. own \subseteq heads
  OBVIOUS
<1> HIDE DEF heads, own, lines
<1>6. own = {} => B = {}
  BY <1>3 DEF InBlock, Heads
<1>7. ASSUME own # {} PROVE lines = B
  <2>1. Max(own) \in own /\ \A x \in own : x <= Max(own)
    BY <1>2, <1>7, MaxIs
  <2>2. ASSUME NEW j \in lines PROVE j \in B
    <3> DEFINE before == {h \in heads : h < j}
               t == Max(before)
    <3>1. j \in 1 .. m /\ before # {} /\ before \subseteq 1 .. m /\ t = Max(own)
      BY <1>2, <1>4
    <3>2. t \in before /\ \A x \in before : x <= t
      BY <3>1, MaxIs
    <3>3. t \in 1 .. m /\ t < j /\ IsOwn(file, t, s)
      BY <1>2, <1>3, <2>1, <3>1, <3>2
    <3>4. \A h \in t + 1 .. j : ~IsHead(file, h)
      <4> SUFFICES ASSUME NEW h \in t + 1 .. j, IsHead(file, h) PROVE FALSE
        OBVIOUS
      <4>1. h \in 1 .. m /\ h > t
        BY <3>1, <3>3
      <4>2. h # j
        BY <1>4 DEF IsHead
      <4>3. h < j
        BY <3>1, <4>1, <4>2
      <4>4. h \in before
        BY <1>3, <4>1, <4>3
      <4>5. QED
        BY <3>2, <3>3, <4>1, <4>4
    <3>5. \A h \in t + 1 .. m : ~IsOwn(file, h, s)
      <4> SUFFICES ASSUME NEW h \in t + 1 .. m, IsOwn(file, h, s) PROVE FALSE
        OBVIOUS
      <4>1. h \in 1 .. m /\ h > t
        BY <3>3
      <4>2. QED
        BY <1>3, <2>1, <3>1, <3>3, <4>1
    <3>6. Heads(file, m, s, t)
      BY <3>3, <3>5 DEF Heads
    <3>7. QED
      BY <1>4, <3>3, <3>4, <3>6 DEF InBlock
  <2>3. ASSUME NEW j \in B PROVE j \in lines
    <3>1. PICK i \in 1 .. m : /\ Heads(file, m, s, i) /\ i < j
                              /\ \A h \in i + 1 .. j : ~IsHead(file, h)
      BY DEF InBlock
    <3> DEFINE before == {h \in heads : h < j}
    <3>2. j \in 1 .. m /\ file[j].kind = "entry" /\ file[j].key = k
      BY DEF InBlock
    <3>3. i \in own
      BY <1>3, <3>1 DEF Heads
    <3>4. i \in before /\ before \subseteq 1 .. m
      BY <1>2, <1>5, <3>1, <3>3
    <3>5. Max(before) \in before /\ \A x \in before : x <= Max(before)
      BY <3>4, MaxIs
    <3>6. Max(before) = i
      <4>1. i <= Max(before) /\ Max(before) \in 1 .. m /\ Max(before) < j
        BY <3>4, <3>5
      <4>2. IsHead(file, Max(before))
        BY <1>3, <3>5, <4>1
      <4>3. ~(i < Max(before))
        BY <3>1, <3>2, <4>1, <4>2
      <4>4. QED
        BY <4>1, <4>3
    <3>7. Max(own) = i
      <4>1. i <= Max(own) /\ Max(own) \in 1 .. m
        BY <1>2, <2>1, <3>3
      <4>2. IsOwn(file, Max(own), s)
        BY <1>3, <2>1, <4>1
      <4>3. ~(i < Max(own))
        BY <3>1, <4>1, <4>2 DEF Heads
      <4>4. QED
        BY <4>1, <4>3
    <3>8. QED
      BY <1>4, <3>2, <3>4, <3>6, <3>7
  <2>4. QED
    BY <2>2, <2>3
<1>8. B = {} => Declared(s, k) = Empty
  BY <1>1, <1>7
<1>9. ASSUME NEW j \in B, \A i \in B : j <= i PROVE Declared(s, k) = file[j].val
  <2>1. own # {} /\ lines = B
    BY <1>6, <1>7
  <2>2. Min(B) \in B /\ \A x \in B : Min(B) <= x
    BY <1>2, MinIs
  <2>3. Min(B) = j
    <3>1. Min(B) \in 1 .. m /\ j \in 1 .. m /\ j <= Min(B) /\ Min(B) <= j
      BY <1>2, <1>9, <2>2
    <3>2. QED
      BY <3>1
  <2>4. QED
    BY <1>1, <2>1, <2>3
<1>10. QED
  BY <1>8, <1>9

\* All lines count when none is too long.
LEMMA LegibleAll ==
  ASSUME file \in Seq(Lines),
         \A i \in 1 .. Len(file) :
           \/ file[i].len < MaxLine
           \/ i = Len(file) /\ ~newline /\ file[i].len = MaxLine
  PROVE  Legible = 1 .. Len(file)
<1>1. Len(file) \in Nat
  OBVIOUS
<1>2. \A i \in 1 .. Len(file) : \A j \in 1 .. i : j \in 1 .. Len(file)
  BY <1>1
<1>3. QED
  BY <1>2 DEF Legible

\* A last line that is too long does not count.
LEMMA LegibleBut ==
  ASSUME file \in Seq(Lines), NEW n \in Nat, Len(file) = n + 1,
         \A i \in 1 .. n : file[i].len < MaxLine,
         file[n + 1].len \in Nat,
         file[n + 1].len > MaxLine \/ (file[n + 1].len = MaxLine /\ newline)
  PROVE  Legible = 1 .. n
<1>1. \A i \in 1 .. n : i \in 1 .. Len(file) /\ \A j \in 1 .. i : j \in 1 .. n
  OBVIOUS
<1>2. \A i \in 1 .. Len(file) : i \in 1 .. n \/ i = n + 1
  OBVIOUS
<1>3. n + 1 \in 1 .. n + 1
  OBVIOUS
<1>4. ~(file[n + 1].len < MaxLine) /\ ~(~newline /\ file[n + 1].len = MaxLine)
  BY ConfigAssumption
<1>5. n + 1 \notin Legible
  BY <1>3, <1>4 DEF Legible
<1>6. \A i : i \in Legible <=> i \in 1 .. n
  BY <1>1, <1>2, <1>5 DEF Legible
<1>7. QED
  BY <1>6

\* Lines and their parts.
LEMMA LineParts ==
  ASSUME NEW l \in Lines
  PROVE  /\ l.kind \in {"entry", "header", "other"} /\ l.len \in Nat
         /\ l.kind = "entry" => l.key \in Keys /\ l.val \in DOMAIN Number
         /\ l.kind = "header" => l.name \in Sections
BY ConfigAssumption

\* The three things processLine() may do, read off its conditions.
LEMMA ProcessEntry ==
  ASSUME NEW l, l.kind = "entry", ProcessLine(l)
  PROVE  \/ /\ keyMap \in Sections
            /\ configMap' = [configMap EXCEPT
                               ![keyMap] = Insert(configMap[keyMap], l.key, l.val)]
            /\ keyMap' = keyMap /\ undefined' = undefined
         \/ /\ keyMap = "wild" /\ undefined'
            /\ keyMap' = keyMap /\ configMap' = configMap
         \/ /\ keyMap \notin Sections /\ keyMap # "wild"
            /\ keyMap' = keyMap /\ configMap' = configMap /\ undefined' = undefined
BY ConfigAssumption DEF ProcessLine

\* A header makes a new section and the current one.
LEMMA ProcessHeader ==
  ASSUME NEW l, l.kind = "header", ProcessLine(l)
  PROVE  /\ configMap' = Put(configMap, l.name, Nothing)
         /\ keyMap' = l.name /\ undefined' = undefined
BY DEF ProcessLine

\* Any other line is skipped.
LEMMA ProcessOther ==
  ASSUME NEW l, l.kind = "other", ProcessLine(l)
  PROVE  keyMap' = keyMap /\ configMap' = configMap /\ undefined' = undefined
BY DEF ProcessLine

\* A line that is skipped.
LEMMA OtherMapped ==
  ASSUME NEW q \in Seq(Lines), NEW l \in Lines, l.kind = "other", NEW G,
         Mapped(q, Len(q), G), keyMap' = keyMap, configMap' = configMap
  PROVE  Mapped(Append(q, l), Len(q) + 1, G)'
<1> DEFINE z == Append(q, l)
           n == Len(q)
<1>1. /\ n \in Nat /\ z[n + 1] = l
      /\ \A i \in 1 .. n : z[i] = q[i]
      /\ \A i \in 1 .. n + 1 : i \in 1 .. n \/ i = n + 1
      /\ \A i \in 1 .. n : i \in 1 .. n + 1
      /\ \A i \in 1 .. n : \A h : h \in i + 1 .. n + 1 <=> h \in i + 1 .. n \/ h = n + 1
      /\ \A i \in 1 .. n : \A h \in i + 1 .. n : h \in 1 .. n
  OBVIOUS
<1>2. \A s \in Sections, k \in Keys : InBlock(z, n + 1, s, k) = InBlock(q, n, s, k)
  BY BlockAfter
<1> HIDE DEF z, n
<1>3. /\ ~IsHead(z, n + 1) /\ \A s : ~IsOwn(z, n + 1, s)
      /\ \A i \in 1 .. n : /\ IsHead(z, i) <=> IsHead(q, i)
                           /\ \A s : IsOwn(z, i, s) <=> IsOwn(q, i, s)
  BY <1>1 DEF IsHead, IsOwn
<1>4. Current(z, n + 1)'
  <2>1. Current(q, n)
    BY DEF Mapped, n
  <2>2. Current(z, n + 1)
    BY <1>1, <1>3, <2>1 DEF Current
  <2>3. QED
    BY <2>2 DEF Current
<1>5. ASSUME NEW s \in Sections, NEW k \in Keys PROVE Answers(z, n + 1, G, s, k)'
  <2>1. Answers(q, n, G, s, k)
    BY DEF Mapped, n
  <2>2. \A j \in InBlock(q, n, s, k) : z[j] = q[j]
    BY <1>1 DEF InBlock
  <2>3. (\E i \in 1 .. n + 1 : IsOwn(z, i, s)) <=> \E i \in 1 .. n : IsOwn(q, i, s)
    BY <1>1, <1>3
  <2>4. QED
    BY <1>2, <2>1, <2>2, <2>3 DEF Answers
<1>6. QED
  BY <1>4, <1>5 DEF Mapped, z, n

\* A header.
LEMMA HeaderMapped ==
  ASSUME NEW q \in Seq(Lines), NEW l \in Lines, l.kind = "header", NEW G,
         Mapped(q, Len(q), G),
         keyMap' = l.name, configMap' = Put(configMap, l.name, Nothing)
  PROVE  Mapped(Append(q, l), Len(q) + 1, G)'
<1> DEFINE z == Append(q, l)
           n == Len(q)
           t == l.name
<1>1. /\ n \in Nat /\ z[n + 1] = l
      /\ \A i \in 1 .. n : z[i] = q[i]
      /\ \A i \in 1 .. n + 1 : i \in 1 .. n \/ i = n + 1
      /\ \A i \in 1 .. n : i \in 1 .. n + 1
      /\ n + 1 \in 1 .. n + 1
      /\ \A h \in n + 1 + 1 .. n + 1 : FALSE
  OBVIOUS
<1>2. \A s \in Sections, k \in Keys :
        InBlock(z, n + 1, s, k) = IF s = t THEN {} ELSE InBlock(q, n, s, k)
  BY BlockAfter
<1>3. t \in Sections
  BY LineParts
<1> HIDE DEF z, n
<1>4. /\ IsOwn(z, n + 1, t) /\ \A s : s # t => ~IsOwn(z, n + 1, s)
      /\ \A i \in 1 .. n : \A s : IsOwn(z, i, s) <=> IsOwn(q, i, s)
  BY <1>1 DEF IsOwn
<1>5. Current(z, n + 1)'
  BY <1>1, <1>3, <1>4 DEF Current
<1>6. ASSUME NEW s \in Sections, NEW k \in Keys PROVE Answers(z, n + 1, G, s, k)'
  <2>1. Answers(q, n, G, s, k)
    BY DEF Mapped, n
  <2>2. \A j \in InBlock(q, n, s, k) : z[j] = q[j]
    BY <1>1 DEF InBlock
  <2>3. /\ DOMAIN configMap' = DOMAIN configMap \cup {t}
        /\ \A x \in DOMAIN configMap \ {t} : configMap'[x] = configMap[x]
        /\ configMap'[t] = Nothing
    <3>1. configMap' = Put(configMap, t, Nothing)
      OBVIOUS
    <3> HIDE DEF t
    <3>2. QED
      BY <3>1 DEF Put
  <2>4. CASE s = t
    <3>1. k \notin DOMAIN configMap'[s] /\ InBlock(z, n + 1, s, k) = {}
      BY <1>2, <2>3, <2>4 DEF Nothing
    <3>2. s \in DOMAIN configMap' /\ \E i \in 1 .. n + 1 : IsOwn(z, i, s)
      BY <1>1, <1>4, <2>3, <2>4
    <3>3. QED
      BY <3>1, <3>2 DEF Answers
  <2>5. CASE s # t
    <3>1. (\E i \in 1 .. n + 1 : IsOwn(z, i, s)) <=> \E i \in 1 .. n : IsOwn(q, i, s)
      BY <1>1, <1>4, <2>5
    <3>2. s \in DOMAIN configMap' <=> s \in DOMAIN configMap
      BY <2>3, <2>5
    <3>3. s \in DOMAIN configMap => configMap'[s] = configMap[s]
      BY <2>3, <2>5
    <3>4. InBlock(z, n + 1, s, k) = InBlock(q, n, s, k)
      BY <1>2, <2>5
    <3>5. QED
      BY <2>1, <2>2, <3>1, <3>2, <3>3, <3>4 DEF Answers
  <2>6. QED
    BY <2>4, <2>5
<1>7. QED
  BY <1>5, <1>6 DEF Mapped, z, n

\* An entry, of which the map may get another value, one of G.
LEMMA EntryMapped ==
  ASSUME NEW q \in Seq(Lines), NEW l \in Lines, l.kind = "entry",
         Mapped(q, Len(q), {}), NEW G, NEW v \in {l.val} \cup G,
         keyMap' = keyMap,
         \/ /\ keyMap \in Sections
            /\ configMap' = [configMap EXCEPT
                               ![keyMap] = Insert(configMap[keyMap], l.key, v)]
         \/ keyMap \notin Sections /\ configMap' = configMap
  PROVE  Mapped(Append(q, l), Len(q) + 1, G)'
<1> DEFINE z == Append(q, l)
           n == Len(q)
           E(s) == \E i \in 1 .. n : Heads(q, n, s, i) /\ \A h \in i + 1 .. n : ~IsHead(q, h)
<1>1. /\ n \in Nat /\ z[n + 1] = l
      /\ \A i \in 1 .. n : z[i] = q[i]
      /\ \A i \in 1 .. n + 1 : i \in 1 .. n \/ i = n + 1
      /\ \A i \in 1 .. n : i \in 1 .. n + 1
      /\ \A i \in 1 .. n : \A h : h \in i + 1 .. n + 1 <=> h \in i + 1 .. n \/ h = n + 1
      /\ \A i \in 1 .. n : \A h \in i + 1 .. n : h \in 1 .. n
  OBVIOUS
<1>2. \A s \in Sections, k \in Keys :
        InBlock(z, n + 1, s, k) =
          IF k = l.key /\ E(s) THEN InBlock(q, n, s, k) \cup {n + 1}
          ELSE InBlock(q, n, s, k)
  BY BlockAfter
<1>3. l.key \in Keys
  BY LineParts
<1>4. Mapped(q, n, {})
  OBVIOUS
<1> HIDE DEF z, n
<1>5. /\ ~IsHead(z, n + 1) /\ \A s : ~IsOwn(z, n + 1, s)
      /\ \A i \in 1 .. n : /\ IsHead(z, i) <=> IsHead(q, i)
                           /\ \A s : IsOwn(z, i, s) <=> IsOwn(q, i, s)
  BY <1>1 DEF IsHead, IsOwn
<1>6. Current(q, n)
  BY <1>4 DEF Mapped
<1>7. Current(z, n + 1)'
  <2>1. Current(z, n + 1)
    BY <1>1, <1>5, <1>6 DEF Current
  <2>2. QED
    BY <2>1 DEF Current
<1>8. \A s \in Sections : E(s) <=> s = keyMap
  <2> SUFFICES ASSUME NEW s \in Sections PROVE E(s) <=> s = keyMap
    OBVIOUS
  <2>1. ASSUME s = keyMap PROVE E(s)
    <3>1. PICK i \in 1 .. n : IsOwn(q, i, s) /\ \A h \in i + 1 .. n : ~IsHead(q, h)
      BY <1>6, <2>1, ConfigAssumption DEF Current
    <3>2. QED
      BY <3>1 DEF Heads, IsHead, IsOwn
  <2>2. ASSUME E(s) PROVE s = keyMap
    <3>1. PICK i \in 1 .. n : IsOwn(q, i, s) /\ \A h \in i + 1 .. n : ~IsHead(q, h)
      BY <2>2 DEF Heads
    <3>2. IsHead(q, i)
      BY <3>1 DEF IsHead, IsOwn
    <3>3. PICK j \in 1 .. n : IsOwn(q, j, keyMap) /\ \A h \in j + 1 .. n : ~IsHead(q, h)
      BY <1>6, <3>2 DEF Current
    <3>4. IsHead(q, j)
      BY <3>3 DEF IsHead, IsOwn
    <3>5. ~(i < j) /\ ~(j < i)
      BY <1>1, <3>1, <3>2, <3>3, <3>4
    <3>6. i = j
      BY <1>1, <3>5
    <3>7. QED
      BY <3>1, <3>3, <3>6 DEF IsOwn
  <2>3. QED
    BY <2>1, <2>2
<1> HIDE DEF E
<1>9. ASSUME NEW s \in Sections, NEW k \in Keys PROVE Answers(z, n + 1, G, s, k)'
  <2>1. Answers(q, n, {}, s, k)
    BY <1>4 DEF Mapped
  <2>2. \A j \in InBlock(q, n, s, k) : z[j] = q[j] /\ j \in 1 .. n
    BY <1>1 DEF InBlock
  <2>3. (\E i \in 1 .. n + 1 : IsOwn(z, i, s)) <=> \E i \in 1 .. n : IsOwn(q, i, s)
    BY <1>1, <1>5
  <2>4. DOMAIN configMap' = DOMAIN configMap
    OBVIOUS
  <2>5. CASE s # keyMap \/ k # l.key
    <3>1. InBlock(z, n + 1, s, k) = InBlock(q, n, s, k)
      BY <1>2, <1>8, <2>5
    <3>2. ASSUME s \in DOMAIN configMap
          PROVE  /\ k \in DOMAIN configMap'[s] <=> k \in DOMAIN configMap[s]
                 /\ k \in DOMAIN configMap[s] => configMap'[s][k] = configMap[s][k]
      <4>1. CASE s # keyMap \/ keyMap \notin Sections
        BY <3>2, <4>1
      <4>2. CASE s = keyMap /\ k # l.key
        <5>1. configMap'[s] = Insert(configMap[s], l.key, v)
          BY <3>2, <4>2
        <5>2. k \in DOMAIN Insert(configMap[s], l.key, v) <=> k \in DOMAIN configMap[s]
          BY <4>2 DEF Insert, Put
        <5>3. k \in DOMAIN configMap[s] =>
                Insert(configMap[s], l.key, v)[k] = configMap[s][k]
          BY DEF Insert, Put
        <5>4. QED
          BY <5>1, <5>2, <5>3
      <4>3. QED
        BY <2>5, <4>1, <4>2
    <3>3. QED
      BY <2>1, <2>2, <2>3, <2>4, <3>1, <3>2 DEF Answers
  <2>6. CASE s = keyMap /\ k = l.key
    <3>1. InBlock(z, n + 1, s, k) = InBlock(q, n, s, k) \cup {n + 1}
      BY <1>2, <1>8, <2>6
    <3>2. s \in DOMAIN configMap
      <4>1. \E i \in 1 .. n : IsOwn(q, i, s)
        BY <1>6, <2>6, ConfigAssumption DEF Current
      <4>2. QED
        BY <2>1, <4>1 DEF Answers
    <3>3. configMap'[s] = Insert(configMap[s], k, v)
      BY <2>6, <3>2
    <3>4. /\ k \in DOMAIN configMap'[s]
          /\ k \in DOMAIN configMap[s] => configMap'[s][k] = configMap[s][k]
          /\ k \notin DOMAIN configMap[s] => configMap'[s][k] = v
      <4> DEFINE f == configMap[s]
      <4>1. /\ k \in DOMAIN Insert(f, k, v)
            /\ k \in DOMAIN f => Insert(f, k, v)[k] = f[k]
            /\ k \notin DOMAIN f => Insert(f, k, v)[k] = v
        <5> HIDE DEF f
        <5>1. QED
          BY DEF Insert, Put
      <4> HIDE DEF f
      <4>2. configMap'[s] = Insert(f, k, v)
        BY <3>3 DEF f
      <4>3. QED
        BY <4>1, <4>2 DEF f
    <3>5. \E j \in InBlock(z, n + 1, s, k) :
             /\ \A i \in InBlock(z, n + 1, s, k) : j <= i
             /\ configMap'[s][k] \in {z[j].val} \cup G
      <4>1. CASE k \in DOMAIN configMap[s]
        <5>1. PICK j \in InBlock(q, n, s, k) :
                 /\ \A i \in InBlock(q, n, s, k) : j <= i
                 /\ configMap[s][k] \in {q[j].val} \cup {}
          BY <2>1, <3>2, <4>1 DEF Answers
        <5>2. j <= n + 1
          BY <1>1, <2>2
        <5>3. QED
          BY <2>2, <3>1, <3>4, <4>1, <5>1, <5>2
      <4>2. CASE k \notin DOMAIN configMap[s]
        <5>1. InBlock(q, n, s, k) = {}
          BY <2>1, <3>2, <4>2 DEF Answers
        <5>2. n + 1 <= n + 1
          BY <1>1
        <5>3. QED
          BY <1>1, <3>1, <3>4, <4>2, <5>1, <5>2
      <4>3. QED
        BY <4>1, <4>2
    <3>6. \E i \in 1 .. n : IsOwn(q, i, s)
      BY <2>1, <3>2 DEF Answers
    <3>7. QED
      BY <2>3, <2>4, <3>1, <3>2, <3>4, <3>5, <3>6 DEF Answers
  <2>7. QED
    BY <2>5, <2>6
<1>10. QED
  BY <1>7, <1>9 DEF Mapped, z, n

\* What a line may be read as, when older bytes follow it.
LEMMA OverrunIs ==
  ASSUME NEW l \in Lines, NEW p \in Overrun(l) \cup {l}
  PROVE  /\ p.kind \in {"entry", "header", "other"}
         /\ p.kind = "entry" =>
              p.key \in Keys \cup {Garbled} /\ p.val \in DOMAIN Number \cup {Garbled}
         /\ p.kind = "header" => p.name \in Sections
         /\ l.kind = "entry" =>
              p.kind = "entry" /\ p.key = l.key /\ p.val \in {l.val} \cup {Garbled}
<1>1. CASE p = l
  BY <1>1, LineParts
<1>2. CASE l.kind = "entry" /\ p # l
  <2>1. l \in [kind : {"entry"}, key : Keys, val : DOMAIN Number, len : Nat]
    BY <1>2, ConfigAssumption
  <2>2. p = [l EXCEPT !.val = Garbled]
    BY <1>2 DEF Overrun
  <2>3. p.kind = "entry" /\ p.key = l.key /\ p.val = Garbled
    BY <1>2, <2>1, <2>2
  <2>4. QED
    BY <1>2, <2>1, <2>3
<1>3. CASE l.kind = "header" /\ p # l
  <2>1. p = [kind |-> "entry", key |-> Garbled, val |-> Garbled]
    BY <1>3 DEF Overrun
  <2>2. QED
    BY <1>3, <2>1
<1>4. CASE l.kind = "other" /\ p # l
  <2>1. p \in {h \in Lines : h.kind = "header"}
               \cup {[kind |-> "entry", key |-> k, val |-> Garbled] : k \in Keys}
    BY <1>4 DEF Overrun
  <2>2. CASE p \in Lines /\ p.kind = "header"
    BY <1>4, <2>2, LineParts
  <2>3. CASE \E k \in Keys : p = [kind |-> "entry", key |-> k, val |-> Garbled]
    BY <1>4, <2>3
  <2>4. QED
    BY <2>1, <2>2, <2>3
<1>5. QED
  BY <1>1, <1>2, <1>3, <1>4, LineParts

\* The variables of processLine(): the section of keyMap is in the map, and
\* the map holds texts of lines.
Texts == DOMAIN Number \cup {Garbled}
Holds(m) == \A k \in DOMAIN m : k \in Keys \cup {Garbled} /\ m[k] \in Texts
MapOK ==
  /\ keyMap \in Sections \cup {"null", "wild"}
  /\ DOMAIN configMap \subseteq Sections
  /\ \A s \in DOMAIN configMap : Holds(configMap[s])
  /\ undefined \in BOOLEAN
  /\ keyMap \in Sections => keyMap \in DOMAIN configMap

\* Whatever processLine() is given, the map stays well-formed.
LEMMA MapStep ==
  ASSUME MapOK, NEW p, ProcessLine(p),
         p.kind \in {"entry", "header", "other"},
         p.kind = "entry" => p.key \in Keys \cup {Garbled} /\ p.val \in Texts,
         p.kind = "header" => p.name \in Sections
  PROVE  MapOK'
<1>1. CASE p.kind = "entry"
  <2>1. p.key \in Keys \cup {Garbled} /\ p.val \in Texts
    BY <1>1
  <2>2. CASE /\ keyMap \in Sections
             /\ configMap' = [configMap EXCEPT
                                ![keyMap] = Insert(configMap[keyMap], p.key, p.val)]
             /\ keyMap' = keyMap /\ undefined' = undefined
    <3>1. /\ DOMAIN configMap' = DOMAIN configMap
          /\ \A s \in DOMAIN configMap \ {keyMap} : configMap'[s] = configMap[s]
          /\ configMap'[keyMap] = Insert(configMap[keyMap], p.key, p.val)
      BY <2>2 DEF MapOK
    <3>2. \A m : Holds(m) => Holds(Insert(m, p.key, p.val))
      BY <2>1 DEF Holds, Insert, Put
    <3>3. Holds(configMap'[keyMap])
      BY <2>2, <3>1, <3>2 DEF MapOK
    <3>4. \A s \in DOMAIN configMap' : Holds(configMap'[s])
      BY <3>1, <3>3 DEF MapOK
    <3>5. QED
      BY <2>2, <3>1, <3>4 DEF MapOK
  <2>3. CASE keyMap' = keyMap /\ configMap' = configMap /\ undefined' \in BOOLEAN
    BY <2>3 DEF MapOK, Holds
  <2>4. CASE keyMap = "wild"
    <3>1. undefined' = TRUE /\ keyMap' = keyMap /\ configMap' = configMap
      BY <1>1, <2>4, ConfigAssumption DEF ProcessLine
    <3>2. QED
      BY <2>3, <3>1
  <2>5. QED
    BY <1>1, <2>2, <2>3, <2>4, ProcessEntry DEF MapOK
<1>2. CASE p.kind = "header"
  <2>1. /\ configMap' = Put(configMap, p.name, Nothing)
        /\ keyMap' = p.name /\ undefined' = undefined
    BY <1>2, ProcessHeader
  <2>2. /\ DOMAIN configMap' = DOMAIN configMap \cup {p.name}
        /\ \A s \in DOMAIN configMap \ {p.name} : configMap'[s] = configMap[s]
        /\ configMap'[p.name] = Nothing
    BY <2>1 DEF Put
  <2>3. Holds(Nothing)
    BY DEF Nothing, Holds
  <2>4. QED
    BY <1>2, <2>1, <2>2, <2>3 DEF MapOK
<1>3. CASE p.kind = "other"
  BY <1>3, ProcessOther DEF MapOK, Holds
<1>4. QED
  BY <1>1, <1>2, <1>3

\* A line that is read as it is.
LEMMA LineMapped ==
  ASSUME NEW q \in Seq(Lines), NEW l \in Lines, Mapped(q, Len(q), {}),
         ProcessLine(l), ~undefined'
  PROVE  Mapped(Append(q, l), Len(q) + 1, {})'
<1>1. CASE l.kind = "entry"
  <2>1. /\ keyMap' = keyMap
        /\ \/ /\ keyMap \in Sections
              /\ configMap' = [configMap EXCEPT
                                 ![keyMap] = Insert(configMap[keyMap], l.key, l.val)]
           \/ keyMap \notin Sections /\ configMap' = configMap
    BY <1>1, ProcessEntry
  <2>2. l.val \in {l.val} \cup {}
    OBVIOUS
  <2>3. QED
    BY <1>1, <2>1, <2>2, EntryMapped
<1>2. CASE l.kind = "header"
  BY <1>2, ProcessHeader, HeaderMapped
<1>3. CASE l.kind = "other"
  BY <1>3, ProcessOther, OtherMapped
<1>4. QED
  BY <1>1, <1>2, <1>3, LineParts

\* An entry whose value may be garbled.
LEMMA GarbledMapped ==
  ASSUME NEW q \in Seq(Lines), NEW l \in Lines, l.kind = "entry",
         Mapped(q, Len(q), {}), NEW p, p.kind = "entry", p.key = l.key,
         p.val \in {l.val} \cup {Garbled}, ProcessLine(p), ~undefined'
  PROVE  Mapped(Append(q, l), Len(q) + 1, {Garbled})'
<1>1. /\ keyMap' = keyMap
      /\ \/ /\ keyMap \in Sections
            /\ configMap' = [configMap EXCEPT
                               ![keyMap] = Insert(configMap[keyMap], l.key, p.val)]
         \/ keyMap \notin Sections /\ configMap' = configMap
  BY ProcessEntry
<1>2. QED
  BY <1>1, EntryMapped

\* All lines count; or the last one is too long; or it runs into older bytes.
Whole ==
  \A i \in 1 .. Len(file) :
    \/ file[i].len < MaxLine
    \/ i = Len(file) /\ ~newline /\ file[i].len = MaxLine
TooLong ==
  /\ Len(file) > 0
  /\ \A i \in 1 .. Len(file) - 1 : file[i].len < MaxLine
  /\ \/ file[Len(file)].len > MaxLine
     \/ file[Len(file)].len = MaxLine /\ newline
Reached == {i \in 1 .. Len(file) - 1 : file[i].len >= file[Len(file)].len}
Unended ==
  /\ Len(file) > 0 /\ ~newline
  /\ Reached = {} \/ file[Max(Reached)].len # file[Len(file)].len

\* What the map holds while the file is read, and in the end.
Reads ==
  /\ newline
  /\ \A i \in 1 .. Len(file) : file[i].len < MaxLine
  /\ ~undefined => Mapped(file, Len(file), {})
HasRead ==
  \/ Whole /\ Mapped(file, Len(file), {})
  \/ TooLong /\ Mapped(file, Len(file) - 1, {})
  \/ Whole /\ Unended /\ Mapped(file, Len(file), {Garbled})
  \/ Whole /\ Unended /\ file[Len(file)].kind # "entry"

ConfigInv ==
  /\ MapOK
  /\ phase \in {"read", "built"} /\ fp \in {"null", "open", "closed"}
  /\ file \in Seq(Lines) /\ Len(file) <= MaxLines /\ newline \in BOOLEAN
  /\ phase = "read" => Reads
  /\ phase = "built" /\ ~undefined => HasRead

\* A map without sections is what no line says.
LEMMA NothingMapped ==
  ASSUME keyMap \in {"null", "wild"}, configMap = [s \in {} |-> Nothing], NEW q
  PROVE  Mapped(q, 0, {})
<1>1. \A i \in 1 .. 0 : FALSE
  OBVIOUS
<1>2. Current(q, 0)
  BY <1>1 DEF Current
<1>3. \A s \in Sections, k \in Keys : Answers(q, 0, {}, s, k)
  BY <1>1 DEF Answers
<1>4. QED
  BY <1>2, <1>3 DEF Mapped

\* No line was read, or the file could not be opened.
LEMMA ConfigInvInit == ConfigInit => ConfigInv
<1> SUFFICES ASSUME ConfigInit PROVE ConfigInv
  OBVIOUS
<1>1. /\ file = <<>> /\ Len(file) = 0 /\ newline = TRUE /\ undefined = FALSE
      /\ keyMap \in {"null", "wild"} /\ configMap = [s \in {} |-> Nothing]
      /\ \A i \in 1 .. Len(file) : FALSE
  BY DEF ConfigInit
<1>2. Mapped(file, Len(file), {})
  BY <1>1, NothingMapped
<1>3. MapOK
  BY <1>1, ConfigAssumption DEF MapOK
<1>4. Reads /\ HasRead
  BY <1>1, <1>2 DEF Reads, HasRead, Whole
<1>5. /\ phase \in {"read", "built"} /\ fp \in {"null", "open", "closed"}
      /\ file \in Seq(Lines) /\ Len(file) <= MaxLines
  BY <1>1, ConfigAssumption DEF ConfigInit
<1>6. QED
  BY <1>1, <1>3, <1>4, <1>5 DEF ConfigInv

\* A file with one more line.
LEMMA FileAfter ==
  ASSUME ConfigInv, Reading, NEW l \in Lines, file' = Append(file, l)
  PROVE  /\ Len(file) \in Nat /\ Len(file') = Len(file) + 1
         /\ file' \in Seq(Lines) /\ Len(file') <= MaxLines
         /\ file'[Len(file) + 1] = l
         /\ \A i \in 1 .. Len(file) : file'[i] = file[i] /\ file'[i].len < MaxLine
         /\ \A i \in 1 .. Len(file') : i \in 1 .. Len(file) \/ i = Len(file')
         /\ newline /\ phase = "read"
         /\ ~undefined => Mapped(file, Len(file), {})
<1>1. file \in Seq(Lines) /\ Reads /\ newline /\ phase = "read" /\ Len(file) < MaxLines
  BY DEF ConfigInv, Reading
<1>2. /\ Len(file) \in Nat /\ Len(file') = Len(file) + 1 /\ file'[Len(file) + 1] = l
      /\ file' \in Seq(Lines)
      /\ \A i \in 1 .. Len(file) : file'[i] = file[i]
  BY <1>1
<1>3. Len(file') <= MaxLines
  BY <1>1, <1>2, ConfigAssumption
<1>4. \A i \in 1 .. Len(file') : i \in 1 .. Len(file) \/ i = Len(file')
  BY <1>2
<1>5. QED
  BY <1>1, <1>2, <1>3, <1>4 DEF Reads

\* A line that leaves room for its 0 is read as it is.
LEMMA ReadLineInv ==
  ASSUME ConfigInv, ~undefined, ReadLine
  PROVE  ConfigInv'
<1>1. PICK l \in Lines : l.len < MaxLine /\ file' = Append(file, l) /\ ProcessLine(l)
  BY DEF ReadLine
<1>2. Reading /\ phase' = phase /\ fp' = fp /\ newline' = newline
  BY DEF ReadLine
<1>3. MapOK'
  BY <1>1, LineParts, MapStep DEF ConfigInv, Texts
<1>4. /\ Len(file) \in Nat /\ Len(file') = Len(file) + 1
      /\ file' \in Seq(Lines) /\ Len(file') <= MaxLines
      /\ file'[Len(file) + 1] = l
      /\ \A i \in 1 .. Len(file) : file'[i] = file[i] /\ file'[i].len < MaxLine
      /\ \A i \in 1 .. Len(file') : i \in 1 .. Len(file) \/ i = Len(file')
      /\ newline /\ phase = "read" /\ Mapped(file, Len(file), {})
  BY <1>1, <1>2, FileAfter
<1>5. \A i \in 1 .. Len(file') : file'[i].len < MaxLine
  BY <1>1, <1>4
<1>6. ~undefined' => Mapped(file, Len(file), {})'
  <2>1. SUFFICES ASSUME ~undefined' PROVE Mapped(file, Len(file), {})'
    OBVIOUS
  <2>2. \A q, n : q = Append(file, l) /\ n = Len(file) + 1 => Mapped(q, n, {})'
    BY <1>1, <1>4, <2>1, LineMapped DEF ConfigInv
  <2>3. QED
    BY <1>1, <1>4, <2>2
<1>7. Reads'
  BY <1>2, <1>4, <1>5, <1>6 DEF Reads
<1>8. QED
  BY <1>2, <1>3, <1>4, <1>7 DEF ConfigInv

\* A line that is too long changes nothing but the end of reading.
LEMMA GiveUpInv ==
  ASSUME ConfigInv, ~undefined, GiveUp
  PROVE  ConfigInv'
<1>1. PICK l \in Lines, n \in BOOLEAN :
        /\ l.len > MaxLine \/ (l.len = MaxLine /\ n)
        /\ file' = Append(file, l) /\ newline' = n
  BY DEF GiveUp
<1>2. /\ Reading /\ phase' = "built" /\ fp' = fp /\ keyMap' = keyMap
      /\ configMap' = configMap /\ undefined' = undefined
  BY DEF GiveUp
<1>3. MapOK'
  BY <1>2 DEF ConfigInv, MapOK, Holds
<1>4. /\ Len(file) \in Nat /\ Len(file') = Len(file) + 1
      /\ file' \in Seq(Lines) /\ Len(file') <= MaxLines
      /\ file'[Len(file) + 1] = l
      /\ \A i \in 1 .. Len(file) : file'[i] = file[i] /\ file'[i].len < MaxLine
      /\ Mapped(file, Len(file), {})
  BY <1>1, <1>2, FileAfter
<1>5. Len(file') - 1 = Len(file) /\ Len(file') > 0
  BY <1>4
<1>6. TooLong'
  BY <1>1, <1>4, <1>5 DEF TooLong
<1>7. Mapped(file', Len(file), {})
  <2>1. \A s \in Sections, k \in Keys :
          InBlock(file', Len(file), s, k) = InBlock(file, Len(file), s, k)
    BY <1>1, BlockAfter DEF ConfigInv
  <2>2. \A i \in 1 .. Len(file) : /\ IsHead(file', i) <=> IsHead(file, i)
                                  /\ \A s : IsOwn(file', i, s) <=> IsOwn(file, i, s)
    BY <1>4 DEF IsHead, IsOwn
  <2>3. \A i \in 1 .. Len(file) : \A h \in i + 1 .. Len(file) : h \in 1 .. Len(file)
    BY <1>4
  <2>4. Current(file', Len(file))
    BY <1>4, <2>2, <2>3 DEF Mapped, Current
  <2>5. ASSUME NEW s \in Sections, NEW k \in Keys
        PROVE  Answers(file', Len(file), {}, s, k)
    <3>1. Answers(file, Len(file), {}, s, k)
      BY <1>4 DEF Mapped
    <3>2. \A j \in InBlock(file, Len(file), s, k) : file'[j] = file[j]
      BY <1>4 DEF InBlock
    <3>3. QED
      BY <2>1, <2>2, <3>1, <3>2 DEF Answers
  <2>6. QED
    BY <2>4, <2>5 DEF Mapped
<1>8. Mapped(file, Len(file) - 1, {})'
  <2>1. \A q, e : Mapped(q, e, {}) => Mapped(q, e, {})'
    BY <1>2 DEF Mapped, Current, Answers
  <2>2. \A e : e = Len(file) => Mapped(file', e, {})
    BY <1>7
  <2>3. \A q, e : q = file' /\ e = Len(file) => Mapped(q, e, {})'
    BY <2>1, <2>2
  <2>4. QED
    BY <1>5, <2>3
<1>9. HasRead'
  BY <1>6, <1>8 DEF HasRead
<1>10. QED
  BY <1>1, <1>2, <1>3, <1>4, <1>9 DEF ConfigInv

\* What Terminated says of the old file, Unended says of the new one.
LEMMA UnendedAfter ==
  ASSUME ConfigInv, Reading, NEW l \in Lines, file' = Append(file, l),
         ~newline', ~Terminated(l.len)
  PROVE  Unended'
<1> DEFINE R == {i \in 1 .. Len(file) : file[i].len >= l.len}
<1>1. /\ Len(file) \in Nat /\ Len(file') = Len(file) + 1
      /\ file'[Len(file) + 1] = l
      /\ \A i \in 1 .. Len(file) : file'[i] = file[i]
  BY FileAfter
<1>2. Len(file') - 1 = Len(file) /\ Len(file') > 0 /\ file'[Len(file')] = l
  BY <1>1
<1>3. Reached' = R
  BY <1>1, <1>2 DEF Reached
<1>4. R = {} \/ file[Max(R)].len # l.len
  BY DEF Terminated
<1>5. R # {} => Max(R) \in 1 .. Len(file)
  BY <1>1, MaxIs
<1> HIDE DEF R
<1>6. R # {} => file'[Max(R)] = file[Max(R)]
  BY <1>1, <1>5
<1>7. Reached' = {} \/ file'[Max(R)].len # l.len
  BY <1>3, <1>4, <1>6
<1>8. Max(Reached)' = Max(R)
  BY <1>3 DEF Max
<1>9. QED
  BY <1>2, <1>7, <1>8 DEF Unended

\* The last line, without a newline, is read as it is or runs on.
LEMMA ReadLastInv ==
  ASSUME ConfigInv, ~undefined, ReadLast
  PROVE  ConfigInv'
<1>1. PICK l \in Lines :
        /\ l.len <= MaxLine
        /\ file' = Append(file, l)
        /\ \/ \E m \in IF Terminated(l.len) THEN {l} ELSE Overrun(l) : ProcessLine(m)
           \/ Unwritten(l.len) /\ undefined' = TRUE /\ UNCHANGED <<keyMap, configMap>>
  BY DEF ReadLast
<1>2. /\ Reading /\ phase' = "built" /\ fp' = "closed" /\ newline' = FALSE
  BY DEF ReadLast
<1>3. /\ Len(file) \in Nat /\ Len(file') = Len(file) + 1
      /\ file' \in Seq(Lines) /\ Len(file') <= MaxLines
      /\ file'[Len(file) + 1] = l
      /\ \A i \in 1 .. Len(file) : file'[i] = file[i] /\ file'[i].len < MaxLine
      /\ \A i \in 1 .. Len(file') : i \in 1 .. Len(file) \/ i = Len(file')
      /\ Mapped(file, Len(file), {})
  BY <1>1, <1>2, FileAfter
<1>4. Whole'
  <2>1. l.len < MaxLine \/ l.len = MaxLine
    BY <1>1, LineParts, ConfigAssumption
  <2>2. QED
    BY <1>2, <1>3, <2>1 DEF Whole
<1>5. CASE undefined' = TRUE /\ UNCHANGED <<keyMap, configMap>>
  <2>1. MapOK'
    BY <1>5 DEF ConfigInv, MapOK, Holds
  <2>2. QED
    BY <1>2, <1>3, <1>5, <2>1 DEF ConfigInv
<1>6. ASSUME NEW m \in IF Terminated(l.len) THEN {l} ELSE Overrun(l), ProcessLine(m)
      PROVE  ConfigInv'
  <2>1. m \in Overrun(l) \cup {l}
    BY <1>6
  <2>2. MapOK'
    BY <1>6, <2>1, OverrunIs, MapStep DEF ConfigInv, Texts
  <2>3. ASSUME ~undefined' PROVE HasRead'
    <3>1. CASE Terminated(l.len)
      <4>1. m = l
        BY <1>6, <3>1
      <4>2. \A q, n : q = Append(file, l) /\ n = Len(file) + 1 => Mapped(q, n, {})'
        BY <1>3, <1>6, <2>3, <4>1, LineMapped DEF ConfigInv
      <4>3. Mapped(file, Len(file), {})'
        BY <1>1, <1>3, <4>2
      <4>4. QED
        BY <1>4, <4>3 DEF HasRead
    <3>2. CASE ~Terminated(l.len)
      <4>1. Unended'
        BY <1>1, <1>2, <3>2, UnendedAfter
      <4>2. CASE l.kind = "entry"
        <5>1. m.kind = "entry" /\ m.key = l.key /\ m.val \in {l.val} \cup {Garbled}
          BY <2>1, <4>2, OverrunIs
        <5>2. \A q, n : q = Append(file, l) /\ n = Len(file) + 1 =>
                Mapped(q, n, {Garbled})'
          BY <1>3, <1>6, <2>3, <4>2, <5>1, GarbledMapped DEF ConfigInv
        <5>3. Mapped(file, Len(file), {Garbled})'
          BY <1>1, <1>3, <5>2
        <5>4. QED
          BY <1>4, <4>1, <5>3 DEF HasRead
      <4>3. CASE l.kind # "entry"
        <5>1. file'[Len(file')].kind # "entry"
          BY <1>3, <4>3
        <5>2. QED
          BY <1>4, <4>1, <5>1 DEF HasRead
      <4>4. QED
        BY <4>2, <4>3
    <3>3. QED
      BY <3>1, <3>2
  <2>4. QED
    BY <1>2, <1>3, <2>2, <2>3 DEF ConfigInv
<1>7. QED
  BY <1>1, <1>5, <1>6

\* The end of the file after a newline.
LEMMA AtEndInv ==
  ASSUME ConfigInv, AtEnd
  PROVE  ConfigInv'
<1>1. /\ phase = "read" /\ phase' = "built" /\ fp' = "closed" /\ file' = file
      /\ newline' = newline /\ keyMap' = keyMap /\ configMap' = configMap
      /\ undefined' = undefined
  BY DEF AtEnd
<1>2. Reads
  BY <1>1 DEF ConfigInv
<1>3. ~undefined => HasRead
  BY <1>2 DEF Reads, HasRead, Whole
<1>4. MapOK' /\ (~undefined' => HasRead')
  BY <1>1, <1>3 DEF ConfigInv, MapOK, Holds, HasRead, Whole, TooLong, Unended, Reached,
                    Mapped, Current, Answers
<1>5. QED
  BY <1>1, <1>4 DEF ConfigInv

\* Each step of the constructor keeps the invariant.
LEMMA ConfigInvNext == ConfigInv /\ [ConfigNext]_configVars => ConfigInv'
<1>1. ASSUME ConfigInv, UNCHANGED configVars PROVE ConfigInv'
  BY <1>1 DEF configVars, ConfigInv, MapOK, Holds, Reads, HasRead, Whole, TooLong, Unended,
              Reached, Mapped, Current, Answers
<1>2. QED
  BY <1>1, ReadLineInv, GiveUpInv, ReadLastInv, AtEndInv DEF ConfigNext

\* A map that holds what m lines say answers as these say, or from G.
LEMMA MappedAnswers ==
  ASSUME file \in Seq(Lines), NEW m \in Nat, m <= Len(file), Legible = 1 .. m,
         NEW G, Mapped(file, m, G), NEW s \in Sections, NEW k \in Keys
  PROVE  get(s, k) = Declared(s, k) \/ get(s, k) \in G
<1>1. Answers(file, m, G, s, k)
  BY DEF Mapped
<1>2. CASE s \in DOMAIN configMap /\ k \in DOMAIN configMap[s]
  <2>1. PICK j \in InBlock(file, m, s, k) :
          /\ \A i \in InBlock(file, m, s, k) : j <= i
          /\ configMap[s][k] \in {file[j].val} \cup G
    BY <1>1, <1>2 DEF Answers
  <2>2. Declared(s, k) = file[j].val
    BY <2>1, DeclaredIs
  <2>3. QED
    BY <1>2, <2>1, <2>2 DEF get
<1>3. CASE ~(s \in DOMAIN configMap /\ k \in DOMAIN configMap[s])
  <2>1. InBlock(file, m, s, k) = {}
    BY <1>1, <1>3 DEF Answers, InBlock, Heads
  <2>2. QED
    BY <1>3, <2>1, DeclaredIs DEF get
<1>4. QED
  BY <1>2, <1>3

\* The invariant says what get() answers.
LEMMA ConfigInvSays == ConfigInv => GetIsDeclared
<1> SUFFICES ASSUME ConfigInv PROVE GetIsDeclared
  OBVIOUS
<1>1. ConfigTypeOK
  BY DEF ConfigInv, MapOK, Holds, ConfigTypeOK
<1>2. ASSUME phase = "built", ~undefined, NEW s \in Sections, NEW k \in Keys
      PROVE  \/ get(s, k) = Declared(s, k)
             \/ Runs /\ get(s, k) = Garbled
             \/ Runs /\ file[Len(file)].kind # "entry"
  <2>1. file \in Seq(Lines) /\ Len(file) \in Nat /\ HasRead
    BY <1>2 DEF ConfigInv
  <2>2. Whole => Legible = 1 .. Len(file)
    BY <2>1, LegibleAll DEF Whole
  <2>3. Whole /\ Unended => Runs
    <3>1. Len(file) > 0 => Len(file) \in 1 .. Len(file)
      BY <2>1
    <3>2. QED
      BY <2>2, <3>1 DEF Unended, Reached, Runs
  <2>4. CASE Whole /\ Mapped(file, Len(file), {})
    BY <1>2, <2>1, <2>2, <2>4, MappedAnswers
  <2>5. CASE TooLong /\ Mapped(file, Len(file) - 1, {})
    <3> DEFINE n == Len(file) - 1
    <3>1. n \in Nat /\ Len(file) = n + 1 /\ n <= Len(file) /\ n + 1 \in 1 .. Len(file)
      BY <2>1, <2>5 DEF TooLong
    <3>2. file[n + 1].len \in Nat
      BY <2>1, <3>1, LineParts
    <3>3. /\ \A i \in 1 .. n : file[i].len < MaxLine
          /\ file[n + 1].len > MaxLine \/ (file[n + 1].len = MaxLine /\ newline)
      BY <2>5, <3>1 DEF TooLong
    <3>4. Mapped(file, n, {})
      BY <2>5
    <3> HIDE DEF n
    <3>5. Legible = 1 .. n
      BY <2>1, <3>1, <3>2, <3>3, LegibleBut
    <3>6. QED
      BY <1>2, <2>1, <3>1, <3>4, <3>5, MappedAnswers
  <2>6. CASE Whole /\ Unended /\ Mapped(file, Len(file), {Garbled})
    BY <1>2, <2>1, <2>2, <2>3, <2>6, MappedAnswers
  <2>7. CASE Whole /\ Unended /\ file[Len(file)].kind # "entry"
    BY <2>3, <2>7
  <2>8. QED
    BY <2>1, <2>4, <2>5, <2>6, <2>7 DEF HasRead
<1>3. QED
  BY <1>1, <1>2 DEF GetIsDeclared

\* get() answers "" or the text of a line.
LEMMA GetText ==
  ASSUME ConfigInv, NEW s, NEW k
  PROVE  get(s, k) = Empty \/ get(s, k) \in Texts
BY DEF ConfigInv, MapOK, Holds, get

\* The invariant holds while an application starts.
LEMMA ConfigInvAlways == Startup => []ConfigInv
<1>1. StartupInit => ConfigInv
  BY ConfigInvInit DEF StartupInit
<1>2. ConfigInv /\ [StartupNext]_startupVars => ConfigInv'
  <2>1. [StartupNext]_startupVars => [ConfigNext]_configVars
    BY DEF StartupNext, startupVars, Configure, Serve, Equip
  <2>2. QED
    BY <2>1, ConfigInvNext
<1>3. QED
  BY <1>1, <1>2, PTL DEF Startup

\* get() answers what the file says up to a line that is too long, for files of
\* any lines in any order.
THEOREM GetAnswersFile == Startup => []GetIsDeclared
BY ConfigInvAlways, ConfigInvSays, PTL

\* What the server was started from, once it is started: the Config is built
\* and stays as it is.
ServerInv ==
  /\ ServerTypeOK /\ threadNum \in Int
  /\ start = "idle" => ~listens /\ loops = 0 /\ serving = 0
  /\ start # "idle" =>
       /\ phase = "built" /\ ~undefined
       /\ driver = Driver
       /\ port \in NumberOr(Ports, get("server", "port"))
       /\ threadNum \in NumberOr({1}, get("server", "thread"))
  /\ driver = "http" =>
       /\ listens <=> 0 < loops
       /\ listens => 0 < serving
       /\ 0 < loops => loops <= threadNum
       /\ start = "returned" /\ 0 < loops => loops = threadNum

\* What is read from a text of a line is a number.
LEMMA NumbersInt ==
  ASSUME NEW v \in Texts, NEW n \in Numbers(v)
  PROVE  n \in Int
BY ServerAssumption DEF Numbers, Texts

\* Each step of the start keeps the server in agreement with the Config.
LEMMA ServerInvNext ==
  ConfigInv /\ ServerInv /\ [StartupNext]_startupVars => ServerInv'
<1> SUFFICES ASSUME ConfigInv, ServerInv, [StartupNext]_startupVars PROVE ServerInv'
  OBVIOUS
<1>1. CASE UNCHANGED <<phase, undefined, configMap, serverVars>>
  BY <1>1 DEF serverVars, ServerInv, ServerTypeOK, Driver, get
<1>2. CASE Configure
  <2>1. phase = "read"
    BY <1>2 DEF Configure, ConfigNext, ReadLine, GiveUp, ReadLast, AtEnd, Reading
  <2>2. start = "idle" /\ UNCHANGED serverVars
    BY <1>2, <2>1 DEF Configure, ServerInv
  <2>3. QED
    BY <2>2 DEF ServerInv, ServerTypeOK, serverVars
<1>3. CASE Equip
  BY <1>1, <1>3 DEF Equip, configVars
<1>4. CASE Serve
  <2>1. ~undefined /\ UNCHANGED <<phase, undefined, configMap>>
    BY <1>4 DEF Serve, configVars
  <2>2. CASE StartServer
    <3>1. /\ phase = "built" /\ start = "idle" /\ start' = "looping" /\ loops = 0 /\ ~listens
          /\ loops' = loops /\ listens' = listens /\ serving' = serving
          /\ driver' = Driver /\ port' \in NumberOr(Ports, get("server", "port"))
          /\ threadNum' \in NumberOr({1}, get("server", "thread"))
      BY <2>2 DEF StartServer, ServerInv
    <3>2. /\ Driver' = Driver
          /\ get("server", "port")' = get("server", "port")
          /\ get("server", "thread")' = get("server", "thread")
      BY <2>1 DEF Driver, get
    <3>3. driver' \in {"http", "htp"}
      BY <3>1 DEF Driver
    <3>4. ServerTypeOK'
      BY <3>1, <3>3 DEF ServerInv, ServerTypeOK
    <3>5. threadNum' \in Int
      <4>1. CASE get("server", "thread") = Empty
        BY <3>1, <4>1 DEF NumberOr
      <4>2. CASE get("server", "thread") # Empty
        <5>1. threadNum' \in Numbers(get("server", "thread"))
          BY <3>1, <4>2 DEF NumberOr
        <5>2. get("server", "thread") \in Texts
          BY <4>2, GetText
        <5>3. QED
          BY <5>1, <5>2, NumbersInt
      <4>3. QED
        BY <4>1, <4>2
    <3>6. /\ NumberOr(Ports, get("server", "port"))' =
               NumberOr(Ports, get("server", "port"))
          /\ NumberOr({1}, get("server", "thread"))' =
               NumberOr({1}, get("server", "thread"))
      BY <3>2 DEF NumberOr, Numbers
    <3>7. QED
      BY <2>1, <3>1, <3>2, <3>4, <3>5, <3>6 DEF ServerInv
  <2>3. ASSUME start # "idle", start' # "idle", UNCHANGED <<driver, port, threadNum>>
        PROVE  /\ phase' = "built" /\ ~undefined'
               /\ driver' = Driver'
               /\ port' \in NumberOr(Ports, get("server", "port"))'
               /\ threadNum' \in NumberOr({1}, get("server", "thread"))'
    BY <2>1, <2>3 DEF ServerInv, Driver, NumberOr, Numbers, get
  <2>4. CASE StartLoop
    <3>1. /\ start = "looping" /\ driver = "http" /\ loops < threadNum
          /\ loops \in Nat /\ serving \in 0 .. loops /\ threadNum \in Int
          /\ 0 < loops => 0 < serving
          /\ driver' = driver /\ port' = port /\ threadNum' = threadNum
      BY <2>4 DEF StartLoop, ServerInv, ServerTypeOK
    <3>2. CASE /\ loops' = loops + 1 /\ listens' = TRUE /\ start' = start
              /\ serving' \in IF loops = 0 THEN {1} ELSE {serving, serving + 1}
      <4>1. /\ loops' \in Nat /\ 0 < loops' /\ loops' <= threadNum
            /\ serving' \in 0 .. loops' /\ 0 < serving'
        BY <3>1, <3>2
      <4>2. QED
        BY <2>3, <3>1, <3>2, <4>1 DEF ServerInv, ServerTypeOK
    <3>3. CASE /\ loops = 0 /\ start' = "returned" /\ loops' = loops
              /\ listens' = listens /\ serving' = serving
      <4>1. ~(0 < loops)
        BY <3>3
      <4>2. QED
        BY <2>3, <3>1, <3>3, <4>1 DEF ServerInv, ServerTypeOK
    <3>4. QED
      BY <2>4, <3>2, <3>3 DEF StartLoop
  <2>5. CASE LoopsStarted
    BY <2>3, <2>5 DEF LoopsStarted, ServerInv, ServerTypeOK
  <2>6. CASE StartHtp
    BY <2>3, <2>6 DEF StartHtp, ServerInv, ServerTypeOK
  <2>7. QED
    BY <1>4, <2>2, <2>4, <2>5, <2>6 DEF Serve, Start
<1>5. QED
  BY <1>1, <1>2, <1>3, <1>4 DEF StartupNext, startupVars, configVars

\* The invariant of the server holds while an application starts.
LEMMA ServerInvAlways == Startup => []ServerInv
<1>1. StartupInit => ServerInv
  <2> SUFFICES ASSUME StartupInit PROVE ServerInv
    OBVIOUS
  <2>1. /\ start = "idle" /\ driver = "none" /\ threadNum = 1 /\ loops = 0
        /\ listens = FALSE /\ serving = 0
    BY DEF StartupInit, ServerInit
  <2>2. listens \in BOOLEAN /\ ~listens
    BY <2>1
  <2>3. loops \in Nat /\ serving \in 0 .. loops /\ threadNum \in Int
    BY <2>1
  <2>4. QED
    BY <2>1, <2>2, <2>3 DEF ServerInv, ServerTypeOK
<1>2. QED
  BY <1>1, ServerInvNext, ConfigInvAlways, PTL DEF Startup

\* Without a last line that runs into older bytes, get() is what is declared.
LEMMA NotRunning ==
  ASSUME ConfigInv, phase = "built", ~undefined, ~Runs,
         NEW s \in Sections, NEW k \in Keys
  PROVE  get(s, k) = Declared(s, k) /\ (get(s, k) = Empty \/ get(s, k) \in Texts)
BY ConfigInvSays, GetText DEF GetIsDeclared

\* What the file declares is the text of a line.
LEMMA DeclaredText ==
  ASSUME ConfigInv, NEW s \in Sections, NEW k \in Keys, phase = "built"
  PROVE  Declared(s, k) = Empty \/ Declared(s, k) \in DOMAIN Number
<1>1. file \in Seq(Lines)
  BY DEF ConfigInv
<1> DEFINE heads == {i \in Legible : file[i].kind = "header"}
           own == {i \in heads : file[i].name = s}
           lines == {i \in Legible :
                       /\ file[i].kind = "entry" /\ file[i].key = k
                       /\ \E h \in heads : h < i
                       /\ Max({h \in heads : h < i}) = Max(own)}
<1>2. Declared(s, k) = IF own = {} \/ lines = {} THEN Empty ELSE file[Min(lines)].val
  BY DEF Declared
<1>3. lines \subseteq 1 .. Len(file) /\ \A i \in lines : file[i].kind = "entry"
  BY DEF Legible
<1> HIDE DEF lines, own, heads
<1>4. ASSUME lines # {} PROVE file[Min(lines)].val \in DOMAIN Number
  <2>1. Len(file) \in Nat
    BY <1>1
  <2>2. Min(lines) \in lines
    BY <1>3, <1>4, <2>1, MinIs
  <2>3. Min(lines) \in 1 .. Len(file) /\ file[Min(lines)].kind = "entry"
    BY <1>3, <2>2
  <2>4. QED
    BY <1>1, <2>3, LineParts
<1>5. QED
  BY <1>2, <1>4

\* What is read from a text of the file.
LEMMA DeclaredNumber ==
  ASSUME ConfigInv, phase = "built", ~undefined, ~Runs,
         NEW s \in Sections, NEW k \in Keys, NEW unset, NEW n \in NumberOr(unset, get(s, k))
  PROVE  IF Declared(s, k) = Empty THEN n \in unset ELSE n = Number[Declared(s, k)]
<1>1. get(s, k) = Declared(s, k)
  BY NotRunning
<1>2. Declared(s, k) # Empty => Declared(s, k) # Garbled
  BY DeclaredText, ConfigAssumption
<1>3. QED
  BY <1>1, <1>2 DEF NumberOr, Numbers

\* The server listens as the file says.
LEMMA ServerInvSays == ConfigInv /\ ServerInv => ServesAsDeclared
<1> SUFFICES ASSUME ConfigInv, ServerInv PROVE ServesAsDeclared
  OBVIOUS
<1>1. ServerTypeOK
  BY DEF ServerInv
<1>2. ASSUME listens, ~Runs
      PROVE  /\ Declared("server", "port") # Empty =>
                  port = Number[Declared("server", "port")]
             /\ driver = "htp" <=> Declared("server", "htp") # Empty
             /\ LET n == Declared("server", "thread")
                    threads == IF n = Empty THEN 1 ELSE Number[n]
                IN  driver = "http" =>
                      /\ 0 < serving /\ serving <= loops /\ loops <= threads
                      /\ start = "returned" => loops = threads
  <2>1. /\ phase = "built" /\ ~undefined /\ driver = Driver
        /\ port \in NumberOr(Ports, get("server", "port"))
        /\ threadNum \in NumberOr({1}, get("server", "thread"))
    BY <1>2 DEF ServerInv
  <2>2. "server" \in Sections /\ "port" \in Keys /\ "thread" \in Keys /\ "htp" \in Keys
    BY ServerAssumption
  <2>3. Declared("server", "port") # Empty => port = Number[Declared("server", "port")]
    BY <1>2, <2>1, <2>2, DeclaredNumber
  <2>4. driver = "htp" <=> Declared("server", "htp") # Empty
    <3>1. get("server", "htp") = Declared("server", "htp")
      BY <1>2, <2>1, <2>2, NotRunning
    <3>2. QED
      BY <2>1, <3>1 DEF Driver
  <2>5. threadNum = IF Declared("server", "thread") = Empty THEN 1
                    ELSE Number[Declared("server", "thread")]
    <3>1. IF Declared("server", "thread") = Empty THEN threadNum \in {1}
          ELSE threadNum = Number[Declared("server", "thread")]
      BY <1>2, <2>1, <2>2, DeclaredNumber
    <3>2. QED
      BY <3>1
  <2>6. driver = "http" => /\ 0 < serving /\ serving <= loops /\ loops <= threadNum
                           /\ start = "returned" => loops = threadNum
    BY <1>2 DEF ServerInv, ServerTypeOK
  <2>7. QED
    BY <2>3, <2>4, <2>5, <2>6
<1>3. QED
  BY <1>1, <1>2 DEF ServesAsDeclared

\* What a field of value before is after its text was read: its own text decides,
\* and no other one.
Got(item, k, before) ==
  IF get(item, k) = Empty THEN {before} ELSE Values(k, get(item, k))

Streams == [left : {Empty, Garbled}, good : BOOLEAN]

Source(ip, prt, db, user, pass, initial, maximum, reap) ==
  [ip |-> ip, port |-> prt, db |-> db, user |-> user, pass |-> pass,
   initialSize |-> initial, maxSize |-> maximum, reapSec |-> reap]

\* A field is read from its own text, in whatever state the stream was left.
LEMMA FieldRead ==
  ASSUME NEW item, NEW k, NEW src, NEW ss \in Streams,
         src = [j \in DOMAIN src |-> src[j]], k \in DOMAIN src,
         NEW y \in Field(item, k, [src |-> src, ss |-> ss])
  PROVE  \E v \in Got(item, k, src[k]), s \in Streams :
           y = [src |-> [src EXCEPT ![k] = v], ss |-> s]
<1> DEFINE own == get(item, k)
           in == Into(Reset(ss), own)
           r == [src |-> src, ss |-> ss]
<1>1. Reset(ss) = [left |-> Empty, good |-> TRUE]
  BY DEF Reset
<1>2. in = [left |-> own, good |-> TRUE]
  <2>1. Reset(ss).left = Empty /\ Reset(ss).good = TRUE
    BY <1>1
  <2>2. CASE own = Empty
    BY <1>1, <2>2 DEF Into
  <2>3. CASE own # Empty
    BY <2>1, <2>3 DEF Into
  <2>4. QED
    BY <2>2, <2>3
<1>3. r.ss = ss /\ r.src = src
  OBVIOUS
<1>4. y \in IF k \in Sizes /\ in.left = Empty THEN {[src |-> src, ss |-> in]}
           ELSE {[src |-> [src EXCEPT ![k] = e.x], ss |-> e.ss] :
                   e \in Extract(in, src[k], Values(k, in.left))}
  BY <1>3 DEF Field
<1>5. in.left = own /\ in.good = TRUE
  BY <1>2
<1>6. CASE k \in Sizes /\ own = Empty
  <2>1. y = [src |-> src, ss |-> in]
    BY <1>4, <1>5, <1>6
  <2>2. [src EXCEPT ![k] = src[k]] = src
    OBVIOUS
  <2>3. in \in Streams
    BY <1>2, <1>6 DEF Streams
  <2>4. src[k] \in Got(item, k, src[k])
    BY <1>6 DEF Got
  <2>5. QED
    BY <2>1, <2>2, <2>3, <2>4
<1>7. CASE ~(k \in Sizes /\ own = Empty)
  <2>1. PICK e \in Extract(in, src[k], Values(k, own)) :
          y = [src |-> [src EXCEPT ![k] = e.x], ss |-> e.ss]
    <3>1. y \in {[src |-> [src EXCEPT ![k] = e.x], ss |-> e.ss] :
                   e \in Extract(in, src[k], Values(k, own))}
      BY <1>4, <1>5, <1>7
    <3>2. QED
      BY <3>1
  <2>2. CASE own = Empty
    <3>1. e = [x |-> src[k], ss |-> [left |-> in.left, good |-> FALSE]]
      BY <1>5, <2>1, <2>2 DEF Extract
    <3>2. e.x = src[k] /\ e.ss \in Streams
      BY <1>5, <2>2, <3>1 DEF Streams
    <3>3. QED
      BY <2>1, <2>2, <3>2 DEF Got
  <2>3. CASE own # Empty
    <3>1. e \in {[x |-> v, ss |-> s] :
                   v \in Values(k, own), s \in {t \in Streams : t.good => t.left # Empty}}
      BY <1>5, <2>1, <2>3 DEF Extract, Streams
    <3>2. e.x \in Values(k, own) /\ e.ss \in Streams
      BY <3>1
    <3>3. QED
      BY <2>1, <2>3, <3>2 DEF Got
  <2>4. QED
    BY <2>2, <2>3
<1>8. QED
  BY <1>6, <1>7

\* What it means to set a field of a source.
LEMMA SourceSet ==
  ASSUME NEW a1, NEW a2, NEW a3, NEW a4, NEW a5, NEW a6, NEW a7, NEW a8
  PROVE  LET src == Source(a1, a2, a3, a4, a5, a6, a7, a8)
         IN  /\ src = [j \in DOMAIN src |-> src[j]]
             /\ DOMAIN src = Words \cup Sizes \cup {"port"}
             /\ src["ip"] = a1
             /\ \A v : [src EXCEPT !["ip"] = v] = Source(v, a2, a3, a4, a5, a6, a7, a8)
             /\ src["port"] = a2
             /\ \A v : [src EXCEPT !["port"] = v] = Source(a1, v, a3, a4, a5, a6, a7, a8)
             /\ src["db"] = a3
             /\ \A v : [src EXCEPT !["db"] = v] = Source(a1, a2, v, a4, a5, a6, a7, a8)
             /\ src["user"] = a4
             /\ \A v : [src EXCEPT !["user"] = v] = Source(a1, a2, a3, v, a5, a6, a7, a8)
             /\ src["pass"] = a5
             /\ \A v : [src EXCEPT !["pass"] = v] = Source(a1, a2, a3, a4, v, a6, a7, a8)
             /\ src["initialSize"] = a6
             /\ \A v : [src EXCEPT !["initialSize"] = v] = Source(a1, a2, a3, a4, a5, v, a7, a8)
             /\ src["maxSize"] = a7
             /\ \A v : [src EXCEPT !["maxSize"] = v] = Source(a1, a2, a3, a4, a5, a6, v, a8)
             /\ src["reapSec"] = a8
             /\ \A v : [src EXCEPT !["reapSec"] = v] = Source(a1, a2, a3, a4, a5, a6, a7, v)
BY DEF Source, Words, Sizes

\* A set that is read field by field.
LEMMA ReadOne ==
  ASSUME NEW item, NEW k, NEW R, NEW y \in Read(item, k, R)
  PROVE  \E r \in R : y \in Field(item, k, r)
BY DEF Read

\* Each field of a source comes from its own text.
LEMMA SourceFields ==
  ASSUME NEW item, NEW src \in DataSources(item)
  PROVE  \E p \in Wild :
           \E v1 \in Got(item, "ip", Empty), v2 \in Got(item, "port", p),
              v3 \in Got(item, "db", Empty), v4 \in Got(item, "user", Empty),
              v5 \in Got(item, "pass", Empty), v6 \in Got(item, "initialSize", 0),
              v7 \in Got(item, "maxSize", 10), v8 \in Got(item, "reapSec", 60) :
             src = Source(v1, v2, v3, v4, v5, v6, v7, v8)
<1> DEFINE
      R1 == Read(item, "ip", Blank)
      R2 == Read(item, "port", R1)
      R3 == Read(item, "db", R2)
      R4 == Read(item, "user", R3)
      R5 == Read(item, "pass", R4)
      R6 == Read(item, "initialSize", R5)
      R7 == Read(item, "maxSize", R6)
      R8 == Read(item, "reapSec", R7)
<1>1. PICK r8 \in R8 : src = r8.src
  BY DEF DataSources
<1>2. PICK r7 \in R7 : r8 \in Field(item, "reapSec", r7)
  BY <1>1, ReadOne
<1>3. PICK r6 \in R6 : r7 \in Field(item, "maxSize", r6)
  BY <1>2, ReadOne
<1>4. PICK r5 \in R5 : r6 \in Field(item, "initialSize", r5)
  BY <1>3, ReadOne
<1>5. PICK r4 \in R4 : r5 \in Field(item, "pass", r4)
  BY <1>4, ReadOne
<1>6. PICK r3 \in R3 : r4 \in Field(item, "user", r3)
  BY <1>5, ReadOne
<1>7. PICK r2 \in R2 : r3 \in Field(item, "db", r2)
  BY <1>6, ReadOne
<1>8. PICK r1 \in R1 : r2 \in Field(item, "port", r1)
  BY <1>7, ReadOne
<1>9. PICK r0 \in Blank : r1 \in Field(item, "ip", r0)
  BY <1>8, ReadOne
<1> HIDE DEF R1, R2, R3, R4, R5, R6, R7, R8
<1>10. PICK p \in Wild : r0 = [src |-> Source(Empty, p, Empty, Empty, Empty, 0, 10, 60),
                             ss |-> [left |-> Empty, good |-> TRUE]]
  BY DEF Blank, Source
<1> DEFINE s0 == [left |-> Empty, good |-> TRUE]
<1>11. s0 \in Streams
  BY DEF Streams
<1> HIDE DEF s0
<1>12. PICK v1 \in Got(item, "ip", Empty), s1 \in Streams :
        r1 = [src |-> Source(v1, p, Empty, Empty, Empty, 0, 10, 60), ss |-> s1]
  <2>1. LET x == Source(Empty, p, Empty, Empty, Empty, 0, 10, 60)
        IN  /\ x = [j \in DOMAIN x |-> x[j]] /\ "ip" \in DOMAIN x
            /\ r1 \in Field(item, "ip", [src |-> x, ss |-> s0])
    BY <1>9, <1>10, SourceSet DEF Words, Sizes, s0
  <2>2. \E v \in Got(item, "ip", Source(Empty, p, Empty, Empty, Empty, 0, 10, 60)["ip"]), s \in Streams :
          r1 = [src |-> [Source(Empty, p, Empty, Empty, Empty, 0, 10, 60) EXCEPT !["ip"] = v], ss |-> s]
    BY <1>11, <2>1, FieldRead
  <2>3. QED
    BY <2>2, SourceSet
<1>13. PICK v2 \in Got(item, "port", p), s2 \in Streams :
        r2 = [src |-> Source(v1, v2, Empty, Empty, Empty, 0, 10, 60), ss |-> s2]
  <2>1. LET x == Source(v1, p, Empty, Empty, Empty, 0, 10, 60)
        IN  /\ x = [j \in DOMAIN x |-> x[j]] /\ "port" \in DOMAIN x
            /\ r2 \in Field(item, "port", [src |-> x, ss |-> s1])
    BY <1>8, <1>12, SourceSet DEF Words, Sizes
  <2>2. \E v \in Got(item, "port", Source(v1, p, Empty, Empty, Empty, 0, 10, 60)["port"]), s \in Streams :
          r2 = [src |-> [Source(v1, p, Empty, Empty, Empty, 0, 10, 60) EXCEPT !["port"] = v], ss |-> s]
    BY <2>1, FieldRead
  <2>3. QED
    BY <2>2, SourceSet
<1>14. PICK v3 \in Got(item, "db", Empty), s3 \in Streams :
        r3 = [src |-> Source(v1, v2, v3, Empty, Empty, 0, 10, 60), ss |-> s3]
  <2>1. LET x == Source(v1, v2, Empty, Empty, Empty, 0, 10, 60)
        IN  /\ x = [j \in DOMAIN x |-> x[j]] /\ "db" \in DOMAIN x
            /\ r3 \in Field(item, "db", [src |-> x, ss |-> s2])
    BY <1>7, <1>13, SourceSet DEF Words, Sizes
  <2>2. \E v \in Got(item, "db", Source(v1, v2, Empty, Empty, Empty, 0, 10, 60)["db"]), s \in Streams :
          r3 = [src |-> [Source(v1, v2, Empty, Empty, Empty, 0, 10, 60) EXCEPT !["db"] = v], ss |-> s]
    BY <2>1, FieldRead
  <2>3. QED
    BY <2>2, SourceSet
<1>15. PICK v4 \in Got(item, "user", Empty), s4 \in Streams :
        r4 = [src |-> Source(v1, v2, v3, v4, Empty, 0, 10, 60), ss |-> s4]
  <2>1. LET x == Source(v1, v2, v3, Empty, Empty, 0, 10, 60)
        IN  /\ x = [j \in DOMAIN x |-> x[j]] /\ "user" \in DOMAIN x
            /\ r4 \in Field(item, "user", [src |-> x, ss |-> s3])
    BY <1>6, <1>14, SourceSet DEF Words, Sizes
  <2>2. \E v \in Got(item, "user", Source(v1, v2, v3, Empty, Empty, 0, 10, 60)["user"]), s \in Streams :
          r4 = [src |-> [Source(v1, v2, v3, Empty, Empty, 0, 10, 60) EXCEPT !["user"] = v], ss |-> s]
    BY <2>1, FieldRead
  <2>3. QED
    BY <2>2, SourceSet
<1>16. PICK v5 \in Got(item, "pass", Empty), s5 \in Streams :
        r5 = [src |-> Source(v1, v2, v3, v4, v5, 0, 10, 60), ss |-> s5]
  <2>1. LET x == Source(v1, v2, v3, v4, Empty, 0, 10, 60)
        IN  /\ x = [j \in DOMAIN x |-> x[j]] /\ "pass" \in DOMAIN x
            /\ r5 \in Field(item, "pass", [src |-> x, ss |-> s4])
    BY <1>5, <1>15, SourceSet DEF Words, Sizes
  <2>2. \E v \in Got(item, "pass", Source(v1, v2, v3, v4, Empty, 0, 10, 60)["pass"]), s \in Streams :
          r5 = [src |-> [Source(v1, v2, v3, v4, Empty, 0, 10, 60) EXCEPT !["pass"] = v], ss |-> s]
    BY <2>1, FieldRead
  <2>3. QED
    BY <2>2, SourceSet
<1>17. PICK v6 \in Got(item, "initialSize", 0), s6 \in Streams :
        r6 = [src |-> Source(v1, v2, v3, v4, v5, v6, 10, 60), ss |-> s6]
  <2>1. LET x == Source(v1, v2, v3, v4, v5, 0, 10, 60)
        IN  /\ x = [j \in DOMAIN x |-> x[j]] /\ "initialSize" \in DOMAIN x
            /\ r6 \in Field(item, "initialSize", [src |-> x, ss |-> s5])
    BY <1>4, <1>16, SourceSet DEF Words, Sizes
  <2>2. \E v \in Got(item, "initialSize", Source(v1, v2, v3, v4, v5, 0, 10, 60)["initialSize"]), s \in Streams :
          r6 = [src |-> [Source(v1, v2, v3, v4, v5, 0, 10, 60) EXCEPT !["initialSize"] = v], ss |-> s]
    BY <2>1, FieldRead
  <2>3. QED
    BY <2>2, SourceSet
<1>18. PICK v7 \in Got(item, "maxSize", 10), s7 \in Streams :
        r7 = [src |-> Source(v1, v2, v3, v4, v5, v6, v7, 60), ss |-> s7]
  <2>1. LET x == Source(v1, v2, v3, v4, v5, v6, 10, 60)
        IN  /\ x = [j \in DOMAIN x |-> x[j]] /\ "maxSize" \in DOMAIN x
            /\ r7 \in Field(item, "maxSize", [src |-> x, ss |-> s6])
    BY <1>3, <1>17, SourceSet DEF Words, Sizes
  <2>2. \E v \in Got(item, "maxSize", Source(v1, v2, v3, v4, v5, v6, 10, 60)["maxSize"]), s \in Streams :
          r7 = [src |-> [Source(v1, v2, v3, v4, v5, v6, 10, 60) EXCEPT !["maxSize"] = v], ss |-> s]
    BY <2>1, FieldRead
  <2>3. QED
    BY <2>2, SourceSet
<1>19. PICK v8 \in Got(item, "reapSec", 60), s8 \in Streams :
        r8 = [src |-> Source(v1, v2, v3, v4, v5, v6, v7, v8), ss |-> s8]
  <2>1. LET x == Source(v1, v2, v3, v4, v5, v6, v7, 60)
        IN  /\ x = [j \in DOMAIN x |-> x[j]] /\ "reapSec" \in DOMAIN x
            /\ r8 \in Field(item, "reapSec", [src |-> x, ss |-> s7])
    BY <1>2, <1>18, SourceSet DEF Words, Sizes
  <2>2. \E v \in Got(item, "reapSec", Source(v1, v2, v3, v4, v5, v6, v7, 60)["reapSec"]), s \in Streams :
          r8 = [src |-> [Source(v1, v2, v3, v4, v5, v6, v7, 60) EXCEPT !["reapSec"] = v], ss |-> s]
    BY <2>1, FieldRead
  <2>3. QED
    BY <2>2, SourceSet
<1>20. QED
  BY <1>1, <1>10, <1>12, <1>13, <1>14, <1>15, <1>16, <1>17, <1>18, <1>19

\* The source of a pool is one that the Config, which stays as it is, gives.
PoolOf(p) == p.tag \in Sections /\ p.source \in DataSources(p.tag)

RedisOf(p) ==
  /\ PoolOf(p)
  /\ p.timeout \in Timeouts(p.tag)
  /\ p.idle \in 0 .. Max({0, p.source.initialSize})

DbOf(p) ==
  /\ PoolOf(p)
  /\ p.url \in Urls(p.source)
  /\ p.state \in Outcomes(p.source)
  /\ p.state \in {"stopped", "started"} => p.reaper = Max({0, p.source.reapSec})

PoolsInv ==
  /\ resource \in {"idle", "redis", "set"}
  /\ resource = "idle" => redisPool = NoPool /\ dbPool = NoPool
  /\ resource # "idle" => phase = "built" /\ ~undefined
  /\ redisPool # NoPool => RedisOf(redisPool)
  /\ dbPool # NoPool => DbOf(dbPool)

\* The greater of an integer and 0.
LEMMA MaxZero ==
  ASSUME NEW n \in Int
  PROVE  /\ Max({0, n}) \in {0, n} /\ Max({0, n}) >= 0 /\ Max({0, n}) >= n
         /\ n <= 0 => Max({0, n}) = 0
<1>1. \E x \in {0, n} : \A y \in {0, n} : y <= x
  <2>1. CASE n <= 0
    BY <2>1
  <2>2. CASE 0 <= n
    BY <2>2
  <2>3. QED
    BY <2>1, <2>2
<1>2. Max({0, n}) \in {0, n} /\ \A y \in {0, n} : y <= Max({0, n})
  BY <1>1 DEF Max
<1>3. QED
  BY <1>2

\* A source of a section is as the file declares it.
LEMMA SourceSays ==
  ASSUME ConfigInv, phase = "built", ~undefined, ~Runs,
         NEW tag \in Sections, NEW src \in DataSources(tag)
  PROVE  /\ SourceAsDeclared(src, tag)
         /\ src.initialSize \in Int /\ src.maxSize \in Int /\ src.reapSec \in Int
<1>1. Words \cup Sizes \cup {"port"} \subseteq Keys
  BY ResourceAssumption
<1>2. \A k \in Keys : get(tag, k) = Declared(tag, k)
  BY NotRunning
<1>3. \A k \in Keys : Declared(tag, k) # Empty =>
        Declared(tag, k) # Garbled /\ Number[Declared(tag, k)] \in Int
  BY DeclaredText, ConfigAssumption, ResourceAssumption
<1>4. ASSUME NEW k \in Words, NEW v \in Got(tag, k, Empty)
      PROVE  v = Word[Declared(tag, k)]
  BY <1>1, <1>2, <1>4, ResourceAssumption DEF Got, Values
<1>5. ASSUME NEW k \in Sizes \cup {"port"}, NEW before, NEW v \in Got(tag, k, before)
      PROVE  v = IF Declared(tag, k) = Empty THEN before ELSE Number[Declared(tag, k)]
  <2>1. k \notin Words
    BY <1>5 DEF Words, Sizes
  <2>2. QED
    BY <1>1, <1>2, <1>3, <1>5, <2>1 DEF Got, Values, Numbers
<1>6. PICK p \in Wild :
        \E v1 \in Got(tag, "ip", Empty), v2 \in Got(tag, "port", p),
           v3 \in Got(tag, "db", Empty), v4 \in Got(tag, "user", Empty),
           v5 \in Got(tag, "pass", Empty), v6 \in Got(tag, "initialSize", 0),
           v7 \in Got(tag, "maxSize", 10), v8 \in Got(tag, "reapSec", 60) :
          src = Source(v1, v2, v3, v4, v5, v6, v7, v8)
  BY SourceFields
<1>7. PICK v1 \in Got(tag, "ip", Empty), v2 \in Got(tag, "port", p),
           v3 \in Got(tag, "db", Empty), v4 \in Got(tag, "user", Empty),
           v5 \in Got(tag, "pass", Empty), v6 \in Got(tag, "initialSize", 0),
           v7 \in Got(tag, "maxSize", 10), v8 \in Got(tag, "reapSec", 60) :
          src = Source(v1, v2, v3, v4, v5, v6, v7, v8)
  BY <1>6
<1>8. /\ src["ip"] = v1 /\ src.port = v2 /\ src["db"] = v3 /\ src["user"] = v4
      /\ src["pass"] = v5 /\ src.initialSize = v6 /\ src.maxSize = v7 /\ src.reapSec = v8
  BY <1>7 DEF Source
<1>9. \A k \in Words : src[k] = Word[Declared(tag, k)]
  <2>1. /\ v1 = Word[Declared(tag, "ip")] /\ v3 = Word[Declared(tag, "db")]
        /\ v4 = Word[Declared(tag, "user")] /\ v5 = Word[Declared(tag, "pass")]
    BY <1>4 DEF Words
  <2>2. QED
    BY <1>8, <2>1 DEF Words
<1>10. v2 = IF Declared(tag, "port") = Empty THEN p ELSE Number[Declared(tag, "port")]
  BY <1>5
<1>11. /\ v6 = IF Declared(tag, "initialSize") = Empty THEN 0
               ELSE Number[Declared(tag, "initialSize")]
       /\ v7 = IF Declared(tag, "maxSize") = Empty THEN 10
               ELSE Number[Declared(tag, "maxSize")]
       /\ v8 = IF Declared(tag, "reapSec") = Empty THEN 60
               ELSE Number[Declared(tag, "reapSec")]
  BY <1>5 DEF Sizes
<1>12. v6 \in Int /\ v7 \in Int /\ v8 \in Int
  BY <1>1, <1>3, <1>11 DEF Sizes
<1>13. SourceAsDeclared(src, tag)
  BY <1>8, <1>9, <1>10, <1>11 DEF SourceAsDeclared
<1>14. QED
  BY <1>8, <1>12, <1>13

\* The pools are as the file says.
LEMMA PoolsInvSays == ConfigInv /\ PoolsInv => PoolsAsDeclared
<1> SUFFICES ASSUME ConfigInv, PoolsInv PROVE PoolsAsDeclared
  OBVIOUS
<1>1. ASSUME redisPool # NoPool
      PROVE  /\ PoolOf(redisPool) /\ phase = "built" /\ ~undefined
             /\ redisPool.timeout \in Timeouts(redisPool.tag)
             /\ redisPool.idle \in 0 .. Max({0, redisPool.source.initialSize})
  BY <1>1 DEF PoolsInv, RedisOf
<1>2. ASSUME dbPool # NoPool
      PROVE  PoolOf(dbPool) /\ DbOf(dbPool) /\ phase = "built" /\ ~undefined
  BY <1>2 DEF PoolsInv, DbOf
<1>3. ResourceTypeOK
  BY <1>1, <1>2 DEF PoolsInv, PoolOf, ResourceTypeOK
<1>4. ASSUME ~Runs, redisPool # NoPool PROVE RedisAsDeclared(redisPool)
  <2> DEFINE tag == redisPool.tag
             src == redisPool.source
  <2>1. tag \in Sections /\ src \in DataSources(tag) /\ phase = "built" /\ ~undefined
    BY <1>1, <1>4 DEF PoolOf
  <2>2. SourceAsDeclared(src, tag) /\ src.initialSize \in Int
    BY <1>4, <2>1, SourceSays
  <2>3. redisPool.timeout \in NumberOr({100000}, get(tag, "timeout"))
    BY <1>1, <1>4 DEF Timeouts
  <2>4. redisPool.timeout = IF Declared(tag, "timeout") = Empty THEN 100000
                            ELSE Number[Declared(tag, "timeout")]
    <3>1. "timeout" \in Keys
      BY ResourceAssumption
    <3>2. IF Declared(tag, "timeout") = Empty THEN redisPool.timeout \in {100000}
          ELSE redisPool.timeout = Number[Declared(tag, "timeout")]
      BY <1>4, <2>1, <2>3, <3>1, DeclaredNumber
    <3>3. QED
      BY <3>2
  <2>5. src.initialSize = IF Declared(tag, "initialSize") = Empty THEN 0
                          ELSE Number[Declared(tag, "initialSize")]
    BY <2>2 DEF SourceAsDeclared
  <2>6. redisPool.idle > 0 => Declared(tag, "initialSize") # Empty
                              /\ redisPool.idle <= Number[Declared(tag, "initialSize")]
    <3>1. redisPool.idle \in 0 .. Max({0, src.initialSize})
      BY <1>1, <1>4
    <3>2. redisPool.idle > 0 => src.initialSize > 0 /\ redisPool.idle <= src.initialSize
      BY <2>2, <3>1, MaxZero
    <3>3. QED
      BY <2>5, <3>2
  <2>7. QED
    BY <2>2, <2>4, <2>6 DEF RedisAsDeclared
<1>5. ASSUME ~Runs, dbPool # NoPool PROVE DbAsDeclared(dbPool)
  <2> DEFINE tag == dbPool.tag
             src == dbPool.source
             Sized(k, d) == IF Declared(tag, k) = Empty THEN d ELSE Number[Declared(tag, k)]
  <2>1. tag \in Sections /\ src \in DataSources(tag) /\ phase = "built" /\ ~undefined
    BY <1>2, <1>5 DEF PoolOf
  <2>2. /\ SourceAsDeclared(src, tag)
        /\ src.initialSize \in Int /\ src.maxSize \in Int
    BY <1>5, <2>1, SourceSays
  <2>3. /\ src.initialSize = Sized("initialSize", 0) /\ src.maxSize = Sized("maxSize", 10)
        /\ src.reapSec = Sized("reapSec", 60)
        /\ \A k \in Words : src[k] = Word[Declared(tag, k)]
    BY <2>2 DEF SourceAsDeclared
  <2>4. /\ dbPool.url \in Urls(src) /\ dbPool.state \in Outcomes(src)
        /\ dbPool.state \in {"stopped", "started"} => dbPool.reaper = Max({0, src.reapSec})
    BY <1>2, <1>5 DEF DbOf
  <2>5. dbPool.url # "as meant" => \E k \in Words : Word[Declared(tag, k)] \in Unsafe
    <3>1. dbPool.url # "as meant" => \E k \in Words : src[k] \in Unsafe
      BY <2>4 DEF Urls
    <3>2. QED
      BY <2>3, <3>1
  <2> DEFINE sensible == src.initialSize \in 0 .. src.maxSize
  <2>6. /\ dbPool.state = "refused" => ~sensible
        /\ dbPool.state \in {"stopped", "started"} => sensible
    BY <2>2, <2>4 DEF Outcomes
  <2>7. QED
    <3> HIDE DEF tag, src
    <3>1. /\ dbPool.state = "refused" => ~(Sized("initialSize", 0) \in 0 .. Sized("maxSize", 10))
          /\ dbPool.state \in {"stopped", "started"} =>
               /\ Sized("initialSize", 0) \in 0 .. Sized("maxSize", 10)
               /\ dbPool.reaper = Max({0, Sized("reapSec", 60)})
      BY <2>3, <2>4, <2>6
    <3>2. QED
      BY <2>2, <2>5, <3>1 DEF DbAsDeclared, tag, src
<1>6. QED
  BY <1>3, <1>4, <1>5 DEF PoolsAsDeclared

\* The Redis pool that InitRedis or Construct makes is one that the Config gives.
LEMMA RedisMade ==
  ASSUME NEW tag \in Sections, RedisInit(tag)
  PROVE  RedisOf(redisPool')
<1>1. PICK src \in DataSources(tag), t \in Timeouts(tag) :
        \E n \in 0 .. Max({0, src.initialSize}) :
          redisPool' = [source |-> src, timeout |-> t, tag |-> tag, idle |-> n]
  BY DEF RedisInit
<1>2. PICK n \in 0 .. Max({0, src.initialSize}) :
        redisPool' = [source |-> src, timeout |-> t, tag |-> tag, idle |-> n]
  BY <1>1
<1>3. /\ redisPool'.source = src /\ redisPool'.timeout = t
      /\ redisPool'.tag = tag /\ redisPool'.idle = n
  BY <1>2
<1>4. QED
  BY <1>3 DEF RedisOf, PoolOf

\* The same for the database pool.
LEMMA PoolMade ==
  ASSUME NEW tag \in Sections, PoolInit(tag)
  PROVE  DbOf(dbPool')
<1>1. PICK src \in DataSources(tag) :
        \E url \in Urls(src), state \in Outcomes(src) :
          dbPool' = [source |-> src, url |-> url, tag |-> tag, state |-> state,
                     reaper |-> IF state \in {"stopped", "started"}
                                THEN Max({0, src.reapSec}) ELSE 0]
  BY DEF PoolInit
<1>2. PICK url \in Urls(src), state \in Outcomes(src) :
        dbPool' = [source |-> src, url |-> url, tag |-> tag, state |-> state,
                   reaper |-> IF state \in {"stopped", "started"}
                              THEN Max({0, src.reapSec}) ELSE 0]
  BY <1>1
<1>3. /\ dbPool'.source = src /\ dbPool'.tag = tag /\ dbPool'.url = url
      /\ dbPool'.state = state
      /\ state \in {"stopped", "started"} => dbPool'.reaper = Max({0, src.reapSec})
  BY <1>2
<1>4. QED
  BY <1>3 DEF DbOf, PoolOf

\* Each step of the start keeps the pools in agreement with the Config.
LEMMA PoolsInvNext ==
  PoolsInv /\ [StartupNext]_startupVars => PoolsInv'
<1> SUFFICES ASSUME PoolsInv, [StartupNext]_startupVars PROVE PoolsInv'
  OBVIOUS
<1>1. ASSUME UNCHANGED <<phase, undefined, configMap>>
      PROVE  \A p : (RedisOf(p) => RedisOf(p)') /\ (DbOf(p) => DbOf(p)')
  <2>1. ASSUME NEW item, NEW k PROVE get(item, k)' = get(item, k)
    BY <1>1 DEF get
  <2>2. ASSUME NEW item, NEW k, NEW R PROVE Read(item, k, R)' = Read(item, k, R')
    BY <2>1 DEF Read, Field
  <2>3. ASSUME NEW item
        PROVE  DataSources(item)' = DataSources(item) /\ Timeouts(item)' = Timeouts(item)
    <3>1. Blank' = Blank
      BY DEF Blank
    <3>2. QED
      BY <2>1, <2>2, <3>1 DEF DataSources, Timeouts, NumberOr, Numbers
  <2>4. QED
    BY <2>3 DEF RedisOf, DbOf, PoolOf, Urls, Outcomes
<1>2. CASE UNCHANGED <<phase, undefined, configMap, resourceVars>>
  <2>1. /\ resource' = resource /\ redisPool' = redisPool /\ dbPool' = dbPool
        /\ phase' = phase /\ undefined' = undefined
    BY <1>2 DEF resourceVars
  <2>2. redisPool # NoPool => RedisOf(redisPool)'
    <3>1. \A p : p = redisPool /\ RedisOf(p) => RedisOf(p)'
      BY <1>1, <1>2
    <3>2. QED
      BY <2>1, <3>1 DEF PoolsInv
  <2>3. dbPool # NoPool => DbOf(dbPool)'
    <3>1. \A p : p = dbPool /\ DbOf(p) => DbOf(p)'
      BY <1>1, <1>2
    <3>2. QED
      BY <2>1, <3>1 DEF PoolsInv
  <2>4. QED
    BY <2>1, <2>2, <2>3 DEF PoolsInv
<1>3. CASE Configure
  <2>1. phase = "read"
    BY <1>3 DEF Configure, ConfigNext, ReadLine, GiveUp, ReadLast, AtEnd, Reading
  <2>2. resource = "idle" /\ UNCHANGED resourceVars
    BY <1>3, <2>1 DEF Configure, PoolsInv
  <2>3. QED
    BY <2>2 DEF PoolsInv, resourceVars
<1>4. CASE Serve
  BY <1>2, <1>4 DEF Serve, configVars
<1>5. CASE Equip
  <2>1. /\ phase = "built" /\ ~undefined
        /\ UNCHANGED <<phase, undefined, configMap>>
    BY <1>5 DEF Equip, configVars
  <2>2. \A p : (RedisOf(p) => RedisOf(p)') /\ (DbOf(p) => DbOf(p)')
    BY <1>1, <2>1
  <2>3. redisPool' = redisPool \/ RedisOf(redisPool')
    BY <1>5, RedisMade, ResourceAssumption
       DEF Equip, SetUp, InitRedis, InitDb, Construct
  <2>4. dbPool' = dbPool \/ DbOf(dbPool')
    BY <1>5, PoolMade, ResourceAssumption
       DEF Equip, SetUp, InitRedis, InitDb, Construct
  <2>5. resource' \in {"redis", "set"}
    BY <1>5 DEF Equip, SetUp, InitRedis, InitDb, Construct
  <2>6. redisPool' # NoPool => RedisOf(redisPool')
    BY <2>3 DEF PoolsInv
  <2>7. dbPool' # NoPool => DbOf(dbPool')
    BY <2>4 DEF PoolsInv
  <2>8. redisPool' # NoPool => RedisOf(redisPool)'
    <3>1. \A p : p = redisPool' /\ RedisOf(p) => RedisOf(p)'
      BY <2>2
    <3>2. QED
      BY <2>6, <3>1
  <2>9. dbPool' # NoPool => DbOf(dbPool)'
    <3>1. \A p : p = dbPool' /\ DbOf(p) => DbOf(p)'
      BY <2>2
    <3>2. QED
      BY <2>7, <3>1
  <2>10. QED
    BY <2>1, <2>5, <2>6, <2>8, <2>9 DEF PoolsInv
<1>6. QED
  BY <1>2, <1>3, <1>4, <1>5 DEF StartupNext, startupVars, configVars

\* The server and the pools start as the file says, for files of any lines in
\* any order, and any numbers that are read from their texts.
THEOREM StartsAsFileSays == Startup => []StartsAsDeclared
<1>1. StartupInit => PoolsInv
  BY DEF StartupInit, ResourceInit, PoolsInv
<1>2. Startup => []PoolsInv
  BY <1>1, PoolsInvNext, PTL DEF Startup
<1>3. ConfigInv /\ ServerInv /\ PoolsInv => StartsAsDeclared
  BY ServerInvSays, PoolsInvSays DEF StartsAsDeclared
<1>4. QED
  BY <1>2, <1>3, ConfigInvAlways, ServerInvAlways, PTL
-----------------------------------------------------------------------------
(***************************************************************************)
(* Base64.  FlattenSeq, which joins a sequence of sequences, is a          *)
(* recursive function that is CHOSEN: it is one at all because such a      *)
(* function exists, and what it gives follows because there is only one.   *)
(* Both come from a least index at which that would fail, and so do the    *)
(* laws of joining that the rest stands on.                                *)
(***************************************************************************)

\* f[i] is what the first i sequences of s give when they are joined.
Joins(s, f) ==
  f = [i \in 1 .. Len(s) |-> IF i = 1 THEN s[i] ELSE f[i - 1] \o s[i]]

\* There is only one such function.
LEMMA JoinedOnce ==
  ASSUME NEW s, Len(s) \in Nat, NEW f, NEW h, Joins(s, f), Joins(s, h)
  PROVE  f = h
<1> DEFINE T == {i \in 1 .. Len(s) : f[i] # h[i]}
<1>1. T = {}
  <2>1. SUFFICES ASSUME T # {} PROVE FALSE
    OBVIOUS
  <2>2. T \subseteq Nat
    OBVIOUS
  <2>3. PICK i \in T : \A j \in T : i <= j
    BY <2>1, <2>2, NatMin
  <2>4. i \in 1 .. Len(s) /\ f[i] # h[i]
    OBVIOUS
  <2>5. /\ f[i] = IF i = 1 THEN s[i] ELSE f[i - 1] \o s[i]
        /\ h[i] = IF i = 1 THEN s[i] ELSE h[i - 1] \o s[i]
    BY <2>4 DEF Joins
  <2>6. i # 1
    BY <2>4, <2>5
  <2>7. i - 1 \in 1 .. Len(s) /\ ~(i <= i - 1)
    BY <2>4, <2>6
  <2>8. f[i - 1] = h[i - 1]
    BY <2>3, <2>7
  <2>9. QED
    BY <2>4, <2>5, <2>6, <2>8
<1>2. \A i \in 1 .. Len(s) : f[i] = h[i]
  BY <1>1
<1>3. /\ f = [i \in 1 .. Len(s) |-> f[i]]
      /\ h = [i \in 1 .. Len(s) |-> h[i]]
  BY DEF Joins
<1>4. QED
  BY <1>2, <1>3

\* So whoever has one has FlattenSeq.
LEMMA JoinedIs ==
  ASSUME NEW s, Len(s) \in Nat, Len(s) # 0, NEW f, Joins(s, f)
  PROVE  FlattenSeq(s) = f[Len(s)]
<1> DEFINE flat == CHOOSE h : h = [i \in 1 .. Len(s) |->
                                     IF i = 1 THEN s[i] ELSE h[i - 1] \o s[i]]
<1>1. FlattenSeq(s) = flat[Len(s)]
  BY DEF FlattenSeq
<1>2. flat = [i \in 1 .. Len(s) |-> IF i = 1 THEN s[i] ELSE flat[i - 1] \o s[i]]
  BY DEF Joins
<1> HIDE DEF flat
<1>3. Joins(s, flat)
  BY <1>2 DEF Joins
<1>4. QED
  BY <1>1, <1>3, JoinedOnce

\* And there is one.
LEMMA JoinedExists ==
  ASSUME NEW S, NEW s \in Seq(Seq(S))
  PROVE  \E f \in [1 .. Len(s) -> Seq(S)] : Joins(s, f)
<1> DEFINE Upto(k, f) == \A i \in 1 .. k : f[i] = IF i = 1 THEN s[i] ELSE f[i - 1] \o s[i]
           T == {k \in 0 .. Len(s) : ~ \E f \in [1 .. k -> Seq(S)] : Upto(k, f)}
<1>1. T = {}
  <2>1. SUFFICES ASSUME T # {} PROVE FALSE
    OBVIOUS
  <2>2. Len(s) \in Nat /\ T \subseteq Nat
    OBVIOUS
  <2>3. PICK k \in T : \A n \in T : k <= n
    BY <2>1, <2>2, NatMin
  <2>4. k \in 1 .. Len(s)
    <3>1. ASSUME k = 0 PROVE FALSE
      <4> DEFINE none == [i \in 1 .. 0 |-> <<>>]
      <4>1. 1 .. 0 = {}
        OBVIOUS
      <4>2. none \in [1 .. 0 -> Seq(S)]
        BY <4>1
      <4>3. Upto(0, none)
        BY <4>1
      <4>4. QED
        BY <3>1, <4>2, <4>3
    <3>2. QED
      BY <2>2, <3>1
  <2>5. k - 1 \in 0 .. Len(s) /\ k - 1 \notin T
    <3>1. k - 1 \in 0 .. Len(s) /\ ~(k <= k - 1)
      BY <2>2, <2>4
    <3> HIDE DEF T
    <3>2. QED
      BY <2>3, <3>1
  <2>6. PICK f \in [1 .. k - 1 -> Seq(S)] : Upto(k - 1, f)
    BY <2>5
  <2> DEFINE e == IF k = 1 THEN s[k] ELSE f[k - 1] \o s[k]
             h == [i \in 1 .. k |-> IF i = k THEN e ELSE f[i]]
  <2>7. e \in Seq(S)
    BY <2>2, <2>4
  <2>8. h \in [1 .. k -> Seq(S)]
    BY <2>4, <2>7
  <2>9. Upto(k, h)
    <3> SUFFICES ASSUME NEW i \in 1 .. k
                 PROVE  h[i] = IF i = 1 THEN s[i] ELSE h[i - 1] \o s[i]
      OBVIOUS
    <3>1. CASE i = k
      BY <3>1, <2>4
    <3>2. CASE i # k
      <4>1. i \in 1 .. k - 1 /\ (i # 1 => i - 1 \in 1 .. k - 1)
        BY <3>2, <2>4
      <4> HIDE DEF e
      <4>2. h[i] = f[i] /\ (i # 1 => h[i - 1] = f[i - 1])
        BY <4>1, <2>4, <3>2
      <4>3. QED
        BY <4>1, <4>2, <2>6
    <3>3. QED
      BY <3>1, <3>2
  <2>10. QED
    BY <2>3, <2>8, <2>9
<1>2. Len(s) \in 0 .. Len(s)
  OBVIOUS
<1>3. PICK f \in [1 .. Len(s) -> Seq(S)] : Upto(Len(s), f)
  BY <1>1, <1>2
<1>4. f = [i \in 1 .. Len(s) |-> f[i]]
  OBVIOUS
<1>5. Joins(s, f)
  BY <1>3, <1>4 DEF Joins
<1>6. QED
  BY <1>5

\* The joined sequence is made of the same elements.
LEMMA FlattenType ==
  ASSUME NEW S, NEW s \in Seq(Seq(S))
  PROVE  FlattenSeq(s) \in Seq(S)
<1>1. CASE Len(s) = 0
  BY <1>1 DEF FlattenSeq
<1>2. CASE Len(s) # 0
  <2>1. PICK f \in [1 .. Len(s) -> Seq(S)] : Joins(s, f)
    BY JoinedExists
  <2>2. FlattenSeq(s) = f[Len(s)]
    BY <1>2, <2>1, JoinedIs
  <2>3. Len(s) \in 1 .. Len(s)
    BY <1>2
  <2>4. f[Len(s)] \in Seq(S)
    BY <2>3
  <2>5. QED
    BY <2>2, <2>4
<1>3. QED
  BY <1>1, <1>2

\* Joining three sequences: in either order.
LEMMA Associative ==
  ASSUME NEW S, NEW a \in Seq(S), NEW b \in Seq(S), NEW c \in Seq(S)
  PROVE  (a \o b) \o c = a \o (b \o c)
OBVIOUS

\* The same of sequences of characters or bytes, as a formula.
LEMMA AssociativeInt ==
  \A a \in Seq(Int) : \A b \in Seq(Int) : \A c \in Seq(Int) :
    (a \o b) \o c = a \o (b \o c)
<1> TAKE a \in Seq(Int), b \in Seq(Int), c \in Seq(Int)
<1>1. QED
  BY Associative

\* Joining two rows of sequences is joining each row.
LEMMA FlattenConcat ==
  ASSUME NEW S, NEW s \in Seq(Seq(S)), NEW t \in Seq(Seq(S))
  PROVE  FlattenSeq(s \o t) = FlattenSeq(s) \o FlattenSeq(t)
<1>1. Len(s) \in Nat /\ Len(t) \in Nat /\ Len(s \o t) = Len(s) + Len(t)
  OBVIOUS
<1>2. FlattenSeq(s) \in Seq(S) /\ FlattenSeq(t) \in Seq(S)
  BY FlattenType
<1>3. CASE Len(s) = 0
  <2>1. s = <<>> /\ s \o t = t
    BY <1>3
  <2>2. FlattenSeq(s) = <<>>
    BY <2>1 DEF FlattenSeq
  <2>3. QED
    BY <1>2, <2>1, <2>2
<1>4. CASE Len(t) = 0
  <2>1. t = <<>> /\ s \o t = s
    BY <1>4
  <2>2. FlattenSeq(t) = <<>>
    BY <2>1 DEF FlattenSeq
  <2>3. QED
    BY <1>2, <2>1, <2>2
<1>5. CASE Len(s) # 0 /\ Len(t) # 0
  <2>1. PICK f \in [1 .. Len(s) -> Seq(S)] : Joins(s, f)
    BY JoinedExists
  <2>2. PICK h \in [1 .. Len(t) -> Seq(S)] : Joins(t, h)
    BY JoinedExists
  <2> DEFINE n == Len(s)
             m == Len(t)
             j == [i \in 1 .. n + m |-> IF i <= n THEN f[i] ELSE f[n] \o h[i - n]]
  <2>3. /\ \A k \in 1 .. n : f[k] \in Seq(S)
        /\ \A k \in 1 .. m : h[k] \in Seq(S) /\ t[k] \in Seq(S)
    <3>1. \A k \in 1 .. n : f[k] \in Seq(S)
      OBVIOUS
    <3>2. \A k \in 1 .. m : h[k] \in Seq(S)
      OBVIOUS
    <3>3. \A k \in 1 .. m : t[k] \in Seq(S)
      OBVIOUS
    <3>4. QED
      BY <3>1, <3>2, <3>3
  <2>4. \A a \in Seq(S) : \A b \in Seq(S) : \A c \in Seq(S) :
           (a \o b) \o c = a \o (b \o c)
    BY Associative
  <2>5. Joins(s \o t, j)
    <3> SUFFICES ASSUME NEW i \in 1 .. n + m
                 PROVE  j[i] = IF i = 1 THEN (s \o t)[i] ELSE j[i - 1] \o (s \o t)[i]
      BY <1>1 DEF Joins
    <3>1. CASE i <= n
      <4>1. (s \o t)[i] = s[i] /\ i \in 1 .. n
        BY <1>1, <3>1
      <4>2. f[i] = IF i = 1 THEN s[i] ELSE f[i - 1] \o s[i]
        BY <2>1, <4>1 DEF Joins
      <4>3. i # 1 => i - 1 \in 1 .. n
        BY <4>1
      <4>4. j[i] = f[i] /\ (i # 1 => j[i - 1] = f[i - 1])
        BY <1>1, <3>1, <4>1, <4>3
      <4>5. QED
        BY <4>1, <4>2, <4>4
    <3>2. CASE i = n + 1
      <4>1. (s \o t)[i] = t[1] /\ i - 1 = n /\ i - n = 1 /\ ~(i <= n) /\ i # 1
        BY <1>1, <1>5, <3>2
      <4>2. h[1] = t[1]
        BY <1>1, <1>5, <2>2 DEF Joins
      <4>3. j[i] = f[n] \o h[1] /\ j[n] = f[n]
        BY <1>1, <1>5, <4>1
      <4>4. QED
        BY <4>1, <4>2, <4>3
    <3>3. CASE i > n + 1
      <4>1. /\ (s \o t)[i] = t[i - n] /\ i - n \in 1 .. m /\ i - n # 1
            /\ i - n - 1 \in 1 .. m /\ (i - 1) - n = i - n - 1
            /\ ~(i <= n) /\ ~(i - 1 <= n) /\ i # 1 /\ i - 1 \in 1 .. n + m
        BY <1>1, <1>5, <3>3
      <4>2. h[i - n] = h[i - n - 1] \o t[i - n]
        BY <2>2, <4>1 DEF Joins
      <4>3. j[i] = f[n] \o h[i - n] /\ j[i - 1] = f[n] \o h[i - n - 1]
        BY <4>1
      <4>4. n \in 1 .. n
        BY <1>1, <1>5
      <4>5. f[n] \in Seq(S) /\ h[i - n - 1] \in Seq(S) /\ t[i - n] \in Seq(S)
        BY <2>3, <4>1, <4>4
      <4> HIDE DEF j, n, m
      <4>6. f[n] \o (h[i - n - 1] \o t[i - n]) = (f[n] \o h[i - n - 1]) \o t[i - n]
        BY <2>4, <4>5
      <4>7. QED
        BY <4>1, <4>2, <4>3, <4>6
    <3>4. i <= n \/ i = n + 1 \/ i > n + 1
      BY <1>1
    <3> HIDE DEF j, n
    <3>5. QED
      BY <3>1, <3>2, <3>3, <3>4
  <2>6. FlattenSeq(s \o t) = j[n + m]
    <3>1. Len(s \o t) \in Nat /\ Len(s \o t) # 0 /\ Len(s \o t) = n + m
      BY <1>1, <1>5
    <3> HIDE DEF j
    <3>2. QED
      BY <2>5, <3>1, JoinedIs
  <2>7. j[n + m] = f[n] \o h[m]
    <3>1. n + m \in 1 .. n + m /\ ~(n + m <= n) /\ (n + m) - n = m
      BY <1>1, <1>5
    <3> HIDE DEF n, m
    <3>2. QED
      BY <3>1
  <2>8. FlattenSeq(s) = f[n] /\ FlattenSeq(t) = h[m]
    BY <1>1, <1>5, <2>1, <2>2, JoinedIs
  <2>9. QED
    BY <2>6, <2>7, <2>8
<1>6. QED
  BY <1>3, <1>4, <1>5

\* Two sequences after each other, element by element.
LEMMA ConcatIs ==
  ASSUME NEW S, NEW s \in Seq(S), NEW t \in Seq(S)
  PROVE /\ s \o t \in Seq(S)
        /\ Len(s \o t) = Len(s) + Len(t)
        /\ \A i \in 1 .. Len(s) + Len(t) :
              (s \o t)[i] = IF i <= Len(s) THEN s[i] ELSE t[i - Len(s)]
OBVIOUS

\* Sequences with the same elements are the same.
LEMMA SameSeq ==
  ASSUME NEW S, NEW s \in Seq(S), NEW t \in Seq(S), Len(s) = Len(t),
         \A i \in 1 .. Len(s) : s[i] = t[i]
  PROVE  s = t
OBVIOUS

\* A short sequence by its elements.
LEMMA ShortSeq ==
  ASSUME NEW S, NEW y \in Seq(S)
  PROVE  /\ Len(y) = 1 => y = <<y[1]>>
         /\ Len(y) = 2 => y = <<y[1], y[2]>>
         /\ Len(y) = 3 => y = <<y[1], y[2], y[3]>>
<1>1. ASSUME Len(y) = 1 PROVE y = <<y[1]>>
  <2>1. y \in [1 .. 1 -> S] /\ y[1] \in S
    BY <1>1
  <2>2. QED
    BY <2>1
<1>2. ASSUME Len(y) = 2 PROVE y = <<y[1], y[2]>>
  <2>1. y \in [1 .. 2 -> S] /\ y[1] \in S /\ y[2] \in S
    BY <1>2
  <2>2. QED
    BY <2>1
<1>3. ASSUME Len(y) = 3 PROVE y = <<y[1], y[2], y[3]>>
  <2>1. y \in [1 .. Len(y) -> S]
    OBVIOUS
  <2>2. y \in [1 .. 3 -> S]
    BY <1>3, <2>1, Zenon
  <2>3. y[1] \in S /\ y[2] \in S /\ y[3] \in S
    BY <2>2
  <2>4. QED
    BY <2>2, <2>3
<1>4. QED
  BY <1>1, <1>2, <1>3

\* Joining short texts.
LEMMA OneAndThree ==
  ASSUME NEW x \in Int, NEW y \in Int, NEW z \in Int, NEW w \in Int
  PROVE <<x>> \o <<y, z, w>> = <<x, y, z, w>>
<1> DEFINE s == <<x>>
           t == <<y, z, w>>
           e == <<x, y, z, w>>
           u == s \o t
<1>1. s \in Seq(Int) /\ t \in Seq(Int) /\ e \in Seq(Int)
  OBVIOUS
<1>2. Len(s) = 1 /\ Len(t) = 3 /\ Len(e) = 4
  OBVIOUS
<1>3. /\ s[1] = x /\ t[1] = y /\ t[2] = z /\ t[3] = w
      /\ e[1] = x /\ e[2] = y /\ e[3] = z /\ e[4] = w
  OBVIOUS
<1> HIDE DEF s, t, e
<1>4. /\ u \in Seq(Int)
      /\ Len(u) = Len(s) + Len(t)
      /\ \A i \in 1 .. Len(s) + Len(t) :
            u[i] = IF i <= Len(s) THEN s[i] ELSE t[i - Len(s)]
  BY <1>1, ConcatIs
<1> HIDE DEF u
<1>5. Len(u) = 4
  BY <1>2, <1>4
<1>6. \A i \in 1 .. 4 : u[i] = IF i <= 1 THEN s[i] ELSE t[i - 1]
  BY <1>2, <1>4
<1>7. u[1] = x /\ u[2] = y /\ u[3] = z /\ u[4] = w
  BY <1>3, <1>6
<1>8. Len(u) = Len(e) /\ \A i \in 1 .. Len(u) : u[i] = e[i]
  <2>1. \A i \in 1 .. 4 : i = 1 \/ i = 2 \/ i = 3 \/ i = 4
    OBVIOUS
  <2>2. QED
    BY <1>2, <1>3, <1>5, <1>7, <2>1
<1>9. u = e
  BY <1>1, <1>4, <1>8, SameSeq
<1>10. QED
  BY <1>9 DEF u, e, s, t

\* The same for the turns of a full group.
LEMMA OneOneTwo ==
  ASSUME NEW x \in Int, NEW y \in Int, NEW z \in Int, NEW w \in Int
  PROVE (<<x>> \o <<y>>) \o <<z, w>> = <<x, y, z, w>>
<1> DEFINE s == <<x>>
           r == <<y>>
           t == <<z, w>>
           e == <<x, y, z, w>>
           u == (s \o r) \o t
<1>1. s \in Seq(Int) /\ r \in Seq(Int) /\ t \in Seq(Int) /\ e \in Seq(Int)
  OBVIOUS
<1>2. Len(s) = 1 /\ Len(r) = 1 /\ Len(t) = 2 /\ Len(e) = 4
  OBVIOUS
<1>3. /\ s[1] = x /\ r[1] = y /\ t[1] = z /\ t[2] = w
      /\ e[1] = x /\ e[2] = y /\ e[3] = z /\ e[4] = w
  OBVIOUS
<1> HIDE DEF s, r, t, e
<1> DEFINE v == s \o r
<1>4. /\ v \in Seq(Int)
      /\ Len(v) = Len(s) + Len(r)
      /\ \A i \in 1 .. Len(s) + Len(r) :
            v[i] = IF i <= Len(s) THEN s[i] ELSE r[i - Len(s)]
  BY <1>1, ConcatIs
<1>5. u = v \o t
  OBVIOUS
<1> HIDE DEF v, u
<1>6. /\ u \in Seq(Int)
      /\ Len(u) = Len(v) + Len(t)
      /\ \A i \in 1 .. Len(v) + Len(t) :
            u[i] = IF i <= Len(v) THEN v[i] ELSE t[i - Len(v)]
  <2>1. v \in Seq(Int) /\ t \in Seq(Int)
    BY <1>1, <1>4
  <2>2. QED
    BY <1>5, <2>1, ConcatIs
<1>7. Len(v) = 2 /\ v[1] = x /\ v[2] = y
  <2>1. Len(v) = 2
    BY <1>2, <1>4
  <2>2. \A i \in 1 .. 2 : v[i] = IF i <= 1 THEN s[i] ELSE r[i - 1]
    BY <1>2, <1>4
  <2>3. QED
    BY <1>3, <2>1, <2>2
<1>8. Len(u) = 4
  BY <1>2, <1>6, <1>7
<1>9. \A i \in 1 .. 4 : u[i] = IF i <= 2 THEN v[i] ELSE t[i - 2]
  BY <1>2, <1>6, <1>7
<1>10. u[1] = x /\ u[2] = y /\ u[3] = z /\ u[4] = w
  BY <1>3, <1>7, <1>9
<1>11. Len(u) = Len(e) /\ \A i \in 1 .. Len(u) : u[i] = e[i]
  <2>1. \A i \in 1 .. 4 : i = 1 \/ i = 2 \/ i = 3 \/ i = 4
    OBVIOUS
  <2>2. QED
    BY <1>2, <1>3, <1>8, <1>10, <2>1
<1>12. u = e
  BY <1>1, <1>6, <1>11, SameSeq
<1>13. QED
  BY <1>12 DEF u, e, s, r, t

\* The parts of three bytes that become digits.
IsSplit(a, b, c, p, q, r, s, u, v) ==
  /\ p \in Int /\ 0 <= p /\ p <= 63
  /\ q \in Int /\ 0 <= q /\ q <= 3
  /\ r \in Int /\ 0 <= r /\ r <= 15
  /\ s \in Int /\ 0 <= s /\ s <= 15
  /\ u \in Int /\ 0 <= u /\ u <= 3
  /\ v \in Int /\ 0 <= v /\ v <= 63
  /\ a = 4 * p + q /\ b = 16 * r + s /\ c = 64 * u + v

\* Every three bytes have such parts.
LEMMA SplitExists ==
  ASSUME NEW a \in Byte, NEW b \in Byte, NEW c \in Byte
  PROVE  IsSplit(a, b, c, a \div 4, a % 4, b \div 16, b % 16, c \div 64, c % 64)
<1>1. /\ a \in Int /\ 0 <= a /\ a <= 255
      /\ b \in Int /\ 0 <= b /\ b <= 255
      /\ c \in Int /\ 0 <= c /\ c <= 255
  BY DEF Byte
<1>2. a = 4 * (a \div 4) + (a % 4) /\ a % 4 \in 0 .. 3 /\ a \div 4 \in Int
  BY <1>1
<1>3. b = 16 * (b \div 16) + (b % 16) /\ b % 16 \in 0 .. 15 /\ b \div 16 \in Int
  BY <1>1
<1>4. c = 64 * (c \div 64) + (c % 64) /\ c % 64 \in 0 .. 63 /\ c \div 64 \in Int
  BY <1>1
<1>5. /\ 0 <= a \div 4 /\ a \div 4 <= 63
      /\ 0 <= b \div 16 /\ b \div 16 <= 15
      /\ 0 <= c \div 64 /\ c \div 64 <= 3
  BY <1>1, <1>2, <1>3, <1>4
<1>6. \A m : \A x \in 0 .. m : x \in Int /\ 0 <= x /\ x <= m
  OBVIOUS
<1>7. QED
  BY <1>2, <1>3, <1>4, <1>5 DEF IsSplit

\* The standard's digits, from the number of 24 bits.
LEMMA SixBits ==
  ASSUME NEW a, NEW b, NEW c, NEW p, NEW q, NEW r, NEW s, NEW u, NEW v,
         IsSplit(a, b, c, p, q, r, s, u, v)
  PROVE  /\ (Number24(a, b, c) \div 4096) \div 64 = p
         /\ (Number24(a, b, c) \div 4096) % 64 = q * 16 + r
         /\ (Number24(a, b, c) \div 64) % 64 = s * 4 + u
         /\ Number24(a, b, c) % 64 = v
<1> DEFINE n == Number24(a, b, c)
<1>1. /\ a \in Int /\ 0 <= a /\ a <= 255
      /\ b \in Int /\ 0 <= b /\ b <= 255
      /\ c \in Int /\ 0 <= c /\ c <= 255
  BY DEF IsSplit
<1>2. /\ p \in Int /\ q \in 0 .. 3 /\ a = 4 * p + q /\ 0 <= p /\ p <= 63
      /\ r \in Int /\ s \in 0 .. 15 /\ b = 16 * r + s /\ 0 <= r /\ r <= 15
      /\ u \in Int /\ v \in 0 .. 63 /\ c = 64 * u + v /\ 0 <= u /\ u <= 3
  BY DEF IsSplit
<1>3. n = a * 65536 + b * 256 + c
  BY DEF Number24
<1> HIDE DEF n
<1>4. n = 4096 * (64 * p + 16 * q + r) + (256 * s + c)
  BY <1>1, <1>2, <1>3
<1>5. n \div 4096 = 64 * p + 16 * q + r
  BY <1>1, <1>2, <1>4
<1>6. (64 * p + 16 * q + r) \div 64 = p
  BY <1>2
<1>7. (64 * p + 16 * q + r) % 64 = q * 16 + r
  BY <1>2
<1>8. n \div 64 = 64 * (16 * a + r) + (4 * s + u)
  BY <1>1, <1>2, <1>3
<1>9. (64 * (16 * a + r) + (4 * s + u)) % 64 = s * 4 + u
  BY <1>1, <1>2
<1>10. n % 64 = v
  BY <1>1, <1>2, <1>3
<1>11. /\ (n \div 4096) \div 64 = p
       /\ (n \div 4096) % 64 = q * 16 + r
       /\ (n \div 64) % 64 = s * 4 + u
       /\ n % 64 = v
  BY <1>6, <1>5, <1>7, <1>8, <1>9, <1>10
<1>12. QED
  BY <1>11 DEF n

\* The bytes that decode() makes of these digits.
LEMMA EightBits ==
  ASSUME NEW a, NEW b, NEW c, NEW p, NEW q, NEW r, NEW s, NEW u, NEW v,
         IsSplit(a, b, c, p, q, r, s, u, v)
  PROVE  /\ (p * 4 + (q * 16 + r) \div 16) % 256 = a
         /\ ((q * 16 + r) * 16 + (s * 4 + u) \div 4) % 256 = b
         /\ ((s * 4 + u) * 64 + v) % 256 = c
<1>1. (q * 16 + r) \div 16 = q
  BY DEF IsSplit
<1>2. (s * 4 + u) \div 4 = s
  BY DEF IsSplit
<1>3. (p * 4 + q) % 256 = a
  BY DEF IsSplit
<1>4. ((q * 16 + r) * 16 + s) % 256 = b
  BY DEF IsSplit
<1>5. ((s * 4 + u) * 64 + v) % 256 = c
  BY DEF IsSplit
<1>6. QED
  BY <1>1, <1>2, <1>3, <1>4, <1>5

\* The bytes of group g of d, where missing ones count 0.
LEMMA GroupBytes ==
  ASSUME NEW d \in Seq(Byte), NEW g \in 1 .. (Len(d) + 2) \div 3
  PROVE  /\ 3 * g - 2 \in 1 .. Len(d)
         /\ ByteAt(d, 3 * g - 2) = d[3 * g - 2]
         /\ ByteAt(d, 3 * g - 2) \in Byte
         /\ ByteAt(d, 3 * g - 1) \in Byte
         /\ ByteAt(d, 3 * g) \in Byte
<1>1. Len(d) \in Nat /\ \A i \in 1 .. Len(d) : d[i] \in Byte
  OBVIOUS
<1>2. 3 * g - 2 \in 1 .. Len(d) /\ 3 * g - 1 \in Nat /\ 3 * g \in Nat
  BY <1>1
<1>3. 3 * g - 1 <= Len(d) => 3 * g - 1 \in 1 .. Len(d)
  BY <1>1
<1>4. 3 * g <= Len(d) => 3 * g \in 1 .. Len(d)
  BY <1>1
<1>5. 0 \in Byte
  BY DEF Byte
<1> HIDE DEF Byte
<1>6. QED
  BY <1>1, <1>2, <1>3, <1>4, <1>5 DEF ByteAt

\* Its digits, each from the bytes it has bits of.
LEMMA DigitsAre ==
  ASSUME NEW d \in Seq(Byte), NEW g \in 1 .. (Len(d) + 2) \div 3
  PROVE  LET a == ByteAt(d, 3 * g - 2)
             b == ByteAt(d, 3 * g - 1)
             c == ByteAt(d, 3 * g)
         IN  Digits(d, g) = <<a \div 4, (a % 4) * 16 + b \div 16,
                              IF 3 * g - 1 <= Len(d) THEN (b % 16) * 4 + c \div 64 ELSE Pad,
                              IF 3 * g <= Len(d) THEN c % 64 ELSE Pad>>
<1> DEFINE a == ByteAt(d, 3 * g - 2)
           b == ByteAt(d, 3 * g - 1)
           c == ByteAt(d, 3 * g)
           n == Number24(a, b, c)
<1>1. IsSplit(a, b, c, a \div 4, a % 4, b \div 16, b % 16, c \div 64, c % 64)
  BY GroupBytes, SplitExists, Zenon
<1>2. /\ (n \div 4096) \div 64 = a \div 4
      /\ (n \div 4096) % 64 = (a % 4) * 16 + b \div 16
      /\ (n \div 64) % 64 = (b % 16) * 4 + c \div 64
      /\ n % 64 = c % 64
  BY <1>1, SixBits
<1>3. Digits(d, g) = <<(n \div 4096) \div 64, (n \div 4096) % 64,
                       IF 3 * g - 1 <= Len(d) THEN (n \div 64) % 64 ELSE Pad,
                       IF 3 * g <= Len(d) THEN n % 64 ELSE Pad>>
  BY Zenon DEF Digits
<1>4. QED
  BY <1>2, <1>3

\* What a turn of encode() appends, by the place of the byte in its group.
LEMMA PieceIs ==
  ASSUME NEW d, NEW i
  PROVE  /\ i % 3 = 1 => Piece(d, i) = IF i = Len(d)
                                       THEN <<d[i] \div 4, (d[i] % 4) * 16, Pad, Pad>>
                                       ELSE <<d[i] \div 4>>
         /\ i % 3 = 2 => Piece(d, i) = IF i = Len(d)
                                       THEN <<(d[i - 1] % 4) * 16 + d[i] \div 16,
                                              (d[i] % 16) * 4, Pad>>
                                       ELSE <<(d[i - 1] % 4) * 16 + d[i] \div 16>>
         /\ i % 3 = 0 =>
              Piece(d, i) = <<(d[i - 1] % 16) * 4 + d[i] \div 64, d[i] % 64>>
<1>1. 1 # 2 /\ 0 # 1 /\ 0 # 2
  OBVIOUS
<1>2. i % 3 = 1 => i % 3 # 2 /\ i % 3 # 0
  BY <1>1
<1>3. i % 3 = 2 => i % 3 # 1 /\ i % 3 # 0
  BY <1>1
<1>4. i % 3 = 0 => i % 3 # 1 /\ i % 3 # 2
  BY <1>1
<1>5. QED
  BY <1>2, <1>3, <1>4, Zenon DEF Piece

\* What the turns of encode() for the bytes of one group append.
LEMMA GroupPieces ==
  ASSUME NEW d \in Seq(Byte), NEW g \in 1 .. (Len(d) + 2) \div 3
  PROVE  /\ 3 * g - 2 = Len(d) => Digits(d, g) = Piece(d, 3 * g - 2)
         /\ 3 * g - 1 = Len(d) =>
              Digits(d, g) = Piece(d, 3 * g - 2) \o Piece(d, 3 * g - 1)
         /\ 3 * g <= Len(d) =>
              Digits(d, g) = (Piece(d, 3 * g - 2) \o Piece(d, 3 * g - 1)) \o Piece(d, 3 * g)
<1> DEFINE a == ByteAt(d, 3 * g - 2)
           b == ByteAt(d, 3 * g - 1)
           c == ByteAt(d, 3 * g)
           w == a \div 4
           x == (a % 4) * 16 + b \div 16
           y == (b % 16) * 4 + c \div 64
           z == c % 64
           i == 3 * g - 2
           j == 3 * g - 1
           k == 3 * g
<1>1. /\ 3 * g - 2 \in 1 .. Len(d) /\ a = d[i]
      /\ a \in Byte /\ b \in Byte /\ c \in Byte /\ Len(d) \in Nat /\ g \in Int
  BY GroupBytes
<1>2. /\ j <= Len(d) => b = d[j]
      /\ k <= Len(d) => c = d[k]
      /\ ~(j <= Len(d)) => b = 0
      /\ ~(k <= Len(d)) => c = 0
  BY DEF ByteAt
<1>3. Digits(d, g) = <<w, x, IF j <= Len(d) THEN y ELSE Pad,
                       IF k <= Len(d) THEN z ELSE Pad>>
  BY DigitsAre, Zenon
<1>4. i % 3 = 1 /\ j % 3 = 2 /\ k % 3 = 0 /\ j - 1 = i /\ k - 1 = j
  BY <1>1
<1>5. IsSplit(a, b, c, a \div 4, a % 4, b \div 16, b % 16, c \div 64, c % 64)
  BY <1>1, SplitExists, Zenon
<1> HIDE DEF a, b, c
<1>6. /\ w \in Int /\ x \in Int /\ y \in Int /\ z \in Int /\ Pad \in Int
      /\ b \div 16 \in Int /\ (a % 4) * 16 \in Int /\ (b % 16) * 4 \in Int
      /\ 0 \div 16 = 0 /\ 0 \div 64 = 0
  <2>1. /\ a \div 4 \in Int /\ a % 4 \in Int /\ b \div 16 \in Int
        /\ b % 16 \in Int /\ c \div 64 \in Int /\ c % 64 \in Int
    BY <1>5, Zenon DEF IsSplit
  <2>2. 0 \div 16 = 0 /\ 0 \div 64 = 0 /\ Pad \in Int
    BY DEF Pad
  <2>3. \A m \in Int : \A n \in Int :
          m * 16 \in Int /\ m * 4 \in Int /\ m * 16 + n \in Int /\ m * 4 + n \in Int
    OBVIOUS
  <2>4. QED
    BY <2>1, <2>2, <2>3, Zenon
<1>7. b = 0 => x = (a % 4) * 16
  BY <1>6
<1>8. c = 0 => y = (b % 16) * 4
  BY <1>6
<1>9. /\ (i = Len(d) => ~(j <= Len(d)) /\ ~(k <= Len(d)))
      /\ (j = Len(d) => j <= Len(d) /\ ~(k <= Len(d)) /\ i # Len(d))
      /\ (k <= Len(d) => j <= Len(d) /\ i # Len(d) /\ j # Len(d))
  BY <1>1
<1>10. Piece(d, i) = IF i = Len(d) THEN <<w, (a % 4) * 16, Pad, Pad>> ELSE <<w>>
  <2>1. Piece(d, i) = IF i = Len(d) THEN <<d[i] \div 4, (d[i] % 4) * 16, Pad, Pad>>
                      ELSE <<d[i] \div 4>>
    BY <1>4, PieceIs, Zenon
  <2>2. QED
    BY <1>1, <2>1, Zenon
<1>11. j <= Len(d) =>
         Piece(d, j) = IF j = Len(d) THEN <<x, (b % 16) * 4, Pad>> ELSE <<x>>
  <2>1. Piece(d, j) = IF j = Len(d)
                      THEN <<(d[j - 1] % 4) * 16 + d[j] \div 16, (d[j] % 16) * 4, Pad>>
                      ELSE <<(d[j - 1] % 4) * 16 + d[j] \div 16>>
    BY <1>4, PieceIs, Zenon
  <2>2. d[j - 1] = a
    BY <1>1, <1>4
  <2>3. QED
    BY <1>2, <2>1, <2>2, Zenon
<1>12. k <= Len(d) => Piece(d, k) = <<y, z>>
  <2>1. Piece(d, k) = <<(d[k - 1] % 16) * 4 + d[k] \div 64, d[k] % 64>>
    BY <1>4, PieceIs, Zenon
  <2>2. k <= Len(d) => d[k - 1] = b
    BY <1>2, <1>4, <1>9
  <2>3. QED
    BY <1>2, <2>1, <2>2, Zenon
<1> HIDE DEF w, x, y, z, i, j, k
<1>13. ASSUME i = Len(d) PROVE Digits(d, g) = Piece(d, i)
  BY <1>2, <1>3, <1>7, <1>9, <1>10, <1>13, Zenon
<1>14. ASSUME j = Len(d) PROVE Digits(d, g) = Piece(d, i) \o Piece(d, j)
  <2>1. Digits(d, g) = <<w, x, y, Pad>>
    BY <1>3, <1>9, <1>14, Zenon
  <2>2. Piece(d, i) = <<w>>
    BY <1>9, <1>10, <1>14, Zenon
  <2>3. Piece(d, j) = <<x, y, Pad>>
    BY <1>2, <1>8, <1>9, <1>11, <1>14, Zenon
  <2>4. <<w>> \o <<x, y, Pad>> = <<w, x, y, Pad>>
    BY <1>6, OneAndThree
  <2>5. QED
    BY <2>1, <2>2, <2>3, <2>4, Zenon
<1>15. ASSUME k <= Len(d)
       PROVE  Digits(d, g) = (Piece(d, i) \o Piece(d, j)) \o Piece(d, k)
  <2>1. Digits(d, g) = <<w, x, y, z>>
    BY <1>3, <1>9, <1>15, Zenon
  <2>2. Piece(d, i) = <<w>>
    BY <1>9, <1>10, <1>15, Zenon
  <2>3. Piece(d, j) = <<x>>
    BY <1>9, <1>11, <1>15, Zenon
  <2>4. Piece(d, k) = <<y, z>>
    BY <1>12, <1>15, Zenon
  <2>5. (<<w>> \o <<x>>) \o <<y, z>> = <<w, x, y, z>>
    BY <1>6, OneOneTwo
  <2>6. QED
    BY <2>1, <2>2, <2>3, <2>4, <2>5, Zenon
<1>16. QED
  BY <1>13, <1>14, <1>15, Zenon DEF i, j, k

\* A turn appends characters.
LEMMA PieceType ==
  ASSUME NEW d \in Seq(Byte), NEW i \in 1 .. Len(d)
  PROVE  Piece(d, i) \in Seq(Int)
<1>1. d[i] \in Int /\ (i - 1 \in 1 .. Len(d) => d[i - 1] \in Int)
  <2>1. \A j \in 1 .. Len(d) : d[j] \in Byte
    OBVIOUS
  <2>2. \A b \in Byte : b \in Int
    BY DEF Byte
  <2>3. QED
    BY <2>1, <2>2, Zenon
<1>2. i % 3 = 1 \/ i % 3 = 2 \/ i % 3 = 0
  OBVIOUS
<1>3. i % 3 # 1 => i - 1 \in 1 .. Len(d)
  OBVIOUS
<1>4. CASE i % 3 = 1
  <2>1. d[i] \div 4 \in Int /\ (d[i] % 4) * 16 \in Int /\ Pad \in Int
    BY <1>1 DEF Pad
  <2>2. \A x, y, z \in Int : <<x>> \in Seq(Int) /\ <<x, y, z, z>> \in Seq(Int)
    OBVIOUS
  <2>3. Piece(d, i) = IF i = Len(d) THEN <<d[i] \div 4, (d[i] % 4) * 16, Pad, Pad>>
                      ELSE <<d[i] \div 4>>
    BY <1>4, PieceIs, Zenon
  <2>4. QED
    BY <2>1, <2>2, <2>3, Zenon
<1>5. CASE i % 3 = 2
  <2>1. /\ (d[i - 1] % 4) * 16 + d[i] \div 16 \in Int
        /\ (d[i] % 16) * 4 \in Int /\ Pad \in Int
    BY <1>1, <1>3, <1>5 DEF Pad
  <2>2. \A x, y, z \in Int : <<x>> \in Seq(Int) /\ <<x, y, z>> \in Seq(Int)
    OBVIOUS
  <2>3. Piece(d, i) = IF i = Len(d)
                      THEN <<(d[i - 1] % 4) * 16 + d[i] \div 16, (d[i] % 16) * 4, Pad>>
                      ELSE <<(d[i - 1] % 4) * 16 + d[i] \div 16>>
    BY <1>5, PieceIs, Zenon
  <2>4. QED
    BY <2>1, <2>2, <2>3, Zenon
<1>6. CASE i % 3 = 0
  <2>1. (d[i - 1] % 16) * 4 + d[i] \div 64 \in Int /\ d[i] % 64 \in Int
    BY <1>1, <1>3, <1>6
  <2>2. \A x, y \in Int : <<x, y>> \in Seq(Int)
    OBVIOUS
  <2>3. Piece(d, i) = <<(d[i - 1] % 16) * 4 + d[i] \div 64, d[i] % 64>>
    BY <1>6, PieceIs, Zenon
  <2>4. QED
    BY <2>1, <2>2, <2>3, Zenon
<1>7. QED
  BY <1>2, <1>4, <1>5, <1>6

\* encode() writes the standard text: after the last byte of each group it has
\* written the digits of the groups so far.
LEMMA EncodeIsStandard ==
  ASSUME NEW d \in Seq(Byte)
  PROVE  encode(d) = Standard(d)
<1> DEFINE n == Len(d)
           G == (n + 2) \div 3
           s == [i \in 1 .. n |-> Piece(d, i)]
           t == [g \in 1 .. G |-> Digits(d, g)]
           EndOf(g) == IF 3 * g <= n THEN 3 * g ELSE n
<1>1. n \in Nat /\ G \in Nat /\ (n = 0 <=> G = 0)
  OBVIOUS
<1>2. Len(s) = n /\ Len(t) = G /\ \A i \in 1 .. n : s[i] = Piece(d, i)
  BY <1>1
<1>3. encode(d) = FlattenSeq(s) /\ Standard(d) = FlattenSeq(t)
  BY DEF encode, Standard
<1>4. CASE n = 0
  <2>1. 1 .. n = {} /\ 1 .. G = {}
    BY <1>1, <1>4
  <2>2. s = t
    BY <2>1
  <2>3. QED
    BY <1>3, <2>2
<1>5. CASE n # 0
  <2>1. s \in [1 .. n -> Seq(Int)]
    BY PieceType
  <2>2. s \in Seq(Seq(Int))
    BY <1>1, <2>1
  <2>3. PICK f \in [1 .. n -> Seq(Int)] : Joins(s, f)
    BY <1>2, <2>2, JoinedExists
  <2>4. \A i \in 1 .. n : f[i] \in Seq(Int) /\ Piece(d, i) \in Seq(Int)
    BY PieceType
  <2>5. \A a \in Seq(Int) : \A b \in Seq(Int) : \A c \in Seq(Int) :
           (a \o b) \o c = a \o (b \o c)
    BY AssociativeInt
  <2> HIDE DEF s
  <2>6. \A i \in 1 .. n :
           f[i] = IF i = 1 THEN Piece(d, i) ELSE f[i - 1] \o Piece(d, i)
    BY <1>2, <2>3 DEF Joins
  <2> DEFINE h == [g \in 1 .. G |-> f[EndOf(g)]]
  <2>7. Joins(t, h)
    <3> SUFFICES ASSUME NEW g \in 1 .. G
                 PROVE  h[g] = IF g = 1 THEN Digits(d, g) ELSE h[g - 1] \o Digits(d, g)
      BY <1>2 DEF Joins
    <3> DEFINE i == 3 * g - 2
               j == 3 * g - 1
               k == 3 * g
               p == Piece(d, i)
               q == Piece(d, j)
               r == Piece(d, k)
               F == f[i - 1]
    <3>1. /\ i \in 1 .. n /\ j - 1 = i /\ k - 1 = j /\ j # 1 /\ k # 1
          /\ (g = 1 <=> i = 1)
          /\ (i = n \/ j = n \/ k <= n)
          /\ (i = n => EndOf(g) = i)
          /\ (j = n => EndOf(g) = j /\ j \in 1 .. n)
          /\ (k <= n => EndOf(g) = k /\ j \in 1 .. n /\ k \in 1 .. n)
      <4>1. g \in Int /\ n \in Int /\ 1 <= g /\ 3 * g - 2 <= n
        BY <1>1
      <4> HIDE DEF n
      <4>2. i \in 1 .. n /\ j - 1 = i /\ k - 1 = j /\ j # 1 /\ k # 1
        BY <4>1
      <4>3. (g = 1 <=> i = 1) /\ (i = n \/ j = n \/ k <= n)
        BY <4>1
      <4>4. i = n => EndOf(g) = i
        BY <4>1
      <4>5. j = n => EndOf(g) = j /\ j \in 1 .. n
        BY <4>1
      <4>6. k <= n => EndOf(g) = k /\ j \in 1 .. n /\ k \in 1 .. n
        BY <4>1
      <4>7. QED
        BY <4>2, <4>3, <4>4, <4>5, <4>6
    <3>2. g # 1 => g - 1 \in 1 .. G /\ EndOf(g - 1) = i - 1 /\ i - 1 \in 1 .. n
      BY <1>1
    <3>3. h[g] = f[EndOf(g)] /\ (g # 1 => h[g - 1] = F)
      BY <3>2
    <3>4. /\ i = n => Digits(d, g) = p
          /\ j = n => Digits(d, g) = p \o q
          /\ k <= n => Digits(d, g) = (p \o q) \o r
      BY GroupPieces, Zenon
    <3>5. f[i] = IF g = 1 THEN p ELSE F \o p
      BY <2>6, <3>1
    <3>6. j \in 1 .. n => f[j] = f[i] \o q
      BY <2>6, <3>1
    <3>7. k \in 1 .. n => f[k] = f[j] \o r
      BY <2>6, <3>1
    <3>8. g # 1 => F \in Seq(Int)
      BY <2>4, <3>2
    <3>9. /\ p \in Seq(Int) /\ (j \in 1 .. n => q \in Seq(Int))
          /\ (k \in 1 .. n => r \in Seq(Int))
      BY <2>4, <3>1
    <3> HIDE DEF i, j, k, p, q, r, F, h, n, EndOf
    <3>10. CASE i = n
      BY <3>1, <3>3, <3>4, <3>5, <3>10, Zenon
    <3>11. CASE j = n
      <4>1. h[g] = f[i] \o q /\ Digits(d, g) = p \o q
        BY <3>1, <3>3, <3>4, <3>6, <3>11, Zenon
      <4>2. CASE g = 1
        BY <3>5, <4>1, <4>2, Zenon
      <4>3. CASE g # 1
        <5>1. (F \o p) \o q = F \o (p \o q)
          BY <2>5, <3>1, <3>8, <3>9, <3>11, <4>3
        <5>2. QED
          BY <3>3, <3>5, <4>1, <4>3, <5>1, Zenon
      <4>4. QED
        BY <4>2, <4>3
    <3>12. CASE k <= n
      <4>1. h[g] = (f[i] \o q) \o r /\ Digits(d, g) = (p \o q) \o r
        BY <3>1, <3>3, <3>4, <3>6, <3>7, <3>12, Zenon
      <4>2. CASE g = 1
        BY <3>5, <4>1, <4>2, Zenon
      <4>3. CASE g # 1
        <5>1. F \in Seq(Int) /\ p \in Seq(Int) /\ q \in Seq(Int) /\ r \in Seq(Int)
          BY <3>1, <3>8, <3>9, <3>12, <4>3
        <5>2. ((F \o p) \o q) \o r = F \o ((p \o q) \o r)
          <6>1. (F \o p) \o q = F \o (p \o q)
            BY <2>5, <5>1
          <6>2. p \o q \in Seq(Int)
            BY <5>1, ConcatIs
          <6>3. (F \o (p \o q)) \o r = F \o ((p \o q) \o r)
            BY <2>5, <5>1, <6>2
          <6>4. QED
            BY <6>1, <6>3
        <5>3. QED
          BY <3>3, <3>5, <4>1, <4>3, <5>2, Zenon
      <4>4. QED
        BY <4>2, <4>3
    <3>13. QED
      BY <3>1, <3>10, <3>11, <3>12
  <2>8. FlattenSeq(s) = f[n]
    BY <1>1, <1>2, <1>5, <2>3, JoinedIs
  <2>9. FlattenSeq(t) = h[G]
    <3> HIDE DEF t, h, G
    <3>1. QED
      BY <1>1, <1>2, <1>5, <2>7, JoinedIs
  <2>10. G \in 1 .. G /\ EndOf(G) = n
    BY <1>1, <1>5
  <2>11. h[G] = f[n]
    BY <2>10
  <2>12. QED
    BY <1>3, <2>8, <2>9, <2>11
<1>6. QED
  BY <1>4, <1>5

\* A part that follows another one.
LEMMA SubSeqJoin ==
  ASSUME NEW S, NEW x \in Seq(S), NEW k \in Nat, NEW m \in Nat,
         k <= m, m <= Len(x)
  PROVE  SubSeq(x, 1, m) = SubSeq(x, 1, k) \o SubSeq(x, k + 1, m)
<1> DEFINE a == SubSeq(x, 1, m)
           b == SubSeq(x, 1, k)
           c == SubSeq(x, k + 1, m)
<1>1. /\ a \in Seq(S) /\ Len(a) = m
      /\ b \in Seq(S) /\ Len(b) = k
      /\ c \in Seq(S) /\ Len(c) = m - k
  OBVIOUS
<1>2. /\ \A i \in 1 .. m : a[i] = x[i]
      /\ \A i \in 1 .. k : b[i] = x[i]
      /\ \A i \in 1 .. m - k : c[i] = x[k + i]
  OBVIOUS
<1> HIDE DEF a, b, c
<1>3. /\ b \o c \in Seq(S)
      /\ Len(b \o c) = Len(b) + Len(c)
      /\ \A i \in 1 .. Len(b) + Len(c) :
            (b \o c)[i] = IF i <= Len(b) THEN b[i] ELSE c[i - Len(b)]
  <2>1. b \in Seq(S) /\ c \in Seq(S)
    BY <1>1
  <2>2. QED
    BY <2>1, ConcatIs
<1> DEFINE u == b \o c
<1> HIDE DEF u
<1>4. /\ u \in Seq(S) /\ Len(u) = m
      /\ \A i \in 1 .. m : u[i] = IF i <= k THEN b[i] ELSE c[i - k]
  <2>1. /\ u \in Seq(S)
        /\ Len(u) = Len(b) + Len(c)
        /\ \A i \in 1 .. Len(b) + Len(c) :
              u[i] = IF i <= Len(b) THEN b[i] ELSE c[i - Len(b)]
    BY <1>3 DEF u
  <2>2. Len(b) + Len(c) = m
    BY <1>1
  <2>3. QED
    BY <1>1, <2>1, <2>2
<1>5. \A i \in 1 .. m : u[i] = a[i]
  <2> SUFFICES ASSUME NEW i \in 1 .. m PROVE u[i] = a[i]
    OBVIOUS
  <2>1. CASE i <= k
    BY <1>2, <1>4, <2>1
  <2>2. CASE i > k
    <3>1. i - k \in 1 .. m - k /\ k + (i - k) = i /\ ~(i <= k)
      BY <2>2
    <3>2. QED
      BY <1>2, <1>4, <3>1
  <2>3. QED
    BY <2>1, <2>2
<1>6. u = a
  BY <1>1, <1>4, <1>5, SameSeq
<1>7. QED
  BY <1>6 DEF u, a, b, c

\* Joining the parts of a sequence that end at e[1], e[2], ... gives it back.
LEMMA PartsJoin ==
  ASSUME NEW S, NEW x \in Seq(S), NEW n \in Nat, n # 0,
         NEW e \in [0 .. n -> Nat], e[0] = 0,
         \A g \in 1 .. n : e[g - 1] <= e[g] /\ e[g] <= Len(x)
  PROVE  FlattenSeq([g \in 1 .. n |-> SubSeq(x, e[g - 1] + 1, e[g])])
           = SubSeq(x, 1, e[n])
<1> DEFINE s == [g \in 1 .. n |-> SubSeq(x, e[g - 1] + 1, e[g])]
           h == [g \in 1 .. n |-> SubSeq(x, 1, e[g])]
<1>1. Len(s) = n
  OBVIOUS
<1>2. \A g \in 1 .. n : h[g] = IF g = 1 THEN s[g] ELSE h[g - 1] \o s[g]
  <2> SUFFICES ASSUME NEW g \in 1 .. n
               PROVE  h[g] = IF g = 1 THEN s[g] ELSE h[g - 1] \o s[g]
    OBVIOUS
  <2>1. CASE g = 1
    <3>1. e[g - 1] + 1 = 1
      BY <2>1
    <3>2. QED
      BY <2>1, <3>1
  <2>2. CASE g # 1
    <3>1. g - 1 \in 1 .. n /\ g - 1 \in 0 .. n /\ g \in 0 .. n
      BY <2>2
    <3>2. e[g - 1] \in Nat /\ e[g] \in Nat /\ e[g - 1] <= e[g] /\ e[g] <= Len(x)
      BY <3>1
    <3>3. SubSeq(x, 1, e[g]) = SubSeq(x, 1, e[g - 1]) \o SubSeq(x, e[g - 1] + 1, e[g])
      BY <3>2, SubSeqJoin
    <3>4. QED
      BY <2>2, <3>1, <3>3
  <2>3. QED
    BY <2>1, <2>2
<1> HIDE DEF s
<1>3. Joins(s, h)
  BY <1>1, <1>2 DEF Joins
<1>4. FlattenSeq(s) = h[n]
  <2> HIDE DEF h
  <2>1. QED
    BY <1>1, <1>3, JoinedIs
<1>5. h[n] = SubSeq(x, 1, e[n])
  OBVIOUS
<1>6. QED
  BY <1>4, <1>5 DEF s

\* A row of digits of four has them at four places each.
LEMMA FourEach ==
  ASSUME NEW n \in Nat, NEW s \in [1 .. n -> Seq(Int)],
         \A g \in 1 .. n : Len(s[g]) = 4
  PROVE  /\ FlattenSeq(s) \in Seq(Int)
         /\ Len(FlattenSeq(s)) = 4 * n
         /\ \A g \in 1 .. n : /\ FlattenSeq(s)[4 * g - 3] = s[g][1]
                              /\ FlattenSeq(s)[4 * g - 2] = s[g][2]
                              /\ FlattenSeq(s)[4 * g - 1] = s[g][3]
                              /\ FlattenSeq(s)[4 * g] = s[g][4]
<1> DEFINE x == [i \in 1 .. 4 * n |-> s[(i + 3) \div 4][((i + 3) % 4) + 1]]
           e == [g \in 0 .. n |-> 4 * g]
<1>1. \A i \in 1 .. 4 * n : (i + 3) \div 4 \in 1 .. n /\ ((i + 3) % 4) + 1 \in 1 .. 4
  OBVIOUS
<1>2. \A g \in 1 .. n : \A r \in 1 .. 4 : s[g][r] \in Int
  <2> SUFFICES ASSUME NEW g \in 1 .. n PROVE \A r \in 1 .. 4 : s[g][r] \in Int
    OBVIOUS
  <2>1. s[g] \in Seq(Int)
    OBVIOUS
  <2>2. \A r \in 1 .. Len(s[g]) : s[g][r] \in Int
    BY <2>1
  <2>3. QED
    BY <2>2
<1>3. x \in [1 .. 4 * n -> Int]
  BY <1>1, <1>2
<1>4. x \in Seq(Int) /\ Len(x) = 4 * n
  BY <1>3
<1>5. \A g \in 1 .. n : /\ x[4 * g - 3] = s[g][1]
                        /\ x[4 * g - 2] = s[g][2]
                        /\ x[4 * g - 1] = s[g][3]
                        /\ x[4 * g] = s[g][4]
  <2> SUFFICES ASSUME NEW g \in 1 .. n
               PROVE  /\ x[4 * g - 3] = s[g][1]
                      /\ x[4 * g - 2] = s[g][2]
                      /\ x[4 * g - 1] = s[g][3]
                      /\ x[4 * g] = s[g][4]
    OBVIOUS
  <2>1. /\ 4 * g - 3 \in 1 .. 4 * n /\ 4 * g - 2 \in 1 .. 4 * n
        /\ 4 * g - 1 \in 1 .. 4 * n /\ 4 * g \in 1 .. 4 * n
    OBVIOUS
  <2>2. /\ ((4 * g - 3) + 3) \div 4 = g /\ (((4 * g - 3) + 3) % 4) + 1 = 1
        /\ ((4 * g - 2) + 3) \div 4 = g /\ (((4 * g - 2) + 3) % 4) + 1 = 2
        /\ ((4 * g - 1) + 3) \div 4 = g /\ (((4 * g - 1) + 3) % 4) + 1 = 3
        /\ (4 * g + 3) \div 4 = g /\ ((4 * g + 3) % 4) + 1 = 4
    OBVIOUS
  <2>3. QED
    BY <2>1, <2>2
<1> HIDE DEF x
<1>6. CASE n = 0
  <2>1. s = <<>> /\ 1 .. n = {}
    BY <1>6
  <2>2. FlattenSeq(s) = <<>>
    BY <2>1 DEF FlattenSeq
  <2>3. <<>> \in Seq(Int) /\ Len(<<>>) = 0 /\ 4 * n = 0
    BY <1>6
  <2>4. QED
    BY <2>1, <2>2, <2>3
<1>7. CASE n # 0
  <2>1. e \in [0 .. n -> Nat] /\ e[0] = 0 /\ e[n] = 4 * n
    OBVIOUS
  <2>2. \A g \in 1 .. n : e[g - 1] = 4 * g - 4 /\ e[g] = 4 * g
    OBVIOUS
  <2>3. \A g \in 1 .. n : e[g - 1] <= e[g] /\ e[g] <= Len(x)
    BY <1>4, <2>2
  <2>4. \A g \in 1 .. n : SubSeq(x, e[g - 1] + 1, e[g]) = s[g]
    <3> SUFFICES ASSUME NEW g \in 1 .. n
                 PROVE  SubSeq(x, e[g - 1] + 1, e[g]) = s[g]
      OBVIOUS
    <3> DEFINE y == SubSeq(x, 4 * g - 3, 4 * g)
               z == s[g]
    <3>1. z \in Seq(Int) /\ Len(z) = 4
      OBVIOUS
    <3>2. 4 * g - 3 \in 1 .. Len(x) /\ 4 * g \in 1 .. Len(x)
      BY <1>4
    <3>3. y \in Seq(Int) /\ Len(y) = 4
      BY <1>4, <3>2
    <3>4. \A i \in 1 .. 4 : y[i] = x[(4 * g - 3) + i - 1]
      <4>1. \A a, b \in 1 .. Len(x) : \A i \in 1 .. b - a + 1 :
              SubSeq(x, a, b)[i] = x[a + i - 1]
        BY <1>4
      <4>2. 4 * g - (4 * g - 3) + 1 = 4
        OBVIOUS
      <4>3. QED
        BY <3>2, <4>1, <4>2
    <3> HIDE DEF y
    <3>5. y[1] = z[1] /\ y[2] = z[2] /\ y[3] = z[3] /\ y[4] = z[4]
      <4>1. /\ (4 * g - 3) + 1 - 1 = 4 * g - 3 /\ (4 * g - 3) + 2 - 1 = 4 * g - 2
            /\ (4 * g - 3) + 3 - 1 = 4 * g - 1 /\ (4 * g - 3) + 4 - 1 = 4 * g
        OBVIOUS
      <4>2. 1 \in 1 .. 4 /\ 2 \in 1 .. 4 /\ 3 \in 1 .. 4 /\ 4 \in 1 .. 4
        OBVIOUS
      <4>3. /\ y[1] = x[4 * g - 3] /\ y[2] = x[4 * g - 2]
            /\ y[3] = x[4 * g - 1] /\ y[4] = x[4 * g]
        BY <3>4, <4>1, <4>2
      <4>4. QED
        BY <1>5, <4>3
    <3> HIDE DEF z
    <3>6. \A i \in 1 .. Len(y) : y[i] = z[i]
      <4>1. \A i \in 1 .. 4 : i = 1 \/ i = 2 \/ i = 3 \/ i = 4
        OBVIOUS
      <4>2. QED
        BY <3>3, <3>5, <4>1
    <3>7. y = z
      BY <3>1, <3>3, <3>6, SameSeq
    <3>8. e[g - 1] + 1 = 4 * g - 3 /\ e[g] = 4 * g
      BY <2>2
    <3>9. QED
      BY <3>7, <3>8 DEF y, z
  <2> HIDE DEF e
  <2>5. s = [g \in 1 .. n |-> SubSeq(x, e[g - 1] + 1, e[g])]
    BY <2>4
  <2>6. FlattenSeq(s) = SubSeq(x, 1, e[n])
    BY <1>4, <1>7, <2>1, <2>3, <2>5, PartsJoin
  <2>7. SubSeq(x, 1, e[n]) = x
    BY <1>4, <2>1
  <2>8. QED
    BY <1>4, <1>5, <2>6, <2>7
<1>8. QED
  BY <1>6, <1>7

\* The characters of the standard text, group by group.
LEMMA StandardIs ==
  ASSUME NEW d \in Seq(Byte)
  PROVE  /\ Standard(d) \in Seq(Int)
         /\ Len(Standard(d)) = 4 * ((Len(d) + 2) \div 3)
         /\ \A g \in 1 .. (Len(d) + 2) \div 3 :
              LET a == ByteAt(d, 3 * g - 2)
                  b == ByteAt(d, 3 * g - 1)
                  c == ByteAt(d, 3 * g)
              IN  /\ Standard(d)[4 * g - 3] = a \div 4
                  /\ Standard(d)[4 * g - 2] = (a % 4) * 16 + b \div 16
                  /\ Standard(d)[4 * g - 1] =
                       IF 3 * g - 1 <= Len(d) THEN (b % 16) * 4 + c \div 64 ELSE Pad
                  /\ Standard(d)[4 * g] = IF 3 * g <= Len(d) THEN c % 64 ELSE Pad
<1> DEFINE G == (Len(d) + 2) \div 3
           A(g) == ByteAt(d, 3 * g - 2)
           B(g) == ByteAt(d, 3 * g - 1)
           C(g) == ByteAt(d, 3 * g)
           Y(g) == IF 3 * g - 1 <= Len(d) THEN (B(g) % 16) * 4 + C(g) \div 64 ELSE Pad
           Z(g) == IF 3 * g <= Len(d) THEN C(g) % 64 ELSE Pad
           s == [g \in 1 .. G |-> Digits(d, g)]
<1>1. G \in Nat
  OBVIOUS
<1>2. ASSUME NEW g \in 1 .. G
      PROVE  /\ Digits(d, g) = <<A(g) \div 4, (A(g) % 4) * 16 + B(g) \div 16, Y(g), Z(g)>>
             /\ A(g) \div 4 \in Int /\ (A(g) % 4) * 16 + B(g) \div 16 \in Int
             /\ Y(g) \in Int /\ Z(g) \in Int
  <2>1. IsSplit(A(g), B(g), C(g), A(g) \div 4, A(g) % 4, B(g) \div 16, B(g) % 16,
                C(g) \div 64, C(g) % 64)
    BY GroupBytes, SplitExists, Zenon
  <2>2. /\ A(g) \div 4 \in Int /\ A(g) % 4 \in Int /\ B(g) \div 16 \in Int
        /\ B(g) % 16 \in Int /\ C(g) \div 64 \in Int /\ C(g) % 64 \in Int
    BY <2>1, Zenon DEF IsSplit
  <2>3. \A m \in Int : \A n \in Int : m * 16 + n \in Int /\ m * 4 + n \in Int
    OBVIOUS
  <2>4. Pad \in Int
    BY DEF Pad
  <2>5. Digits(d, g) = <<A(g) \div 4, (A(g) % 4) * 16 + B(g) \div 16, Y(g), Z(g)>>
    BY DigitsAre, Zenon
  <2>6. QED
    BY <2>2, <2>3, <2>4, <2>5, Zenon
<1> HIDE DEF G, A, B, C, Y, Z
<1>3. ASSUME NEW g \in 1 .. G
      PROVE  /\ Digits(d, g) \in Seq(Int) /\ Len(Digits(d, g)) = 4
             /\ Digits(d, g)[1] = A(g) \div 4
             /\ Digits(d, g)[2] = (A(g) % 4) * 16 + B(g) \div 16
             /\ Digits(d, g)[3] = Y(g)
             /\ Digits(d, g)[4] = Z(g)
  <2> DEFINE w == A(g) \div 4
             x == (A(g) % 4) * 16 + B(g) \div 16
             y == Y(g)
             z == Z(g)
  <2>1. Digits(d, g) = <<w, x, y, z>> /\ w \in Int /\ x \in Int /\ y \in Int /\ z \in Int
    BY <1>2
  <2> HIDE DEF w, x, y, z
  <2>2. /\ <<w, x, y, z>> \in Seq(Int) /\ Len(<<w, x, y, z>>) = 4
        /\ <<w, x, y, z>>[1] = w /\ <<w, x, y, z>>[2] = x
        /\ <<w, x, y, z>>[3] = y /\ <<w, x, y, z>>[4] = z
    BY <2>1
  <2>3. /\ Digits(d, g) \in Seq(Int) /\ Len(Digits(d, g)) = 4
        /\ Digits(d, g)[1] = w /\ Digits(d, g)[2] = x
        /\ Digits(d, g)[3] = y /\ Digits(d, g)[4] = z
    BY <2>1, <2>2, Zenon
  <2>4. QED
    BY <2>3 DEF w, x, y, z
<1>4. \A g \in 1 .. G : /\ Digits(d, g) \in Seq(Int) /\ Len(Digits(d, g)) = 4
                        /\ Digits(d, g)[1] = A(g) \div 4
                        /\ Digits(d, g)[2] = (A(g) % 4) * 16 + B(g) \div 16
                        /\ Digits(d, g)[3] = Y(g)
                        /\ Digits(d, g)[4] = Z(g)
  BY <1>3, Zenon
<1>5. s \in [1 .. G -> Seq(Int)] /\ \A g \in 1 .. G : s[g] = Digits(d, g)
  BY <1>4
<1>6. Standard(d) = FlattenSeq(s)
  BY DEF Standard, G
<1> HIDE DEF s
<1>7. \A g \in 1 .. G : Len(s[g]) = 4
  BY <1>4, <1>5
<1>8. /\ Standard(d) \in Seq(Int)
      /\ Len(Standard(d)) = 4 * G
      /\ \A g \in 1 .. G : /\ Standard(d)[4 * g - 3] = s[g][1]
                           /\ Standard(d)[4 * g - 2] = s[g][2]
                           /\ Standard(d)[4 * g - 1] = s[g][3]
                           /\ Standard(d)[4 * g] = s[g][4]
  <2>1. /\ FlattenSeq(s) \in Seq(Int)
        /\ Len(FlattenSeq(s)) = 4 * G
        /\ \A g \in 1 .. G : /\ FlattenSeq(s)[4 * g - 3] = s[g][1]
                             /\ FlattenSeq(s)[4 * g - 2] = s[g][2]
                             /\ FlattenSeq(s)[4 * g - 1] = s[g][3]
                             /\ FlattenSeq(s)[4 * g] = s[g][4]
    BY <1>1, <1>5, <1>7, FourEach
  <2>2. QED
    BY <1>6, <2>1, Zenon
<1>9. \A g \in 1 .. G : /\ Standard(d)[4 * g - 3] = A(g) \div 4
                        /\ Standard(d)[4 * g - 2] = (A(g) % 4) * 16 + B(g) \div 16
                        /\ Standard(d)[4 * g - 1] = Y(g)
                        /\ Standard(d)[4 * g] = Z(g)
  BY <1>4, <1>5, <1>8, Zenon
<1>10. QED
  BY <1>8, <1>9, Zenon DEF G, A, B, C, Y, Z

\* decode() makes of a group of the standard text the bytes it came from.
LEMMA BytesBack ==
  ASSUME NEW d \in Seq(Byte), NEW g \in 1 .. (Len(d) + 2) \div 3
  PROVE  Bytes(Standard(d), g)
           = SubSeq(d, 3 * g - 2, IF 3 * g <= Len(d) THEN 3 * g ELSE Len(d))
<1> DEFINE a == ByteAt(d, 3 * g - 2)
           b == ByteAt(d, 3 * g - 1)
           c == ByteAt(d, 3 * g)
           t == Standard(d)
           k(n) == t[4 * (g - 1) + n]
           x == (b % 16) * 4 + c \div 64
           first == (k(1) * 4 + k(2) \div 16) % 256
           second == (k(2) * 16 + k(3) \div 4) % 256
           third == (k(3) * 64 + k(4)) % 256
           i == 3 * g - 2
           j == 3 * g - 1
           h == 3 * g
<1>1. /\ i \in 1 .. Len(d) /\ a = d[i] /\ Len(d) \in Nat /\ g \in Int
      /\ a \in Byte /\ b \in Byte /\ c \in Byte
  BY GroupBytes
<1>2. IsSplit(a, b, c, a \div 4, a % 4, b \div 16, b % 16, c \div 64, c % 64)
  BY <1>1, SplitExists, Zenon
<1>3. (j <= Len(d) => b = d[j]) /\ (h <= Len(d) => c = d[h])
  BY DEF ByteAt
<1>4. /\ 4 * (g - 1) + 1 = 4 * g - 3 /\ 4 * (g - 1) + 2 = 4 * g - 2
      /\ 4 * (g - 1) + 3 = 4 * g - 1 /\ 4 * (g - 1) + 4 = 4 * g
  BY <1>1
<1>5. /\ t[4 * g - 3] = a \div 4 /\ t[4 * g - 2] = (a % 4) * 16 + b \div 16
      /\ t[4 * g - 1] = (IF j <= Len(d) THEN x ELSE Pad)
      /\ t[4 * g] = (IF h <= Len(d) THEN c % 64 ELSE Pad)
  BY StandardIs, Zenon
<1> HIDE DEF t
<1>6. /\ k(1) = a \div 4 /\ k(2) = (a % 4) * 16 + b \div 16
      /\ k(3) = (IF j <= Len(d) THEN x ELSE Pad)
      /\ k(4) = (IF h <= Len(d) THEN c % 64 ELSE Pad)
  BY <1>4, <1>5
<1>7. Bytes(t, g) = IF k(3) = Pad THEN <<first>>
                    ELSE IF k(4) = Pad THEN <<first, second>>
                    ELSE <<first, second, third>>
  BY Zenon DEF Bytes
<1> HIDE DEF k
<1>8. x # Pad /\ c % 64 # Pad
  <2> HIDE DEF a, b, c
  <2>1. /\ b % 16 \in Int /\ 0 <= b % 16 /\ b % 16 <= 15
        /\ c \div 64 \in Int /\ 0 <= c \div 64 /\ c \div 64 <= 3
        /\ c % 64 \in Int /\ 0 <= c % 64 /\ c % 64 <= 63
    BY <1>2, Zenon DEF IsSplit
  <2>2. \A m \in Int : \A n \in Int : m <= 15 /\ n <= 3 => m * 4 + n # 64
    OBVIOUS
  <2>3. \A m \in Int : m <= 63 => m # 64
    OBVIOUS
  <2>4. QED
    BY <2>1, <2>2, <2>3, Zenon DEF Pad
<1>9. /\ ((a \div 4) * 4 + ((a % 4) * 16 + b \div 16) \div 16) % 256 = a
      /\ (((a % 4) * 16 + b \div 16) * 16 + x \div 4) % 256 = b
      /\ (x * 64 + (c % 64)) % 256 = c
  BY <1>2, EightBits
<1> HIDE DEF a, b, c, x, first, second, third
<1>10. first = a
  BY <1>6, <1>9 DEF first
<1>11. j <= Len(d) => second = b
  BY <1>6, <1>9 DEF second
<1>12. h <= Len(d) => third = c
  <2>1. h <= Len(d) => j <= Len(d)
    BY <1>1
  <2>2. QED
    BY <1>6, <1>9, <2>1 DEF third
<1>13. \A m \in 1 .. Len(d) : d[m] \in Byte
  OBVIOUS
<1>14. QED
  <2> DEFINE e == IF h <= Len(d) THEN h ELSE Len(d)
             y == SubSeq(d, i, e)
  <2>1. CASE ~(j <= Len(d))
    <3>1. Bytes(t, g) = <<a>>
      BY <1>6, <1>7, <1>10, <2>1, Zenon
    <3>2. e = i
      BY <1>1, <2>1
    <3>3. y \in Seq(Byte) /\ Len(y) = 1 /\ y[1] = d[i]
      BY <1>1, <3>2
    <3>4. y = <<a>>
      BY <1>1, <3>3, ShortSeq
    <3>5. QED
      BY <3>1, <3>4 DEF t
  <2>2. CASE j <= Len(d) /\ ~(h <= Len(d))
    <3>1. Bytes(t, g) = <<a, b>>
      BY <1>6, <1>7, <1>8, <1>10, <1>11, <2>2, Zenon
    <3>2. e = j /\ i + 1 = j
      BY <1>1, <2>2
    <3>3. y \in Seq(Byte) /\ Len(y) = 2 /\ y[1] = d[i] /\ y[2] = d[j]
      BY <1>1, <2>2, <3>2
    <3>4. y = <<a, b>>
      BY <1>1, <1>3, <2>2, <3>3, ShortSeq
    <3>5. QED
      BY <3>1, <3>4 DEF t
  <2>3. CASE h <= Len(d)
    <3>1. Bytes(t, g) = <<a, b, c>> /\ j <= Len(d)
      <4>1. j <= Len(d)
        BY <1>1, <2>3
      <4>2. QED
        BY <1>6, <1>7, <1>8, <1>10, <1>11, <1>12, <2>3, <4>1, Zenon
    <3>2. e = h /\ i + 1 = j /\ i + 2 = h
      BY <1>1, <2>3
    <3>3. y \in Seq(Byte) /\ Len(y) = 3 /\ y[1] = d[i] /\ y[2] = d[j] /\ y[3] = d[h]
      <4>1. /\ i \in 1 .. Len(d) /\ Len(d) \in Nat /\ h \in Int /\ i <= h
            /\ (h - i) + 1 = 3 /\ i + 1 = j /\ i + 2 = h
        BY <1>1, <3>2
      <4>2. y = SubSeq(d, i, h)
        BY <3>2
      <4> HIDE DEF i, j, h, e, y
      <4>3. y \in Seq(Byte) /\ Len(y) = (h - i) + 1
        BY <2>3, <4>1, <4>2
      <4>4. \A m \in 1 .. (h - i) + 1 : y[m] = d[(i + m) - 1]
        BY <2>3, <4>1, <4>2
      <4>5. y[1] = d[(i + 1) - 1] /\ y[2] = d[(i + 2) - 1] /\ y[3] = d[(i + 3) - 1]
        BY <4>1, <4>4
      <4>6. (i + 1) - 1 = i /\ (i + 2) - 1 = j /\ (i + 3) - 1 = h
        BY <4>1
      <4>7. QED
        BY <4>1, <4>3, <4>5, <4>6
    <3>4. y = <<a, b, c>>
      BY <1>1, <1>3, <2>3, <3>1, <3>3, ShortSeq
    <3>5. QED
      BY <3>1, <3>4 DEF t
  <2>4. QED
    BY <2>1, <2>2, <2>3

\* Only the last group can be padded, and is if it has bytes missing.
LEMMA PaddedStandard ==
  ASSUME NEW d \in Seq(Byte)
  PROVE  Padded(Standard(d)) =
           IF Len(d) % 3 = 0 THEN {} ELSE {(Len(d) + 2) \div 3}
<1> DEFINE t == Standard(d)
           n == Len(d)
           G == (n + 2) \div 3
<1>1. n \in Nat /\ G \in Nat /\ Len(t) = 4 * G /\ Len(t) \div 4 = G
  <2>1. Len(t) = 4 * G
    BY StandardIs, Zenon
  <2>2. n \in Nat /\ G \in Nat
    OBVIOUS
  <2> HIDE DEF t, G
  <2>3. Len(t) \div 4 = G
    BY <2>1, <2>2
  <2>4. QED
    BY <2>1, <2>2, <2>3
<1>2. ASSUME NEW g \in 1 .. G
      PROVE  /\ t[4 * g] = Pad <=> ~(3 * g <= n)
             /\ t[4 * g - 1] = Pad <=> ~(3 * g - 1 <= n)
  <2> DEFINE b == ByteAt(d, 3 * g - 1)
             c == ByteAt(d, 3 * g)
  <2>1. /\ t[4 * g - 1] = (IF 3 * g - 1 <= n THEN (b % 16) * 4 + c \div 64 ELSE Pad)
        /\ t[4 * g] = (IF 3 * g <= n THEN c % 64 ELSE Pad)
    BY StandardIs, Zenon
  <2>2. b \in Byte /\ c \in Byte
    BY GroupBytes
  <2> HIDE DEF b, c, t, n
  <2>3. IsSplit(b, b, c, b \div 4, b % 4, b \div 16, b % 16, c \div 64, c % 64)
    BY <2>2, SplitExists, Zenon
  <2>4. /\ b % 16 \in Int /\ 0 <= b % 16 /\ b % 16 <= 15
        /\ c \div 64 \in Int /\ 0 <= c \div 64 /\ c \div 64 <= 3
        /\ c % 64 \in Int /\ 0 <= c % 64 /\ c % 64 <= 63
    BY <2>3, Zenon DEF IsSplit
  <2>5. \A m \in Int : \A k \in Int : m <= 15 /\ k <= 3 => m * 4 + k # 64
    OBVIOUS
  <2>6. \A m \in Int : m <= 63 => m # 64
    OBVIOUS
  <2>7. (b % 16) * 4 + c \div 64 # Pad /\ c % 64 # Pad
    BY <2>4, <2>5, <2>6, Zenon DEF Pad
  <2>8. QED
    BY <2>1, <2>7, Zenon
<1>3. \A g \in 1 .. G : ~(3 * g <= n) \/ ~(3 * g - 1 <= n) <=> n % 3 # 0 /\ g = G
  BY <1>1
<1>4. Padded(t) = {g \in 1 .. G : t[4 * g] = Pad \/ t[4 * g - 1] = Pad}
  BY <1>1 DEF Padded
<1>5. n % 3 # 0 => G \in 1 .. G
  BY <1>1
<1> HIDE DEF t, n, G
<1>6. Padded(t) = {g \in 1 .. G : n % 3 # 0 /\ g = G}
  BY <1>2, <1>3, <1>4
<1>7. Padded(t) = IF n % 3 = 0 THEN {} ELSE {G}
  BY <1>5, <1>6
<1>8. QED
  BY <1>7, Zenon DEF t, n, G

\* decode() inverts the standard encoding.
LEMMA DecodeStandard ==
  ASSUME NEW d \in Seq(Byte)
  PROVE  decode(Standard(d)) = d
<1> DEFINE t == Standard(d)
           n == Len(d)
           G == (n + 2) \div 3
           EndOf(g) == IF 3 * g <= n THEN 3 * g ELSE n
           e == [g \in 0 .. G |-> EndOf(g)]
<1>1. n \in Nat /\ G \in Nat /\ Len(t) = 4 * G /\ Len(t) \div 4 = G /\ Len(t) % 4 = 0
  <2>1. Len(t) = 4 * G
    BY StandardIs, Zenon
  <2>2. n \in Nat /\ G \in Nat
    OBVIOUS
  <2> HIDE DEF t, G
  <2>3. Len(t) \div 4 = G /\ Len(t) % 4 = 0
    BY <2>1, <2>2
  <2>4. QED
    BY <2>1, <2>2, <2>3
<1>2. LastGroup(t) = G
  <2>1. CASE n % 3 = 0
    <3>1. Padded(t) = {}
      BY <2>1, PaddedStandard
    <3>2. QED
      BY <1>1, <3>1 DEF LastGroup
  <2>2. CASE n % 3 # 0
    <3>1. Padded(t) = {G} /\ {G} # {}
      BY <2>2, PaddedStandard
    <3>2. Min({G}) = G
      BY <1>1 DEF Min
    <3>3. QED
      BY <3>1, <3>2, Zenon DEF LastGroup
  <2>3. QED
    BY <2>1, <2>2
<1>3. decode(t) = FlattenSeq([g \in 1 .. G |-> Bytes(t, g)])
  BY <1>1, <1>2 DEF decode
<1>4. CASE n = 0
  <2>1. d = <<>> /\ 1 .. G = {}
    BY <1>1, <1>4
  <2>2. [g \in 1 .. G |-> Bytes(t, g)] = <<>>
    BY <2>1
  <2>3. FlattenSeq(<<>>) = <<>>
    BY DEF FlattenSeq
  <2>4. QED
    BY <1>3, <2>1, <2>2, <2>3
<1>5. CASE n # 0
  <2>1. G # 0 /\ e[0] = 0 /\ e \in [0 .. G -> Nat] /\ e[G] = n
    BY <1>1, <1>5
  <2>2. \A g \in 1 .. G : e[g - 1] + 1 = 3 * g - 2 /\ e[g] = EndOf(g)
    BY <1>1
  <2>3. \A g \in 1 .. G : e[g - 1] <= e[g] /\ e[g] <= Len(d)
    BY <1>1
  <2>4. \A g \in 1 .. G : Bytes(t, g) = SubSeq(d, e[g - 1] + 1, e[g])
    BY <2>2, BytesBack
  <2> HIDE DEF e, t, G
  <2>5. [g \in 1 .. G |-> Bytes(t, g)] = [g \in 1 .. G |-> SubSeq(d, e[g - 1] + 1, e[g])]
    BY <2>4
  <2>6. FlattenSeq([g \in 1 .. G |-> SubSeq(d, e[g - 1] + 1, e[g])]) = SubSeq(d, 1, e[G])
    BY <1>1, <2>1, <2>3, PartsJoin
  <2>7. SubSeq(d, 1, n) = d
    OBVIOUS
  <2>8. QED
    BY <1>3, <2>1, <2>5, <2>6, <2>7 DEF t
<1>6. QED
  BY <1>4, <1>5

\* What decode() pushes back is a sequence of numbers.
LEMMA BytesType ==
  ASSUME NEW t \in Seq(Int), NEW g \in 1 .. Len(t) \div 4
  PROVE  Bytes(t, g) \in Seq(Int)
<1> DEFINE k(n) == t[4 * (g - 1) + n]
           first == (k(1) * 4 + k(2) \div 16) % 256
           second == (k(2) * 16 + k(3) \div 4) % 256
           third == (k(3) * 64 + k(4)) % 256
<1>1. k(1) \in Int /\ k(2) \in Int /\ k(3) \in Int /\ k(4) \in Int
  OBVIOUS
<1>2. Bytes(t, g) = IF k(3) = Pad THEN <<first>>
                    ELSE IF k(4) = Pad THEN <<first, second>>
                    ELSE <<first, second, third>>
  BY Zenon DEF Bytes
<1> HIDE DEF k
<1>3. first \in Int /\ second \in Int /\ third \in Int
  <2>1. first \in Int
    BY <1>1
  <2>2. second \in Int
    BY <1>1
  <2>3. third \in Int
    BY <1>1
  <2>4. QED
    BY <2>1, <2>2, <2>3
<1> HIDE DEF first, second, third
<1>4. /\ <<first>> \in Seq(Int) /\ <<first, second>> \in Seq(Int)
      /\ <<first, second, third>> \in Seq(Int)
  BY <1>3
<1>5. QED
  BY <1>2, <1>4, Zenon

\* The codec is one of the standard: whatever bytes encode() is given at once, it
\* writes their standard text with its padding, and decode() gives them back.
THEOREM CodecInverts ==
  ASSUME NEW d \in Seq(Byte)
  PROVE  encode(d) = Standard(d) /\ decode(encode(d)) = d
BY EncodeIsStandard, DecodeStandard

\* Two texts after each other: their groups stay what they were.
LEMMA GroupsStay ==
  ASSUME NEW t \in Seq(Int), NEW u \in Seq(Int), Len(t) % 4 = 0, Len(u) % 4 = 0
  PROVE  LET m == Len(t) \div 4
             n == Len(u) \div 4
             v == t \o u
         IN  /\ m \in Nat /\ n \in Nat /\ v \in Seq(Int)
             /\ Len(v) % 4 = 0 /\ Len(v) \div 4 = m + n
             /\ \A g \in 1 .. m : \A k \in 1 .. 4 : v[4 * (g - 1) + k] = t[4 * (g - 1) + k]
             /\ \A g \in 1 .. n : \A k \in 1 .. 4 :
                   v[4 * ((g + m) - 1) + k] = u[4 * (g - 1) + k]
<1> DEFINE m == Len(t) \div 4
           n == Len(u) \div 4
           v == t \o u
<1>1. Len(t) = 4 * m /\ Len(u) = 4 * n /\ m \in Nat /\ n \in Nat
  OBVIOUS
<1>2. /\ v \in Seq(Int)
      /\ Len(v) = Len(t) + Len(u)
      /\ \A i \in 1 .. Len(t) + Len(u) : v[i] = IF i <= Len(t) THEN t[i] ELSE u[i - Len(t)]
  BY ConcatIs
<1> HIDE DEF m, n, v
<1>3. Len(v) % 4 = 0 /\ Len(v) \div 4 = m + n
  <2>1. Len(v) = 4 * (m + n)
    BY <1>1, <1>2
  <2>2. QED
    BY <1>1, <2>1
<1>4. \A i \in 1 .. 4 * m + 4 * n : v[i] = IF i <= 4 * m THEN t[i] ELSE u[i - 4 * m]
  BY <1>1, <1>2
<1>5. ASSUME NEW g \in 1 .. m, NEW k \in 1 .. 4
      PROVE  v[4 * (g - 1) + k] = t[4 * (g - 1) + k]
  <2>1. 4 * (g - 1) + k \in 1 .. 4 * m + 4 * n /\ 4 * (g - 1) + k <= 4 * m
    BY <1>1
  <2>2. QED
    BY <1>4, <2>1
<1>6. ASSUME NEW g \in 1 .. n, NEW k \in 1 .. 4
      PROVE  v[4 * ((g + m) - 1) + k] = u[4 * (g - 1) + k]
  <2>1. /\ 4 * ((g + m) - 1) + k \in 1 .. 4 * m + 4 * n /\ ~(4 * ((g + m) - 1) + k <= 4 * m)
        /\ (4 * ((g + m) - 1) + k) - 4 * m = 4 * (g - 1) + k
    BY <1>1
  <2>2. QED
    BY <1>4, <2>1
<1>7. QED
  BY <1>1, <1>2, <1>3, <1>5, <1>6 DEF m, n, v

\* A function on 1 .. n is a sequence of length n.
LEMMA OfLength ==
  ASSUME NEW S, NEW n \in Nat, NEW s \in [1 .. n -> S]
  PROVE  s \in Seq(S) /\ Len(s) = n
OBVIOUS

\* decode() of a text after another: all of both, if nothing in the first is
\* padded, otherwise what the first alone gives.
LEMMA DecodeConcat ==
  ASSUME NEW t \in Seq(Int), NEW u \in Seq(Int), Len(t) % 4 = 0, Len(u) % 4 = 0
  PROVE  /\ Padded(t \o u) = {} <=> Padded(t) = {} /\ Padded(u) = {}
         /\ decode(t \o u) = IF Padded(t) = {} THEN decode(t) \o decode(u) ELSE decode(t)
<1> DEFINE m == Len(t) \div 4
           n == Len(u) \div 4
           v == t \o u
           At(w, g, k) == w[4 * (g - 1) + k]
           Ends(w, g) == w[4 * g] = Pad \/ w[4 * g - 1] = Pad
<1>1. /\ m \in Nat /\ n \in Nat /\ v \in Seq(Int)
      /\ Len(v) % 4 = 0 /\ Len(v) \div 4 = m + n
      /\ \A g \in 1 .. m : \A k \in 1 .. 4 : v[4 * (g - 1) + k] = t[4 * (g - 1) + k]
      /\ \A g \in 1 .. n : \A k \in 1 .. 4 : v[4 * ((g + m) - 1) + k] = u[4 * (g - 1) + k]
  BY GroupsStay, Zenon
<1>2. /\ Padded(t) = {g \in 1 .. m : Ends(t, g)}
      /\ Padded(u) = {g \in 1 .. n : Ends(u, g)}
      /\ Padded(v) = {g \in 1 .. m + n : Ends(v, g)}
  BY <1>1, Zenon DEF Padded
<1> HIDE DEF m, n, v
<1>3. ASSUME NEW w, NEW g \in Int
      PROVE  Ends(w, g) <=> w[4 * (g - 1) + 4] = Pad \/ w[4 * (g - 1) + 3] = Pad
  <2>1. 4 * g = 4 * (g - 1) + 4 /\ 4 * g - 1 = 4 * (g - 1) + 3
    OBVIOUS
  <2>2. QED
    BY <2>1
<1>4. ASSUME NEW g \in 1 .. m PROVE Ends(v, g) <=> Ends(t, g)
  <2>1. g \in Int /\ 3 \in 1 .. 4 /\ 4 \in 1 .. 4
    OBVIOUS
  <2> HIDE DEF Ends
  <2>2. v[4 * (g - 1) + 4] = t[4 * (g - 1) + 4] /\ v[4 * (g - 1) + 3] = t[4 * (g - 1) + 3]
    BY <1>1, <2>1
  <2>3. QED
    BY <1>3, <2>1, <2>2, Zenon
<1>5. ASSUME NEW g \in 1 .. n PROVE Ends(v, g + m) <=> Ends(u, g)
  <2>1. g \in Int /\ g + m \in Int /\ 3 \in 1 .. 4 /\ 4 \in 1 .. 4
    BY <1>1
  <2> HIDE DEF Ends
  <2>2. /\ v[4 * ((g + m) - 1) + 4] = u[4 * (g - 1) + 4]
        /\ v[4 * ((g + m) - 1) + 3] = u[4 * (g - 1) + 3]
    BY <1>1, <2>1
  <2>3. Ends(v, g + m) <=> v[4 * ((g + m) - 1) + 4] = Pad \/ v[4 * ((g + m) - 1) + 3] = Pad
    BY <1>3, <2>1
  <2>4. Ends(u, g) <=> u[4 * (g - 1) + 4] = Pad \/ u[4 * (g - 1) + 3] = Pad
    BY <1>3, <2>1
  <2>5. QED
    BY <2>2, <2>3, <2>4
<1> HIDE DEF Ends
<1>6. \A g \in 1 .. m : g \in 1 .. m + n
  BY <1>1
<1>7. \A g \in 1 .. n : g + m \in 1 .. m + n
  BY <1>1
<1>8. \A g \in 1 .. m + n : g \in 1 .. m \/ (g - m \in 1 .. n /\ (g - m) + m = g)
  BY <1>1
<1>9. Padded(v) = {} <=> Padded(t) = {} /\ Padded(u) = {}
  BY <1>2, <1>4, <1>5, <1>6, <1>7, <1>8
<1>10. /\ \A g \in 1 .. m : Bytes(v, g) = Bytes(t, g)
       /\ \A g \in 1 .. n : Bytes(v, g + m) = Bytes(u, g)
  <2>1. 1 \in 1 .. 4 /\ 2 \in 1 .. 4 /\ 3 \in 1 .. 4 /\ 4 \in 1 .. 4
    OBVIOUS
  <2>2. ASSUME NEW g \in 1 .. m PROVE Bytes(v, g) = Bytes(t, g)
    <3>1. /\ v[4 * (g - 1) + 1] = t[4 * (g - 1) + 1] /\ v[4 * (g - 1) + 2] = t[4 * (g - 1) + 2]
          /\ v[4 * (g - 1) + 3] = t[4 * (g - 1) + 3] /\ v[4 * (g - 1) + 4] = t[4 * (g - 1) + 4]
      BY <1>1, <2>1
    <3>2. QED
      BY <3>1, Zenon DEF Bytes
  <2>3. ASSUME NEW g \in 1 .. n PROVE Bytes(v, g + m) = Bytes(u, g)
    <3>1. /\ v[4 * ((g + m) - 1) + 1] = u[4 * (g - 1) + 1]
          /\ v[4 * ((g + m) - 1) + 2] = u[4 * (g - 1) + 2]
          /\ v[4 * ((g + m) - 1) + 3] = u[4 * (g - 1) + 3]
          /\ v[4 * ((g + m) - 1) + 4] = u[4 * (g - 1) + 4]
      BY <1>1, <2>1
    <3> DEFINE h == g + m
    <3>2. /\ v[4 * (h - 1) + 1] = u[4 * (g - 1) + 1] /\ v[4 * (h - 1) + 2] = u[4 * (g - 1) + 2]
          /\ v[4 * (h - 1) + 3] = u[4 * (g - 1) + 3] /\ v[4 * (h - 1) + 4] = u[4 * (g - 1) + 4]
      BY <3>1
    <3> HIDE DEF h
    <3>3. Bytes(v, h) = Bytes(u, g)
      BY <3>2, Zenon DEF Bytes
    <3>4. QED
      BY <3>3 DEF h
  <2>4. QED
    BY <2>2, <2>3
<1>11. /\ decode(t) = FlattenSeq([g \in 1 .. LastGroup(t) |-> Bytes(t, g)])
       /\ decode(u) = FlattenSeq([g \in 1 .. LastGroup(u) |-> Bytes(u, g)])
       /\ decode(v) = FlattenSeq([g \in 1 .. LastGroup(v) |-> Bytes(v, g)])
  BY <1>1, Zenon DEF decode
<1>12. Padded(t) \subseteq 1 .. m /\ Padded(u) \subseteq 1 .. n /\ Padded(v) \subseteq 1 .. m + n
  BY <1>2
<1>13. LastGroup(u) \in 0 .. n
  <2>1. CASE Padded(u) = {}
    BY <1>1, <2>1 DEF LastGroup, n
  <2>2. CASE Padded(u) # {}
    <3>1. Min(Padded(u)) \in 1 .. n
      BY <1>1, <1>12, <2>2, MinIs
    <3>2. QED
      BY <1>1, <2>2, <3>1 DEF LastGroup
  <2>3. QED
    BY <2>1, <2>2
<1>14. ASSUME Padded(t) # {} PROVE decode(v) = decode(t)
  <2>1. Min(Padded(t)) \in Padded(t) /\ \A x \in Padded(t) : Min(Padded(t)) <= x
    BY <1>1, <1>12, <1>14, MinIs
  <2>2. Padded(v) # {}
    BY <1>9, <1>14
  <2>3. m + n \in Nat
    BY <1>1
  <2>4. Min(Padded(v)) \in Padded(v) /\ \A x \in Padded(v) : Min(Padded(v)) <= x
    BY <1>12, <2>2, <2>3, MinIs
  <2> DEFINE p == Min(Padded(t))
             q == Min(Padded(v))
  <2> HIDE DEF p, q
  <2>5. p \in 1 .. m /\ Ends(t, p) /\ q \in 1 .. m + n /\ Ends(v, q)
    BY <1>2, <2>1, <2>4 DEF p, q
  <2>6. p \in Padded(v)
    BY <1>2, <1>4, <1>6, <2>5
  <2>7. q <= p
    BY <2>4, <2>6 DEF q
  <2>8. q \in 1 .. m
    BY <1>1, <2>5, <2>7
  <2>9. q \in Padded(t)
    BY <1>2, <1>4, <2>5, <2>8
  <2>10. p <= q
    BY <2>1, <2>9 DEF p
  <2>11. p = q
    BY <2>5, <2>7, <2>8, <2>10
  <2>12. LastGroup(t) = p /\ LastGroup(v) = p
    BY <1>14, <2>2, <2>11 DEF LastGroup, p, q
  <2>13. \A g \in 1 .. p : g \in 1 .. m
    BY <1>1, <2>5
  <2>14. [g \in 1 .. p |-> Bytes(v, g)] = [g \in 1 .. p |-> Bytes(t, g)]
    BY <1>10, <2>13
  <2>15. QED
    BY <1>11, <2>12, <2>14
<1>15. ASSUME Padded(t) = {} PROVE decode(v) = decode(t) \o decode(u)
  <2> DEFINE k == LastGroup(u)
             a == [g \in 1 .. m |-> Bytes(t, g)]
             b == [g \in 1 .. k |-> Bytes(u, g)]
             c == [g \in 1 .. m + k |-> Bytes(v, g)]
  <2>1. LastGroup(t) = m
    BY <1>15 DEF LastGroup, m
  <2>2. LastGroup(v) = m + k
    <3>1. CASE Padded(u) = {}
      <4>1. LastGroup(u) = n /\ LastGroup(v) = m + n
        BY <1>1, <1>9, <1>15, <3>1, Zenon DEF LastGroup, n
      <4>2. QED
        BY <4>1
    <3>2. CASE Padded(u) # {}
      <4>1. Min(Padded(u)) \in Padded(u) /\ \A x \in Padded(u) : Min(Padded(u)) <= x
        BY <1>1, <1>12, <3>2, MinIs
      <4>2. m + n \in Nat /\ Padded(v) # {}
        BY <1>1, <1>9, <3>2
      <4>3. Min(Padded(v)) \in Padded(v) /\ \A x \in Padded(v) : Min(Padded(v)) <= x
        BY <1>12, <4>2, MinIs
      <4> DEFINE p == Min(Padded(u))
                 q == Min(Padded(v))
      <4> HIDE DEF p, q
      <4>4. p \in 1 .. n /\ Ends(u, p) /\ q \in 1 .. m + n /\ Ends(v, q)
        BY <1>2, <4>1, <4>3 DEF p, q
      <4>5. p + m \in Padded(v)
        BY <1>2, <1>5, <1>7, <4>4
      <4>6. q <= p + m
        BY <4>3, <4>5 DEF q
      <4>7. ~(q \in 1 .. m)
        BY <1>2, <1>4, <1>15, <4>4
      <4>8. q - m \in 1 .. n /\ (q - m) + m = q
        BY <1>8, <4>4, <4>7
      <4>9. q - m \in Padded(u)
        <5>1. Ends(u, q - m)
          BY <1>5, <4>4, <4>8
        <5>2. QED
          BY <1>2, <4>8, <5>1
      <4>10. p <= q - m
        BY <4>1, <4>9 DEF p
      <4>11. q = m + p
        <5> HIDE DEF m, n
        <5>1. p \in Int /\ q \in Int /\ m \in Int
          BY <1>1, <4>4
        <5>2. QED
          BY <4>6, <4>10, <5>1
      <4>12. LastGroup(u) = p /\ LastGroup(v) = q
        BY <3>2, <4>2, Zenon DEF LastGroup, p, q
      <4>13. QED
        BY <4>11, <4>12
    <3>3. QED
      BY <3>1, <3>2
  <2>3. k \in Nat /\ k <= n /\ m + k \in Nat
    BY <1>1, <1>13
  <2>4. a \in [1 .. m -> Seq(Int)]
    BY BytesType DEF m
  <2>5. b \in [1 .. k -> Seq(Int)]
    <3>1. \A g \in 1 .. k : g \in 1 .. n
      BY <1>1, <2>3
    <3>2. \A g \in 1 .. n : Bytes(u, g) \in Seq(Int)
      BY BytesType DEF n
    <3>3. QED
      BY <3>1, <3>2
  <2>6. a \in Seq(Seq(Int)) /\ Len(a) = m /\ b \in Seq(Seq(Int)) /\ Len(b) = k
    <3> HIDE DEF a, b, k
    <3>1. a \in Seq(Seq(Int)) /\ Len(a) = m
      BY <1>1, <2>4, OfLength
    <3>2. b \in Seq(Seq(Int)) /\ Len(b) = k
      BY <2>3, <2>5, OfLength
    <3>3. QED
      BY <3>1, <3>2
  <2>7. c \in [1 .. m + k -> Seq(Int)]
    <3>1. \A g \in 1 .. m + k : g \in 1 .. m + n
      BY <1>1, <2>3
    <3>2. \A g \in 1 .. m + n : Bytes(v, g) \in Seq(Int)
      BY <1>1, BytesType
    <3>3. QED
      BY <3>1, <3>2
  <2>8. c \in Seq(Seq(Int)) /\ Len(c) = m + k
    <3> HIDE DEF c, k
    <3>1. QED
      BY <2>3, <2>7, OfLength
  <2>9. /\ \A g \in 1 .. m : a[g] = Bytes(t, g)
        /\ \A g \in 1 .. k : b[g] = Bytes(u, g)
        /\ \A g \in 1 .. m + k : c[g] = Bytes(v, g)
    OBVIOUS
  <2> HIDE DEF a, b, c, k
  <2>10. /\ a \o b \in Seq(Seq(Int))
         /\ Len(a \o b) = m + k
         /\ \A i \in 1 .. m + k : (a \o b)[i] = IF i <= m THEN a[i] ELSE b[i - m]
    BY <2>6, ConcatIs
  <2>11. \A g \in 1 .. m + k : (a \o b)[g] = c[g]
    <3> SUFFICES ASSUME NEW g \in 1 .. m + k PROVE (a \o b)[g] = c[g]
      OBVIOUS
    <3>1. CASE g <= m
      <4>1. g \in 1 .. m
        BY <1>1, <2>3, <3>1
      <4>2. QED
        BY <1>10, <2>9, <2>10, <3>1, <4>1
    <3>2. CASE ~(g <= m)
      <4>1. g - m \in 1 .. k /\ g - m \in 1 .. n /\ (g - m) + m = g
        BY <1>1, <2>3, <3>2
      <4>2. Bytes(v, g) = Bytes(u, g - m)
        BY <1>10, <4>1
      <4>3. QED
        BY <2>9, <2>10, <3>2, <4>1, <4>2
    <3>3. QED
      BY <3>1, <3>2
  <2>12. c = a \o b
    BY <2>8, <2>10, <2>11, SameSeq
  <2>13. FlattenSeq(c) = FlattenSeq(a) \o FlattenSeq(b)
    BY <2>6, <2>12, FlattenConcat
  <2>14. decode(t) = FlattenSeq(a) /\ decode(u) = FlattenSeq(b) /\ decode(v) = FlattenSeq(c)
    BY <1>11, <2>1, <2>2 DEF a, b, c, k
  <2>15. QED
    BY <2>13, <2>14
<1>16. QED
  BY <1>9, <1>14, <1>15, Zenon DEF v

\* One sequence more to join.
LEMMA FlattenAppend ==
  ASSUME NEW S, NEW s \in Seq(Seq(S)), NEW x \in Seq(S)
  PROVE  FlattenSeq(Append(s, x)) = FlattenSeq(s) \o x
<1> DEFINE e == <<x>>
           f == [i \in 1 .. 1 |-> x]
<1>1. e \in Seq(Seq(S)) /\ Len(e) = 1 /\ e[1] = x /\ f[1] = x
  OBVIOUS
<1>2. Append(s, x) = s \o e
  OBVIOUS
<1>3. Joins(e, f)
  BY <1>1 DEF Joins
<1> HIDE DEF e, f
<1>4. FlattenSeq(e) = x
  <2>1. Len(e) \in Nat /\ Len(e) # 0
    BY <1>1
  <2>2. FlattenSeq(e) = f[Len(e)]
    BY <1>3, <2>1, JoinedIs
  <2>3. QED
    BY <1>1, <2>2
<1>5. QED
  BY <1>1, <1>2, <1>4, FlattenConcat

\* The standard texts of a sequence of data, one after the other.
StandardTexts(x) == [i \in 1 .. Len(x) |-> Standard(x[i])]

\* One input more adds its standard text.
LEMMA TextsAppend ==
  ASSUME NEW x \in Seq(Seq(Byte)), NEW d \in Seq(Byte)
  PROVE  /\ StandardTexts(x) \in Seq(Seq(Int))
         /\ StandardTexts(Append(x, d)) = Append(StandardTexts(x), Standard(d))
<1> DEFINE y == Append(x, d)
           n == Len(x)
<1>1. /\ n \in Nat /\ y \in Seq(Seq(Byte)) /\ Len(y) = n + 1 /\ y[n + 1] = d
      /\ \A i \in 1 .. n : y[i] = x[i] /\ x[i] \in Seq(Byte)
  OBVIOUS
<1>2. Standard(d) \in Seq(Int) /\ \A i \in 1 .. n : Standard(x[i]) \in Seq(Int)
  BY <1>1, StandardIs
<1>3. StandardTexts(x) = [i \in 1 .. n |-> Standard(x[i])]
  BY DEF StandardTexts
<1>4. StandardTexts(y) = [i \in 1 .. n + 1 |-> Standard(y[i])]
  BY <1>1 DEF StandardTexts
<1> HIDE DEF y, n
<1>5. StandardTexts(x) \in [1 .. n -> Seq(Int)]
  BY <1>2, <1>3
<1>6. StandardTexts(x) \in Seq(Seq(Int)) /\ Len(StandardTexts(x)) = n
  BY <1>1, <1>5, OfLength
<1>7. StandardTexts(y) \in [1 .. n + 1 -> Seq(Int)]
  <2>1. \A i \in 1 .. n + 1 : Standard(y[i]) \in Seq(Int)
    BY <1>1, <1>2
  <2>2. QED
    BY <1>4, <2>1
<1>8. StandardTexts(y) \in Seq(Seq(Int)) /\ Len(StandardTexts(y)) = n + 1
  BY <1>1, <1>7, OfLength
<1>9. /\ Append(StandardTexts(x), Standard(d)) \in Seq(Seq(Int))
      /\ Len(Append(StandardTexts(x), Standard(d))) = n + 1
      /\ \A i \in 1 .. n + 1 : Append(StandardTexts(x), Standard(d))[i] = StandardTexts(y)[i]
  <2>1. /\ Append(StandardTexts(x), Standard(d)) \in Seq(Seq(Int))
        /\ Len(Append(StandardTexts(x), Standard(d))) = n + 1
        /\ Append(StandardTexts(x), Standard(d))[n + 1] = Standard(d)
        /\ \A i \in 1 .. n : Append(StandardTexts(x), Standard(d))[i] = StandardTexts(x)[i]
    BY <1>2, <1>6
  <2>2. /\ StandardTexts(y)[n + 1] = Standard(d)
        /\ \A i \in 1 .. n : StandardTexts(y)[i] = StandardTexts(x)[i]
    BY <1>1, <1>3, <1>4
  <2>3. \A i \in 1 .. n + 1 : i \in 1 .. n \/ i = n + 1
    BY <1>1
  <2>4. QED
    BY <2>1, <2>2, <2>3
<1>10. QED
  BY <1>6, <1>8, <1>9, SameSeq DEF y

\* The inductive invariant: text is made of whole groups, some of them padded
\* just when some input was ragged, and it is the standard one.
Base64Inv ==
  /\ inputs \in Seq(Inputs) /\ text \in Seq(Int)
  /\ Len(text) % 4 = 0
  /\ Padded(text) = {} <=> Ragged = {}
  /\ text = FlattenSeq(StandardTexts(inputs))
  /\ decode(text) = FlattenSeq(SubSeq(inputs, 1, LastDecoded))

\* It holds of empty results.
LEMMA Base64InvInit ==
  Base64Init => Base64Inv
<1> SUFFICES ASSUME Base64Init PROVE Base64Inv
  OBVIOUS
<1>1. inputs = <<>> /\ text = <<>>
  BY DEF Base64Init
<1>2. inputs \in Seq(Inputs) /\ text \in Seq(Int) /\ Len(inputs) = 0 /\ Len(text) = 0
  BY <1>1
<1>3. Len(text) % 4 = 0 /\ Len(text) \div 4 = 0 /\ 1 .. 0 = {}
  BY <1>2
<1>4. Padded(text) = {} /\ LastGroup(text) = 0
  BY <1>3 DEF Padded, LastGroup
<1>5. Ragged = {} /\ LastDecoded = 0
  BY <1>2, <1>3 DEF Ragged, LastDecoded
<1>6. FlattenSeq(<<>>) = <<>>
  BY DEF FlattenSeq
<1>7. StandardTexts(inputs) = <<>>
  BY <1>1, <1>2 DEF StandardTexts
<1>8. decode(text) = <<>>
  <2>1. [g \in 1 .. LastGroup(text) |-> Bytes(text, g)] = <<>>
    BY <1>4
  <2>2. QED
    BY <1>3, <1>6, <2>1 DEF decode
<1>9. SubSeq(inputs, 1, LastDecoded) = <<>>
  BY <1>1, <1>5
<1>10. QED
  BY <1>1, <1>2, <1>3, <1>4, <1>5, <1>6, <1>7, <1>8, <1>9 DEF Base64Inv

\* Which inputs were ragged, and how much is decoded, after one more.
LEMMA RaggedAppend ==
  ASSUME inputs \in Seq(Inputs), NEW d \in Inputs, inputs' = Append(inputs, d)
  PROVE  /\ Ragged' = {} <=> Ragged = {} /\ Len(d) % 3 = 0
         /\ Ragged = {} => LastDecoded' = Len(inputs) + 1
         /\ Ragged # {} => LastDecoded' = LastDecoded /\ LastDecoded \in 1 .. Len(inputs)
<1> DEFINE n == Len(inputs)
           R(i) == Len(inputs[i]) % 3 # 0
<1>1. /\ n \in Nat /\ Len(inputs') = n + 1 /\ inputs'[n + 1] = d
      /\ \A i \in 1 .. n : inputs'[i] = inputs[i]
  OBVIOUS
<1>2. /\ Ragged = {i \in 1 .. n : R(i)}
      /\ Ragged' = {i \in 1 .. n + 1 : Len(inputs'[i]) % 3 # 0}
  BY <1>1 DEF Ragged
<1>3. \A i \in 1 .. n + 1 : i \in 1 .. n \/ i = n + 1
  BY <1>1
<1>4. n + 1 \in 1 .. n + 1 /\ \A i \in 1 .. n : i \in 1 .. n + 1 /\ i # n + 1 /\ i < n + 1
  BY <1>1
<1> HIDE DEF n
<1>5. Ragged' = IF Len(d) % 3 = 0 THEN Ragged ELSE Ragged \cup {n + 1}
  BY <1>1, <1>2, <1>3, <1>4
<1>6. Ragged' = {} <=> Ragged = {} /\ Len(d) % 3 = 0
  BY <1>5
<1>7. LastDecoded' = IF Ragged' = {} THEN n + 1 ELSE Min(Ragged')
  BY <1>1 DEF LastDecoded
<1>8. Ragged' \subseteq 1 .. n + 1 /\ n + 1 \in Nat
  <2>1. n + 1 \in Nat
    BY <1>1
  <2>2. QED
    BY <1>2, <2>1, Zenon
<1>9. Ragged' # {} => Min(Ragged') \in Ragged' /\ \A i \in Ragged' : Min(Ragged') <= i
  BY <1>8, MinIs
<1>10. ASSUME Ragged = {} PROVE LastDecoded' = n + 1
  BY <1>5, <1>7, <1>9, <1>10
<1>11. ASSUME Ragged # {}
       PROVE  LastDecoded' = LastDecoded /\ LastDecoded \in 1 .. n
  <2>1. Ragged \subseteq 1 .. n
    BY <1>2
  <2>2. Min(Ragged) \in Ragged /\ \A i \in Ragged : Min(Ragged) <= i
    BY <1>1, <1>11, <2>1, MinIs
  <2>3. Ragged' # {} /\ Ragged \subseteq Ragged'
    BY <1>5, <1>11
  <2>4. LastDecoded = Min(Ragged) /\ LastDecoded' = Min(Ragged')
    BY <1>7, <1>11, <2>3 DEF LastDecoded
  <2> DEFINE p == Min(Ragged)
             q == Min(Ragged')
  <2> HIDE DEF p, q
  <2>5. p \in Ragged /\ q \in Ragged' /\ q <= p
    BY <1>9, <2>2, <2>3 DEF p, q
  <2>6. p \in 1 .. n /\ q \in 1 .. n + 1
    BY <1>8, <2>1, <2>5
  <2>7. q # n + 1
    BY <1>1, <2>5, <2>6
  <2>8. q \in Ragged
    BY <1>5, <2>5, <2>7
  <2>9. p <= q
    BY <2>2, <2>8 DEF p
  <2>10. p = q
    BY <2>5, <2>6, <2>9
  <2>11. QED
    BY <2>4, <2>6, <2>10 DEF p, q
<1>12. QED
  BY <1>6, <1>10, <1>11 DEF n

\* Encode keeps the invariant.
LEMMA EncodeKeeps ==
  ASSUME Base64Inv, Encode
  PROVE  Base64Inv'
<1>1. PICK d \in Inputs : inputs' = Append(inputs, d) /\ text' = text \o encode(d)
  BY DEF Encode
<1>2. /\ inputs \in Seq(Inputs) /\ text \in Seq(Int)
      /\ Len(text) % 4 = 0
      /\ Padded(text) = {} <=> Ragged = {}
      /\ text = FlattenSeq(StandardTexts(inputs))
      /\ decode(text) = FlattenSeq(SubSeq(inputs, 1, LastDecoded))
  BY DEF Base64Inv
<1>3. d \in Seq(Byte) /\ inputs \in Seq(Seq(Byte))
  BY <1>2, Base64Assumption
<1> DEFINE u == Standard(d)
<1>4. u \in Seq(Int) /\ Len(u) % 4 = 0 /\ decode(u) = d /\ text' = text \o u
  <2>1. Len(u) = 4 * ((Len(d) + 2) \div 3) /\ (Len(d) + 2) \div 3 \in Int
    BY <1>3, StandardIs
  <2>2. Len(u) % 4 = 0
    BY <2>1
  <2>3. QED
    BY <1>1, <1>3, <2>2, StandardIs, EncodeIsStandard, DecodeStandard
<1>5. Padded(u) = {} <=> Len(d) % 3 = 0
  BY <1>3, PaddedStandard
<1> HIDE DEF u
<1>6. /\ Padded(text') = {} <=> Padded(text) = {} /\ Padded(u) = {}
      /\ decode(text') = IF Padded(text) = {} THEN decode(text) \o d ELSE decode(text)
  BY <1>2, <1>4, DecodeConcat
<1>7. /\ Ragged' = {} <=> Ragged = {} /\ Len(d) % 3 = 0
      /\ Ragged = {} => LastDecoded' = Len(inputs) + 1
      /\ Ragged # {} => LastDecoded' = LastDecoded /\ LastDecoded \in 1 .. Len(inputs)
  BY <1>1, <1>2, RaggedAppend
<1>8. inputs' \in Seq(Inputs)
  BY <1>1, <1>2
<1>9. text' \in Seq(Int) /\ Len(text') % 4 = 0
  <2>1. text' \in Seq(Int) /\ Len(text') = Len(text) + Len(u)
    BY <1>2, <1>4, ConcatIs
  <2>2. /\ Len(text) = 4 * (Len(text) \div 4) /\ Len(u) = 4 * (Len(u) \div 4)
        /\ Len(text) \div 4 \in Int /\ Len(u) \div 4 \in Int
    BY <1>2, <1>4
  <2>3. \A a \in Int : \A b \in Int : (4 * a + 4 * b) % 4 = 0
    <3>1. \A c \in Int : (4 * c) % 4 = 0
      OBVIOUS
    <3>2. \A a \in Int : \A b \in Int : 4 * a + 4 * b = 4 * (a + b) /\ a + b \in Int
      OBVIOUS
    <3>3. QED
      BY <3>1, <3>2
  <2>4. QED
    BY <2>1, <2>2, <2>3
<1>10. text' = FlattenSeq(StandardTexts(inputs'))
  BY <1>1, <1>2, <1>3, <1>4, TextsAppend, FlattenAppend DEF u
<1>11. decode(text') = FlattenSeq(SubSeq(inputs', 1, LastDecoded'))
  <2>1. CASE Ragged = {}
    <3>1. SubSeq(inputs, 1, Len(inputs)) = inputs /\ LastDecoded = Len(inputs)
      BY <1>2, <2>1 DEF LastDecoded
    <3>2. SubSeq(inputs', 1, Len(inputs) + 1) = inputs'
      BY <1>1, <1>2
    <3>3. decode(text') = FlattenSeq(inputs) \o d
      BY <1>2, <1>6, <2>1, <3>1
    <3>4. FlattenSeq(inputs') = FlattenSeq(inputs) \o d
      BY <1>1, <1>3, FlattenAppend
    <3>5. QED
      BY <1>7, <2>1, <3>2, <3>3, <3>4
  <2>2. CASE Ragged # {}
    <3>1. decode(text') = FlattenSeq(SubSeq(inputs, 1, LastDecoded))
      BY <1>2, <1>6, <2>2
    <3>2. SubSeq(inputs', 1, LastDecoded) = SubSeq(inputs, 1, LastDecoded)
      BY <1>1, <1>2, <1>7, <2>2
    <3>3. QED
      BY <1>7, <2>2, <3>1, <3>2
  <2>3. QED
    BY <2>1, <2>2
<1>12. QED
  BY <1>2, <1>5, <1>6, <1>7, <1>8, <1>9, <1>10, <1>11 DEF Base64Inv

\* encode() writes the standard text of everything it was given, and decode()
\* gives it back up to the end of the first input that was not a multiple of
\* three bytes: for inputs of any lengths, in any number and order.
THEOREM DecodesWhatWasEncoded == Base64 => []RoundTrip
<1>1. Base64Inv /\ [Base64Next]_base64Vars => Base64Inv'
  <2> SUFFICES ASSUME Base64Inv, [Base64Next]_base64Vars PROVE Base64Inv'
    OBVIOUS
  <2>1. CASE Encode
    BY <2>1, EncodeKeeps
  <2>2. CASE UNCHANGED <<inputs, text>>
    BY <2>2 DEF Base64Inv, Ragged, LastDecoded
  <2>3. QED
    BY <2>1, <2>2 DEF Base64Next, Decode, base64Vars
<1>2. Base64Inv => RoundTrip
  BY DEF Base64Inv, RoundTrip, StandardTexts
<1>3. QED
  BY <1>1, <1>2, Base64InvInit, PTL DEF Base64
=============================================================================
