---------------------------- MODULE PreparedStmt ----------------------------
(***************************************************************************)
(* PreparedStmt (db/preparedStmt.cpp): the parameters of a statement, as a *)
(* record of types_ and of the three value maps.  Positions count from 1;  *)
(* NoValue stands for 0, 0.0 and NULLSTR_, which the getters answer where  *)
(* nothing of the right type was set.                                      *)
(***************************************************************************)
EXTENDS Integers, Sequences

CONSTANTS Positions,  \* positions callers pass, any integers
          NoValue

ASSUME PreparedStmtAssumption == Positions \subseteq Int

Kinds == {"INT", "STRING", "DOUBLE"}
ElemType == Kinds \cup {"INVALID"}

New == [types_ |-> <<>>, values |-> [k \in Kinds |-> [i \in Positions |-> NoValue]]]

Size(ps) == Len(ps.types_)

GetType(ps, i) == IF i \in 1 .. Size(ps) THEN ps.types_[i] ELSE "INVALID"

\* getInt, getString and getDouble.
Get(ps, k, i) == IF GetType(ps, i) = k THEN ps.values[k][i] ELSE NoValue

\* Mutant of SetType: positions before a new one take its type.
SetTypeUpTo(ps, i, t) ==
  IF i <= 0 THEN ps
  ELSE LET n == IF i > Size(ps) THEN i ELSE Size(ps)
       IN  [ps EXCEPT !.types_ =
              [j \in 1 .. n |-> IF j = i \/ j > Size(ps) THEN t ELSE GetType(ps, j)]]

\* Positions below 1 are ignored; a gap before a new one is INVALID.
SetType(ps, i, t) ==
  IF i <= 0 THEN ps
  ELSE LET n == IF i > Size(ps) THEN i ELSE Size(ps)
       IN  [ps EXCEPT !.types_ = [j \in 1 .. n |-> IF j = i THEN t ELSE GetType(ps, j)]]

\* setInt, setString and setDouble.
Set(ps, k, i, v) == SetType([ps EXCEPT !.values[k][i] = v], i, k)

\* SqlTemplate::setPreparedStmt: what the driver is given, position by position.
Bindings(ps) ==
  {<<i, GetType(ps, i), Get(ps, GetType(ps, i), i)>> :
     i \in {j \in 1 .. Size(ps) : GetType(ps, j) # "INVALID"}}
=============================================================================
