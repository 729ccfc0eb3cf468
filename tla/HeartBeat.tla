------------------------------ MODULE HeartBeat ------------------------------
(***************************************************************************)
(* HeartBeat (evb/heart.cpp): how many time-outs in a row a connection     *)
(* stayed silent.  Both operations hold lock_ from end to end.             *)
(*                                                                         *)
(* hearts_ is keyed by the address of the HpvConn and entries are never    *)
(* erased, so a new connection at an old address finds the old entry.      *)
(***************************************************************************)
EXTENDS Integers

CONSTANTS Addresses,  \* where HpvConn objects are allocated
          MaxMisses   \* bound of the model on failCnt

ASSUME HeartAssumption == MaxMisses \in Nat

VARIABLES hearts_,
          live,   \* a connection exists at this address
          heard,  \* it sent a packet since its last time-out
          quiet,  \* its time-outs since the last one that followed a packet
          own     \* its entry started with it, or a time-out saw its packet

vars == <<hearts_, live, heard, quiet, own>>

\* An address without an entry; operator[] makes one like it.
NoStat == [known |-> FALSE, recvPack |-> FALSE, failCnt |-> 0]

Init ==
  /\ hearts_ = [a \in Addresses |-> NoStat]
  /\ live = [a \in Addresses |-> FALSE]
  /\ heard = [a \in Addresses |-> FALSE]
  /\ quiet = [a \in Addresses |-> 0]
  /\ own = [a \in Addresses |-> FALSE]

\* new HpvConn
Connect(a) ==
  /\ ~live[a]
  /\ live' = [live EXCEPT ![a] = TRUE]
  /\ heard' = [heard EXCEPT ![a] = FALSE]
  /\ quiet' = [quiet EXCEPT ![a] = 0]
  /\ own' = [own EXCEPT ![a] = ~hearts_[a].known]
  /\ UNCHANGED hearts_

\* delete conn: nobody tells the HeartBeat.
Delete(a) ==
  /\ live[a]
  /\ live' = [live EXCEPT ![a] = FALSE]
  /\ UNCHANGED <<hearts_, heard, quiet, own>>

UpdateHeartBeat(a) ==
  /\ live[a]
  /\ hearts_' = [hearts_ EXCEPT ![a].known = TRUE, ![a].recvPack = TRUE]
  /\ heard' = [heard EXCEPT ![a] = TRUE]
  /\ UNCHANGED <<live, quiet, own>>

\* The entry that timeout() leaves, whose failCnt it returns.
Counted(h) ==
  [known |-> TRUE, recvPack |-> FALSE,
   failCnt |-> IF h.recvPack THEN 0 ELSE h.failCnt + 1]

\* Mutant of Timeout: an address without an entry gets one and counts 0.
TimeoutFromZero(a) ==
  /\ live[a]
  /\ hearts_[a].failCnt < MaxMisses
  /\ hearts_' = [hearts_ EXCEPT ![a] =
                   IF @.known THEN Counted(@) ELSE [@ EXCEPT !.known = TRUE]]
  /\ own' = [own EXCEPT ![a] = @ \/ heard[a]]
  /\ quiet' = [quiet EXCEPT ![a] = IF heard[a] THEN 0 ELSE @ + 1]
  /\ heard' = [heard EXCEPT ![a] = FALSE]
  /\ UNCHANGED live

Timeout(a) ==
  /\ live[a]
  /\ hearts_[a].failCnt < MaxMisses
  /\ hearts_' = [hearts_ EXCEPT ![a] = Counted(@)]
  /\ own' = [own EXCEPT ![a] = @ \/ heard[a]]
  /\ quiet' = [quiet EXCEPT ![a] = IF heard[a] THEN 0 ELSE @ + 1]
  /\ heard' = [heard EXCEPT ![a] = FALSE]
  /\ UNCHANGED live

Next ==
  \E a \in Addresses :
    Connect(a) \/ Delete(a) \/ UpdateHeartBeat(a) \/ Timeout(a)

Spec == Init /\ [][Next]_vars
-----------------------------------------------------------------------------
\* Each variable keeps to its type.
TypeOK ==
  /\ hearts_ \in [Addresses -> [known : BOOLEAN, recvPack : BOOLEAN, failCnt : Nat]]
  /\ live \in [Addresses -> BOOLEAN]
  /\ heard \in [Addresses -> BOOLEAN]
  /\ quiet \in [Addresses -> Nat]
  /\ own \in [Addresses -> BOOLEAN]

\* timeout() answers with the connection's own misses: from the start at a new
\* address, and at a reused one as soon as a packet of the connection counted.
AnswersOwnMisses ==
  \A a \in Addresses :
    live[a] /\ own[a] =>
      /\ hearts_[a].failCnt = quiet[a]
      /\ hearts_[a].recvPack <=> heard[a]

\* The old entry does no lasting harm: an answer is at most one smaller than
\* the misses of the connection itself, when a packet of its predecessor is
\* taken for its own.
NeverFarTooLow ==
  \A a \in Addresses :
    live[a] => hearts_[a].failCnt >= quiet[a] - 1
=============================================================================
