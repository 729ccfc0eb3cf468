------------------------------ MODULE ApiBuffer ------------------------------
(***************************************************************************)
(* The pool of API objects of include/apipool/apiPool.h: ApiBuffer<T> and  *)
(* its guard ApiWrapper<T>.                                                *)
(*                                                                         *)
(* A borrower constructs an ApiWrapper, which blocks on bufferFull_ until  *)
(* apis_ is not empty, and destroys it, which offers the object back.      *)
(*                                                                         *)
(* pc[b] = "idle"     b has no wrapper                                     *)
(*         "locking"  b is about to take lock_ and test the wait predicate *)
(*         "waiting"  b is blocked in bufferFull_.wait                     *)
(*         "holding"  b's wrapper holds api_[b]                            *)
(***************************************************************************)
EXTENDS Integers, Sequences, FiniteSets

CONSTANTS Apis,       \* the objects getInitApi() may return
          Borrowers,  \* the threads that use wrappers, one at a time each
          NoApi       \* a null shared_ptr

ASSUME ApiAssumption ==
  /\ IsFiniteSet(Apis)
  /\ NoApi \notin Apis

VARIABLES apis_, pc, api_,
          made  \* the objects init() pushed, never changed later

vars == <<apis_, pc, api_, made>>

Locking == {b \in Borrowers : pc[b] = "locking"}
Waiting == {b \in Borrowers : pc[b] = "waiting"}
Holding == {b \in Borrowers : pc[b] = "holding"}
Items(q) == {q[i] : i \in 1 .. Len(q)}
-----------------------------------------------------------------------------
\* init(): any number of objects are created and pushed, none if bufferNums
\* is 0 or getInitApi() gives nothing.
Init ==
  /\ made \in SUBSET Apis
  /\ apis_ \in [1 .. Cardinality(made) -> made]
  /\ Items(apis_) = made
  /\ pc = [b \in Borrowers |-> "idle"]
  /\ api_ = [b \in Borrowers |-> NoApi]

\* The constructor of ApiWrapper calls borrowBufferedApi().
Call(b) ==
  /\ pc[b] = "idle"
  /\ pc' = [pc EXCEPT ![b] = "locking"]
  /\ UNCHANGED <<apis_, api_, made>>

\* The wait predicate fails.
Block(b) ==
  /\ pc[b] = "locking"
  /\ apis_ = <<>>
  /\ pc' = [pc EXCEPT ![b] = "waiting"]
  /\ UNCHANGED <<apis_, api_, made>>

\* Mutant of Take: the object is not removed from apis_.
TakeCopy(b) ==
  /\ pc[b] = "locking"
  /\ apis_ # <<>>
  /\ api_' = [api_ EXCEPT ![b] = Head(apis_)]
  /\ apis_' = apis_
  /\ pc' = [pc EXCEPT ![b] = "holding"]
  /\ UNCHANGED made

Take(b) ==
  /\ pc[b] = "locking"
  /\ apis_ # <<>>
  /\ api_' = [api_ EXCEPT ![b] = Head(apis_)]
  /\ apis_' = Tail(apis_)
  /\ pc' = [pc EXCEPT ![b] = "holding"]
  /\ UNCHANGED made

SpuriousWakeup(b) ==
  /\ pc[b] = "waiting"
  /\ pc' = [pc EXCEPT ![b] = "locking"]
  /\ UNCHANGED <<apis_, api_, made>>

\* Mutant of NotifiesOnOffer: notify only when the list already has objects.
NotifiesWhenNotEmpty == apis_ # <<>>

\* offerBufferedApi() wakes a borrower only if the list was empty.
NotifiesOnOffer == apis_ = <<>>

\* ~ApiWrapper() offers the object; bufferFull_.notify_one() under lock_.
Offer(b) ==
  /\ pc[b] = "holding"
  /\ apis_' = Append(apis_, api_[b])
  /\ api_' = [api_ EXCEPT ![b] = NoApi]
  /\ IF NotifiesOnOffer /\ Waiting # {}
     THEN \E v \in Waiting : pc' = [pc EXCEPT ![b] = "idle", ![v] = "locking"]
     ELSE pc' = [pc EXCEPT ![b] = "idle"]
  /\ UNCHANGED made

Next ==
  \E b \in Borrowers :
    Call(b) \/ Block(b) \/ Take(b) \/ SpuriousWakeup(b) \/ Offer(b)

Spec == Init /\ [][Next]_vars
-----------------------------------------------------------------------------
\* Each variable keeps to its type, and exactly the holders have an object.
TypeOK ==
  /\ apis_ \in Seq(Apis)
  /\ made \in SUBSET Apis
  /\ pc \in [Borrowers -> {"idle", "locking", "waiting", "holding"}]
  /\ api_ \in [Borrowers -> Apis \cup {NoApi}]
  /\ \A b \in Borrowers : api_[b] # NoApi <=> pc[b] = "holding"

\* An object is lent to one borrower at a time and never lost: it is in the
\* list once, or one wrapper holds it, and not both.
ExclusiveLoan ==
  /\ \A i, j \in 1 .. Len(apis_) : apis_[i] = apis_[j] => i = j
  /\ \A a, b \in Holding : api_[a] = api_[b] => a = b
  /\ Items(apis_) \cap {api_[b] : b \in Holding} = {}
  /\ Items(apis_) \cup {api_[b] : b \in Holding} = made

\* What the wait predicate of borrowBufferedApi says a blocked borrower waits
\* for: while objects lie in apis_, a blocked borrower has at least a fellow
\* that is awake and about to take one.  From two objects on it needs every
\* offer to notify; the code's test of apis_.empty() is only enough for one.
NoStrandedWaiter == Waiting # {} /\ apis_ # <<>> => Locking # {}
One == Cardinality(made) = 1
OneObjectServed == One => NoStrandedWaiter
=============================================================================
