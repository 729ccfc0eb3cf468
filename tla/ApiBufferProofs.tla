--------------------------- MODULE ApiBufferProofs ---------------------------
(***************************************************************************)
(* Invariants of ApiBuffer for any number of objects and borrowers.        *)
(***************************************************************************)
EXTENDS ApiBuffer, FiniteSetTheorems, FunctionTheorems, TLAPS

LEMMA MadeFinite ==
  ASSUME made \in SUBSET Apis
  PROVE  IsFiniteSet(made) /\ Cardinality(made) \in Nat
BY ApiAssumption, FS_Subset, FS_CardinalityType

\* init() pushes every object once: as many places as objects, and each object
\* in one of them.
LEMMA InitDistinct ==
  ASSUME Init
  PROVE  \A i, j \in 1 .. Len(apis_) : apis_[i] = apis_[j] => i = j
<1> DEFINE n == Cardinality(made)
<1>1. n \in Nat
  BY MadeFinite DEF Init
<1>2. apis_ \in [1 .. n -> made] /\ Items(apis_) = made
  BY DEF Init
<1>3. Len(apis_) = n /\ apis_ \in Seq(made)
  BY <1>1, <1>2
<1>4. apis_ \in Surjection(1 .. n, made)
  BY <1>2, <1>3, Fun_IsSurj DEF Items
<1>5. IsFiniteSet(1 .. n) /\ Cardinality(1 .. n) = n
  BY <1>1, FS_Interval
<1>6. apis_ \in Injection(1 .. n, made)
  BY <1>4, <1>5, FS_SurjSameCardinalityImpliesInj
<1>7. QED
  BY <1>3, <1>6 DEF Injection, IsInjective

LEMMA InitOK == Init => TypeOK /\ ExclusiveLoan
<1> SUFFICES ASSUME Init PROVE TypeOK /\ ExclusiveLoan
  OBVIOUS
<1>1. made \in SUBSET Apis /\ Cardinality(made) \in Nat
  BY MadeFinite DEF Init
<1>2. TypeOK
  BY <1>1, ApiAssumption DEF Init, TypeOK
<1>3. ExclusiveLoan
  BY InitDistinct DEF Init, ExclusiveLoan, Holding
<1>4. QED
  BY <1>2, <1>3

\* What a step does to the list and the wrappers, whom it wakes left aside.
LEMMA StepCases ==
  ASSUME TypeOK, NEW b \in Borrowers,
         Call(b) \/ Block(b) \/ Take(b) \/ SpuriousWakeup(b) \/ Offer(b)
  PROVE  \/ /\ UNCHANGED <<apis_, api_, made>>
            /\ pc' \in [Borrowers -> {"idle", "locking", "waiting", "holding"}]
            /\ Holding' = Holding
         \/ /\ Take(b) /\ UNCHANGED made
            /\ pc' \in [Borrowers -> {"idle", "locking", "waiting", "holding"}]
            /\ Holding' = Holding \cup {b} /\ b \notin Holding
         \/ /\ Offer(b) /\ UNCHANGED made
            /\ pc' \in [Borrowers -> {"idle", "locking", "waiting", "holding"}]
            /\ Holding' = Holding \ {b} /\ b \in Holding
<1>1. CASE Call(b) \/ Block(b) \/ SpuriousWakeup(b)
  BY <1>1 DEF Call, Block, SpuriousWakeup, Holding, TypeOK
<1>2. CASE Take(b)
  BY <1>2 DEF Take, Holding, TypeOK
<1>3. CASE Offer(b)
  <2>1. pc[b] = "holding"
    BY <1>3 DEF Offer
  <2>2. CASE NotifiesOnOffer /\ Waiting # {}
    <3>1. PICK v \in Waiting : pc' = [pc EXCEPT ![b] = "idle", ![v] = "locking"]
      BY <1>3, <2>2 DEF Offer
    <3>2. UNCHANGED made
      BY <1>3 DEF Offer
    <3>3. QED
      BY <1>3, <2>1, <3>1, <3>2 DEF Holding, Waiting, TypeOK
  <2>3. CASE ~(NotifiesOnOffer /\ Waiting # {})
    <3>1. pc' = [pc EXCEPT ![b] = "idle"]
      BY <1>3, <2>3 DEF Offer
    <3>2. UNCHANGED made
      BY <1>3 DEF Offer
    <3>3. QED
      BY <1>3, <2>1, <3>1, <3>2 DEF Holding, TypeOK
  <2>4. QED
    BY <2>2, <2>3
<1>4. QED
  BY <1>1, <1>2, <1>3

LEMMA NextOK == TypeOK /\ ExclusiveLoan /\ [Next]_vars => TypeOK' /\ ExclusiveLoan'
<1> SUFFICES ASSUME TypeOK, ExclusiveLoan, [Next]_vars
             PROVE  TypeOK' /\ ExclusiveLoan'
  OBVIOUS
<1>1. CASE UNCHANGED vars
  <2>1. /\ apis_' = apis_ /\ pc' = pc /\ api_' = api_ /\ made' = made
        /\ Holding' = Holding
    BY <1>1 DEF vars, Holding
  <2>2. TypeOK'
    BY <2>1 DEF TypeOK
  <2>3. ExclusiveLoan'
    <3>1. Items(apis_') = Items(apis_)
      BY <2>1
    <3>2. {api_'[h] : h \in Holding'} = {api_[h] : h \in Holding}
      BY <2>1
    <3>3. QED
      BY <2>1, <3>1, <3>2 DEF ExclusiveLoan
  <2>4. QED
    BY <2>2, <2>3
<1>2. ASSUME NEW b \in Borrowers,
             Call(b) \/ Block(b) \/ Take(b) \/ SpuriousWakeup(b) \/ Offer(b)
      PROVE  TypeOK' /\ ExclusiveLoan'
  <2>1. CASE /\ UNCHANGED <<apis_, api_, made>>
             /\ pc' \in [Borrowers -> {"idle", "locking", "waiting", "holding"}]
             /\ Holding' = Holding
    BY <2>1 DEF TypeOK, ExclusiveLoan, Holding, Items
  <2>2. CASE /\ Take(b) /\ UNCHANGED made
             /\ pc' \in [Borrowers -> {"idle", "locking", "waiting", "holding"}]
             /\ Holding' = Holding \cup {b} /\ b \notin Holding
    <3> DEFINE a == Head(apis_)
    <3>1. /\ apis_ \in Seq(Apis) /\ apis_ # <<>> /\ a \in Apis
          /\ apis_' = Tail(apis_) /\ api_' = [api_ EXCEPT ![b] = a]
          /\ apis_' \in Seq(Apis)
      BY <2>2 DEF Take, TypeOK
    <3>2. /\ Len(apis_') = Len(apis_) - 1 /\ Len(apis_) \in Nat \ {0}
          /\ \A i \in 1 .. Len(apis_') : apis_'[i] = apis_[i + 1]
          /\ a = apis_[1]
      BY <3>1
    <3>3. TypeOK'
      BY <2>2, <3>1, ApiAssumption DEF TypeOK, Holding
    <3>4. /\ api_'[b] = a
          /\ \A h \in Holding : api_'[h] = api_[h]
      BY <2>2, <3>1 DEF TypeOK, Holding
    <3>5. /\ Items(apis_) = Items(apis_') \cup {a}
          /\ a \notin Items(apis_')
      <4>1. \A x \in Items(apis_) : x = a \/ x \in Items(apis_')
        <5> SUFFICES ASSUME NEW i \in 1 .. Len(apis_), apis_[i] # a
                     PROVE  apis_[i] \in Items(apis_')
          BY DEF Items
        <5>1. i - 1 \in 1 .. Len(apis_') /\ apis_'[i - 1] = apis_[i]
          BY <3>2
        <5>2. QED
          BY <5>1 DEF Items
      <4>2. Items(apis_') \subseteq Items(apis_) /\ a \in Items(apis_)
        BY <3>2 DEF Items
      <4>3. a \notin Items(apis_')
        BY <3>2 DEF Items, ExclusiveLoan
      <4>4. QED
        BY <4>1, <4>2, <4>3
    <3>6. \A i, j \in 1 .. Len(apis_') : apis_'[i] = apis_'[j] => i = j
      <4> SUFFICES ASSUME NEW i \in 1 .. Len(apis_'), NEW j \in 1 .. Len(apis_'),
                          apis_'[i] = apis_'[j]
                   PROVE  i = j
        OBVIOUS
      <4>1. apis_[i + 1] = apis_[j + 1] /\ i + 1 \in 1 .. Len(apis_)
            /\ j + 1 \in 1 .. Len(apis_)
        BY <3>2
      <4>2. i + 1 = j + 1
        BY <4>1 DEF ExclusiveLoan
      <4>3. QED
        BY <4>2
    <3>7. {api_'[h] : h \in Holding'} = {api_[h] : h \in Holding} \cup {a}
      BY <2>2, <3>4
    <3>8. /\ Items(apis_) \cap {api_[h] : h \in Holding} = {}
          /\ Items(apis_) \cup {api_[h] : h \in Holding} = made
          /\ \A h, g \in Holding : api_[h] = api_[g] => h = g
      BY DEF ExclusiveLoan
    <3>9. /\ Items(apis_') \cap {api_'[h] : h \in Holding'} = {}
          /\ Items(apis_') \cup {api_'[h] : h \in Holding'} = made'
      BY <2>2, <3>5, <3>7, <3>8
    <3>10. \A h, g \in Holding' : api_'[h] = api_'[g] => h = g
      BY <2>2, <3>4, <3>5, <3>8
    <3>11. QED
      BY <3>3, <3>6, <3>9, <3>10 DEF ExclusiveLoan, Items
  <2>3. CASE /\ Offer(b) /\ UNCHANGED made
             /\ pc' \in [Borrowers -> {"idle", "locking", "waiting", "holding"}]
             /\ Holding' = Holding \ {b} /\ b \in Holding
    <3> DEFINE a == api_[b]
    <3>1. /\ apis_ \in Seq(Apis) /\ a \in Apis
          /\ apis_' = Append(apis_, a) /\ api_' = [api_ EXCEPT ![b] = NoApi]
          /\ apis_' \in Seq(Apis)
      BY <2>3 DEF Offer, Holding, TypeOK
    <3>2. /\ Len(apis_') = Len(apis_) + 1 /\ Len(apis_) \in Nat
          /\ \A i \in 1 .. Len(apis_) : apis_'[i] = apis_[i]
          /\ apis_'[Len(apis_')] = a
      BY <3>1
    <3>3. TypeOK'
      BY <2>3, <3>1 DEF TypeOK, Holding
    <3>4. \A h \in Holding' : api_'[h] = api_[h]
      BY <2>3, <3>1 DEF TypeOK, Holding
    <3>5. /\ Items(apis_) \cap {api_[h] : h \in Holding} = {}
          /\ Items(apis_) \cup {api_[h] : h \in Holding} = made
          /\ \A h, g \in Holding : api_[h] = api_[g] => h = g
      BY DEF ExclusiveLoan
    <3>6. a \notin Items(apis_)
      BY <2>3, <3>5
    <3>7. Items(apis_') = Items(apis_) \cup {a}
      <4>1. Items(apis_') \subseteq Items(apis_) \cup {a}
        BY <3>2 DEF Items
      <4>2. Items(apis_) \subseteq Items(apis_')
        <5> SUFFICES ASSUME NEW i \in 1 .. Len(apis_)
                     PROVE  apis_[i] \in Items(apis_')
          BY DEF Items
        <5>1. i \in 1 .. Len(apis_') /\ apis_'[i] = apis_[i]
          BY <3>2
        <5>2. QED
          BY <5>1 DEF Items
      <4>3. Len(apis_') \in 1 .. Len(apis_')
        BY <3>2
      <4>4. a \in Items(apis_')
        BY <3>2, <4>3 DEF Items
      <4>5. QED
        BY <4>1, <4>2, <4>4
    <3>8. \A i, j \in 1 .. Len(apis_') : apis_'[i] = apis_'[j] => i = j
      BY <3>2, <3>6 DEF ExclusiveLoan, Items
    <3>9. {api_'[h] : h \in Holding'} \cup {a} = {api_[h] : h \in Holding}
      BY <2>3, <3>4
    <3>10. a \notin {api_'[h] : h \in Holding'}
      BY <2>3, <3>4, <3>5
    <3>11. /\ Items(apis_') \cap {api_'[h] : h \in Holding'} = {}
           /\ Items(apis_') \cup {api_'[h] : h \in Holding'} = made'
      <4>1. \A x \in {api_'[h] : h \in Holding'} : x \in {api_[h] : h \in Holding} /\ x # a
        BY <3>9, <3>10
      <4>2. \A x : x \in Items(apis_') => x \in Items(apis_) \/ x = a
        BY <3>7
      <4>3. Items(apis_') \cap {api_'[h] : h \in Holding'} = {}
        BY <3>5, <4>1, <4>2
      <4>4. made' = made
        BY <2>3
      <4>5. Items(apis_') \cup {api_'[h] : h \in Holding'} = made
        BY <3>5, <3>7, <3>9
      <4>6. QED
        BY <4>3, <4>4, <4>5
    <3>12. \A h, g \in Holding' : api_'[h] = api_'[g] => h = g
      BY <2>3, <3>4, <3>5
    <3>13. QED
      BY <3>3, <3>8, <3>11, <3>12 DEF ExclusiveLoan, Items
  <2>4. QED
    BY <1>2, <2>1, <2>2, <2>3, StepCases
<1>3. QED
  BY <1>1, <1>2 DEF Next

LEMMA AlwaysOK == Spec => [](TypeOK /\ ExclusiveLoan)
BY InitOK, NextOK, PTL DEF Spec

\* The type invariant holds in every behaviour.
THEOREM TypeCorrect == Spec => []TypeOK
BY AlwaysOK, PTL

\* Objects are lent to one borrower at a time and never lost, however many
\* objects and borrowers there are.
THEOREM LoansExclusive == Spec => []ExclusiveLoan
BY AlwaysOK, PTL

\* With one object the list is empty while somebody holds it.
LEMMA HeldAlone ==
  ASSUME TypeOK, ExclusiveLoan, One
  PROVE  Len(apis_) <= 1 /\ (Holding # {} => apis_ = <<>>)
<1>1. PICK a : made = {a}
  BY MadeFinite, FS_Singleton DEF TypeOK, One
<1>2. apis_ \in Seq(Apis) /\ Len(apis_) \in Nat
  BY DEF TypeOK
<1>3. \A i \in 1 .. Len(apis_) : apis_[i] = a
  BY <1>1, <1>2 DEF ExclusiveLoan, Items
<1>4. Len(apis_) <= 1
  <2> SUFFICES ASSUME Len(apis_) > 1 PROVE FALSE
    BY <1>2
  <2>1. 1 \in 1 .. Len(apis_) /\ 2 \in 1 .. Len(apis_)
    BY <1>2
  <2>2. apis_[1] = apis_[2]
    BY <1>3, <2>1
  <2>3. QED
    BY <2>1, <2>2 DEF ExclusiveLoan
<1>5. ASSUME NEW b \in Holding PROVE apis_ = <<>>
  <2>1. b \in Borrowers /\ pc[b] = "holding"
    BY <1>5 DEF Holding
  <2>2. api_[b] = a
    BY <1>1, <1>5 DEF ExclusiveLoan
  <2>3. a \notin Items(apis_)
    BY <1>5, <2>2 DEF ExclusiveLoan
  <2>4. Len(apis_) = 0
    <3> SUFFICES ASSUME Len(apis_) # 0 PROVE FALSE
      OBVIOUS
    <3>1. 1 \in 1 .. Len(apis_)
      BY <1>2
    <3>2. QED
      BY <1>3, <2>3, <3>1 DEF Items
  <2>5. QED
    BY <1>2, <2>4
<1>6. QED
  BY <1>4, <1>5

\* With one object the notification into an empty list is enough: a borrower
\* is never left asleep beside it, however many there are.
THEOREM OneObjectNoStranding == Spec => []OneObjectServed
<1>1. Init => OneObjectServed
  BY DEF Init, OneObjectServed, NoStrandedWaiter, Waiting
<1>2. TypeOK /\ ExclusiveLoan /\ OneObjectServed /\ [Next]_vars
        => OneObjectServed'
  <2> SUFFICES ASSUME TypeOK, ExclusiveLoan, [Next]_vars, One, NoStrandedWaiter
               PROVE  NoStrandedWaiter'
    <3>1. [Next]_vars => made' = made
      BY DEF Next, Call, Block, Take, SpuriousWakeup, Offer, vars
    <3>2. QED
      BY <3>1 DEF OneObjectServed, One
  <2>1. CASE UNCHANGED vars
    BY <2>1 DEF vars, NoStrandedWaiter, Waiting, Locking
  <2>2. ASSUME NEW b \in Borrowers, Call(b) \/ SpuriousWakeup(b)
        PROVE  NoStrandedWaiter'
    <3>1. pc'[b] = "locking"
      BY <2>2 DEF Call, SpuriousWakeup, TypeOK
    <3>2. QED
      BY <3>1 DEF NoStrandedWaiter, Locking
  <2>3. ASSUME NEW b \in Borrowers, Block(b) PROVE NoStrandedWaiter'
    BY <2>3 DEF Block, NoStrandedWaiter
  <2>4. ASSUME NEW b \in Borrowers, Take(b) PROVE NoStrandedWaiter'
    <3>1. /\ apis_ \in Seq(Apis) /\ apis_ # <<>> /\ Len(apis_) <= 1
          /\ apis_' = Tail(apis_)
      BY <2>4, HeldAlone DEF Take, TypeOK
    <3>2. apis_' = <<>>
      BY <3>1
    <3>3. QED
      BY <3>2 DEF NoStrandedWaiter
  <2>5. ASSUME NEW b \in Borrowers, Offer(b) PROVE NoStrandedWaiter'
    <3>1. b \in Holding
      BY <2>5 DEF Offer, Holding
    <3>2. NotifiesOnOffer
      BY <3>1, HeldAlone DEF NotifiesOnOffer
    <3>3. CASE Waiting = {}
      <4>1. pc' = [pc EXCEPT ![b] = "idle"]
        BY <2>5, <3>3 DEF Offer
      <4>2. QED
        BY <3>3, <4>1 DEF NoStrandedWaiter, Waiting, TypeOK
    <3>4. CASE Waiting # {}
      <4>1. PICK v \in Waiting : pc' = [pc EXCEPT ![b] = "idle", ![v] = "locking"]
        BY <2>5, <3>2, <3>4 DEF Offer
      <4>2. v \in Borrowers /\ pc'[v] = "locking"
        BY <4>1 DEF Waiting, TypeOK
      <4>3. QED
        BY <4>2 DEF NoStrandedWaiter, Locking
    <3>5. QED
      BY <3>3, <3>4
  <2>6. QED
    BY <2>1, <2>2, <2>3, <2>4, <2>5 DEF Next
<1>3. QED
  BY <1>1, <1>2, AlwaysOK, PTL DEF Spec
=============================================================================
