--------------------------- MODULE RedisPoolProofs ---------------------------
(***************************************************************************)
(* Invariants of RedisPool for any sizes and any set of guards.            *)
(***************************************************************************)
EXTENDS RedisPool, FiniteSetTheorems, SequenceTheorems, TLAPS

\* Whatever a command does to a connection, it stays one.
LEMMA CommandType ==
  ASSUME NEW c \in Control
  PROVE  Succeeded(c) \subseteq Control /\ Failed(c) \subseteq Control
<1>1. Reconnected(c) \in Control
  BY DEF Control, Reconnected
<1>2. Sendable(c) \subseteq Control
  BY <1>1 DEF Sendable, Control
<1>3. \A s \in Control : Broken(s) \subseteq Control
  BY DEF Broken, Control
<1>4. Succeeded(c) \subseteq Control
  BY <1>2 DEF Succeeded
<1>5. FailedSent(c) \subseteq Control
  BY <1>2, <1>3 DEF FailedSent
<1>6. FailedUnsent(c) \subseteq Control
  BY <1>3 DEF FailedUnsent, Control
<1>7. QED
  BY <1>4, <1>5, <1>6 DEF Failed

\* A sum that is bounded stays so when one part shrinks, and when the other
\* grows by as much.
LEMMA SumBound ==
  ASSUME NEW i \in Nat, NEW j \in Nat, NEW a \in Nat, NEW n \in Nat, j + a <= n
  PROVE  /\ i <= j => i + a <= n
         /\ i < j => i + (a + 1) <= n
OBVIOUS

LEMMA ConnectedType == Connected \in Control
BY DEF Connected, Control

LEMMA StampedType ==
  ASSUME NEW c \in Control
  PROVE  Stamped(c) \in Control /\ Stamped(c).stamp = "recent"
BY DEF Stamped, Control

\* A loan adds its guard to Lent, a return takes it out.
LEMMA LentCount ==
  /\ IsFiniteSet(Lent) /\ Cardinality(Lent) \in Nat
  /\ \A g \in Guards :
       /\ Cardinality(Lent \cup {g})
            = IF g \in Lent THEN Cardinality(Lent) ELSE Cardinality(Lent) + 1
       /\ Cardinality(Lent \ {g})
            = IF g \in Lent THEN Cardinality(Lent) - 1 ELSE Cardinality(Lent)
<1>1. IsFiniteSet(Lent)
  BY PoolAssumption, FS_Subset DEF Lent
<1>2. QED
  BY <1>1, FS_CardinalityType, FS_AddElement, FS_RemoveElement

\* While a connection from the start is idle, none has been opened that would
\* have to be counted beside the initial ones.
UnsetOnlyAtFirst ==
  (\E i \in 1 .. Idle : contextPool_[i].stamp = "unset")
    => Idle + activeSize_ <= InitialSize

IInv == TypeOK /\ PoolBounded /\ LoansCounted /\ UnsetOnlyAtFirst

LEMMA IInvInit == Init => IInv
<1> SUFFICES ASSUME Init PROVE IInv
  OBVIOUS
<1>1. PICK n \in 0 .. InitialSize : contextPool_ = [i \in 1 .. n |-> Connected]
  BY DEF Init
<1>2. n \in Nat /\ n <= InitialSize /\ InitialSize \in Nat /\ MaxSize \in Nat
  BY PoolAssumption
<1>3. contextPool_ \in Seq(Control) /\ Idle = n
  BY <1>1, <1>2, ConnectedType DEF Idle
<1>4. Lent = {} /\ Cardinality({}) = 0
  BY FS_EmptySet DEF Init, Lent
<1>5. reaper \in BOOLEAN /\ strayed \in BOOLEAN /\ doubled \in BOOLEAN
  BY DEF Init
<1>6. activeSize_ = 0 /\ reepInx_ = 0
  BY DEF Init
<1>7. redisControl_ \in [Guards -> Control \cup {NoControl}]
  BY DEF Init
<1>8. TypeOK
  BY <1>3, <1>5, <1>6, <1>7 DEF TypeOK
<1>9. PoolBounded /\ UnsetOnlyAtFirst
  BY <1>2, <1>3, <1>6 DEF PoolBounded, Larger, UnsetOnlyAtFirst
<1>10. LoansCounted
  BY <1>4, <1>6 DEF LoansCounted
<1>11. QED
  BY <1>8, <1>9, <1>10 DEF IInv

LEMMA GetControlStep ==
  ASSUME IInv, NEW g \in Guards, GetControl(g)
  PROVE  IInv'
<1>1. /\ contextPool_ \in Seq(Control) /\ Idle \in Nat /\ activeSize_ \in Nat
      /\ redisControl_ \in [Guards -> Control \cup {NoControl}]
      /\ MaxSize \in Nat /\ InitialSize \in Nat /\ NoControl \notin Control
  BY PoolAssumption DEF IInv, TypeOK, Idle
<1>2. /\ UNCHANGED <<reepInx_, reaper, strayed>>
      /\ doubled' \in BOOLEAN
      /\ ~doubled' => ~doubled /\ g \notin Lent
  BY DEF GetControl, IInv, TypeOK
<1>3. CASE GetNothing(g)
  <2>1. /\ redisControl_' = [redisControl_ EXCEPT ![g] = NoControl]
        /\ contextPool_' = <<>> /\ activeSize_' = activeSize_
    BY <1>3 DEF GetNothing
  <2>2. TypeOK'
    BY <1>1, <1>2, <2>1 DEF IInv, TypeOK
  <2>3. Idle' = 0
    BY <2>1 DEF Idle
  <2>4. PoolBounded' /\ UnsetOnlyAtFirst'
    BY <1>1, <2>1, <2>3 DEF IInv, PoolBounded, Larger, UnsetOnlyAtFirst
  <2>5. Lent' = Lent \ {g}
    BY <1>1, <2>1 DEF Lent
  <2>6. ~doubled' => ~doubled /\ g \notin Lent
    BY <1>2
  <2>7. LoansCounted'
    <3>1. /\ Cardinality(Lent) \in Nat /\ Cardinality(Lent) <= activeSize_
          /\ ~doubled => activeSize_ = Cardinality(Lent)
      BY LentCount DEF IInv, LoansCounted
    <3>2. /\ Cardinality(Lent') <= Cardinality(Lent)
          /\ ~doubled' => Cardinality(Lent') = Cardinality(Lent)
      <4>1. CASE g \in Lent
        BY <2>5, <2>6, <3>1, <4>1, LentCount
      <4>2. CASE g \notin Lent
        <5>1. Lent' = Lent
          BY <2>5, <4>2
        <5>2. QED
          BY <3>1, <5>1
      <4>3. QED
        BY <4>1, <4>2
    <3>3. Cardinality(Lent') \in Nat
      BY <2>5, LentCount, FS_RemoveElement, FS_CardinalityType
    <3>4. Cardinality(Lent') <= activeSize_'
      BY <1>1, <2>1, <3>1, <3>2, <3>3
    <3>5. ASSUME ~doubled' PROVE activeSize_' = Cardinality(Lent')
      BY <2>1, <2>6, <3>1, <3>2, <3>5
    <3>6. QED
      BY <3>4, <3>5 DEF LoansCounted
  <2>8. QED
    BY <2>2, <2>4, <2>7 DEF IInv
<1>4. ASSUME GetIdle(g) \/ GetNew(g) PROVE IInv'
  <2>1. PICK c \in Control : redisControl_' = [redisControl_ EXCEPT ![g] = c]
    <3>1. CASE GetNew(g)
      BY <3>1, ConnectedType DEF GetNew
    <3>2. CASE GetIdle(g)
      <4>1. PICK n \in 0 .. Idle - 1 :
              \E c \in Succeeded(contextPool_[n + 1]) :
                redisControl_' = [redisControl_ EXCEPT ![g] = c]
        BY <3>2 DEF GetIdle
      <4>2. contextPool_[n + 1] \in Control
        BY <1>1 DEF Idle
      <4>3. QED
        BY <4>1, <4>2, CommandType
    <3>3. QED
      BY <1>4, <3>1, <3>2
  <2>2. activeSize_' = activeSize_ + 1
    BY <1>4 DEF GetIdle, GetNew
  <2>3. /\ contextPool_' \in Seq(Control)
        /\ \/ Idle' = 0 /\ activeSize_ < MaxSize
           \/ /\ Idle' < Idle
              /\ \A i \in 1 .. Idle' :
                   \E j \in 1 .. Idle : contextPool_'[i] = contextPool_[j]
    <3>1. CASE GetNew(g)
      BY <3>1 DEF GetNew, CanCreate, Idle
    <3>2. CASE GetIdle(g)
      <4>1. PICK n \in 0 .. Idle - 1 : contextPool_' = SubSeq(contextPool_, n + 2, Idle)
        BY <3>2 DEF GetIdle
      <4>2. /\ contextPool_' \in Seq(Control)
            /\ Idle' = Idle - (n + 1)
            /\ \A i \in 1 .. Idle' : contextPool_'[i] = contextPool_[i + n + 1]
        BY <1>1, <4>1 DEF Idle
      <4>3. \A i \in 1 .. Idle' : i + n + 1 \in 1 .. Idle
        BY <1>1, <4>1, <4>2
      <4>4. Idle' < Idle
        BY <1>1, <4>1, <4>2
      <4>5. QED
        BY <4>2, <4>3, <4>4
    <3>3. QED
      BY <1>4, <3>1, <3>2
  <2>4. Idle' \in Nat
    BY <2>3 DEF Idle
  <2>5. TypeOK'
    BY <1>1, <1>2, <2>1, <2>2, <2>3 DEF IInv, TypeOK
  <2>6. PoolBounded'
    <3>1. Idle + activeSize_ <= Larger /\ Larger \in Nat /\ MaxSize <= Larger
      BY <1>1 DEF IInv, PoolBounded, Larger
    <3>2. Idle' + activeSize_' <= Larger
      <4>1. (Idle' = 0 /\ activeSize_ < MaxSize) \/ Idle' < Idle
        BY <2>3
      <4>2. CASE Idle' = 0 /\ activeSize_ < MaxSize
        BY <1>1, <2>2, <3>1, <4>2
      <4>3. CASE Idle' < Idle
        BY <1>1, <2>2, <2>4, <3>1, <4>3, SumBound
      <4>4. QED
        BY <4>1, <4>2, <4>3
    <3>3. QED
      BY <3>2 DEF PoolBounded, Larger
  <2>7. UnsetOnlyAtFirst'
    <3> SUFFICES ASSUME NEW i \in 1 .. Idle', contextPool_'[i].stamp = "unset"
                 PROVE  Idle' + activeSize_' <= InitialSize
      BY DEF UnsetOnlyAtFirst
    <3>1. Idle' < Idle /\ \E j \in 1 .. Idle : contextPool_'[i] = contextPool_[j]
      <4>1. Idle' # 0
        BY <2>4
      <4>2. QED
        BY <2>3, <4>1
    <3>2. \E j \in 1 .. Idle : contextPool_[j].stamp = "unset"
      BY <3>1
    <3>3. Idle + activeSize_ <= InitialSize
      BY <3>2 DEF IInv, UnsetOnlyAtFirst
    <3>4. QED
      BY <1>1, <2>2, <2>4, <3>1, <3>3, SumBound
  <2>8. Lent' = Lent \cup {g}
    BY <1>1, <2>1 DEF Lent
  <2>9. ~doubled' => ~doubled /\ g \notin Lent
    BY <1>2
  <2>10. LoansCounted'
    <3>1. /\ Cardinality(Lent) \in Nat /\ Cardinality(Lent) <= activeSize_
          /\ ~doubled => activeSize_ = Cardinality(Lent)
      BY LentCount DEF IInv, LoansCounted
    <3>2. /\ Cardinality(Lent') \in Nat
          /\ Cardinality(Lent') <= Cardinality(Lent) + 1
          /\ ~doubled' => Cardinality(Lent') = Cardinality(Lent) + 1
      BY <2>8, <2>9, <3>1, LentCount
    <3>3. Cardinality(Lent') <= activeSize_'
      BY <1>1, <2>2, <3>1, <3>2
    <3>4. ASSUME ~doubled' PROVE activeSize_' = Cardinality(Lent')
      BY <2>2, <2>9, <3>1, <3>2, <3>4
    <3>5. QED
      BY <3>3, <3>4 DEF LoansCounted
  <2>11. QED
    BY <2>5, <2>6, <2>7, <2>10 DEF IInv
<1>5. QED
  BY <1>3, <1>4 DEF GetControl

LEMMA UseStep ==
  ASSUME IInv, NEW g \in Guards, Use(g)
  PROVE  IInv'
<1>1. /\ redisControl_ \in [Guards -> Control \cup {NoControl}]
      /\ g \in Lent /\ redisControl_[g] \in Control /\ NoControl \notin Control
  BY PoolAssumption DEF IInv, TypeOK, Use, Lent
<1>2. UNCHANGED <<contextPool_, activeSize_, reepInx_, reaper, doubled>>
  BY DEF Use
<1>3. PICK c \in Control : redisControl_' = [redisControl_ EXCEPT ![g] = c]
  BY <1>1, CommandType DEF Use
<1>4. strayed' \in BOOLEAN
  BY DEF Use, IInv, TypeOK
<1>5. Lent' = Lent
  BY <1>1, <1>3 DEF Lent
<1>6. TypeOK'
  BY <1>1, <1>2, <1>3, <1>4 DEF IInv, TypeOK
<1>7. QED
  BY <1>2, <1>5, <1>6
     DEF IInv, PoolBounded, Idle, LoansCounted, UnsetOnlyAtFirst

LEMMA ReturnControlStep ==
  ASSUME IInv, NEW g \in Guards, ReturnControl(g)
  PROVE  IInv'
<1> DEFINE returned == <<Stamped(redisControl_[g])>>
<1>1. /\ contextPool_ \in Seq(Control) /\ Idle \in Nat /\ activeSize_ \in Nat
      /\ redisControl_ \in [Guards -> Control \cup {NoControl}]
      /\ MaxSize \in Nat /\ InitialSize \in Nat
      /\ g \in Lent /\ redisControl_[g] \in Control
  BY PoolAssumption DEF IInv, TypeOK, Idle, ReturnControl, Lent
<1>2. /\ contextPool_' = returned \o contextPool_
      /\ activeSize_' = activeSize_ - 1
      /\ redisControl_' = [redisControl_ EXCEPT ![g] = NoControl]
      /\ UNCHANGED <<reepInx_, reaper, strayed, doubled>>
  BY DEF ReturnControl
<1>3. returned \in Seq(Control) /\ Len(returned) = 1
      /\ returned[1].stamp = "recent"
  BY <1>1, StampedType
<1>4. /\ contextPool_' \in Seq(Control)
      /\ Idle' = Idle + 1
      /\ contextPool_'[1].stamp = "recent"
      /\ \A i \in 2 .. Idle' : contextPool_'[i] = contextPool_[i - 1]
  BY <1>1, <1>2, <1>3, ConcatProperties DEF Idle
<1>5. Lent' = Lent \ {g}
  BY <1>1, <1>2 DEF Lent
<1>6. /\ Cardinality(Lent) \in Nat /\ Cardinality(Lent) <= activeSize_
      /\ ~doubled => activeSize_ = Cardinality(Lent)
      /\ Cardinality(Lent') = Cardinality(Lent) - 1
  BY <1>1, <1>5, LentCount DEF IInv, LoansCounted
<1>7. Cardinality(Lent') \in Nat
  BY <1>5, LentCount, FS_RemoveElement, FS_CardinalityType
<1>8. activeSize_' \in Nat /\ LoansCounted'
  BY <1>1, <1>2, <1>6, <1>7 DEF LoansCounted
<1>9. TypeOK'
  BY <1>1, <1>2, <1>4, <1>8 DEF IInv, TypeOK
<1>10. Idle' + activeSize_' = Idle + activeSize_
  BY <1>1, <1>2, <1>4
<1>11. PoolBounded'
  BY <1>10 DEF IInv, PoolBounded, Larger
<1>12. UnsetOnlyAtFirst'
  <2> SUFFICES ASSUME NEW i \in 1 .. Idle', contextPool_'[i].stamp = "unset"
               PROVE  Idle' + activeSize_' <= InitialSize
    BY DEF UnsetOnlyAtFirst
  <2>1. i # 1
    BY <1>4
  <2>2. i \in 2 .. Idle' /\ i - 1 \in 1 .. Idle
    BY <1>1, <1>4, <2>1
  <2>3. contextPool_[i - 1].stamp = "unset"
    BY <1>4, <2>2
  <2>4. QED
    BY <1>10, <2>2, <2>3 DEF IInv, UnsetOnlyAtFirst
<1>13. QED
  BY <1>8, <1>9, <1>11, <1>12 DEF IInv

\* A change of the idle list that neither lengthens it nor makes a stamp unset.
LEMMA IdleListStep ==
  ASSUME IInv, contextPool_' \in Seq(Control), Idle' <= Idle, reepInx_' \in Nat,
         \A i \in 1 .. Idle' : \E j \in 1 .. Idle :
           contextPool_'[i].stamp = "unset" => contextPool_[j].stamp = "unset",
         UNCHANGED <<activeSize_, reaper, redisControl_, strayed, doubled>>
  PROVE  IInv'
<1>1. /\ Idle \in Nat /\ Idle' \in Nat /\ activeSize_ \in Nat
      /\ InitialSize \in Nat /\ MaxSize \in Nat
  BY PoolAssumption DEF IInv, TypeOK, Idle
<1>2. TypeOK'
  BY DEF IInv, TypeOK
<1>3. PoolBounded'
  <2>1. Larger \in Nat /\ Idle + activeSize_ <= Larger
    BY <1>1 DEF IInv, PoolBounded, Larger
  <2>2. Idle' + activeSize_' <= Larger
    BY <1>1, <2>1, SumBound
  <2>3. QED
    BY <2>2 DEF PoolBounded, Larger
<1>4. UnsetOnlyAtFirst'
  <2> SUFFICES ASSUME NEW i \in 1 .. Idle', contextPool_'[i].stamp = "unset"
               PROVE  Idle' + activeSize_' <= InitialSize
    BY DEF UnsetOnlyAtFirst
  <2>1. \E j \in 1 .. Idle : contextPool_[j].stamp = "unset"
    OBVIOUS
  <2>2. Idle + activeSize_ <= InitialSize
    BY <2>1 DEF IInv, UnsetOnlyAtFirst
  <2>3. QED
    BY <1>1, <2>2, SumBound
<1>5. LoansCounted'
  BY DEF IInv, LoansCounted, Lent
<1>6. QED
  BY <1>2, <1>3, <1>4, <1>5 DEF IInv

\* A command leaves the age of a connection alone.
LEMMA CommandStamp ==
  ASSUME NEW c \in Control, NEW d \in Succeeded(c) \cup Failed(c)
  PROVE  d.stamp = c.stamp
<1>1. \A s \in Sendable(c) : s \in Control /\ s.stamp = c.stamp
  BY DEF Sendable, Reconnected, Control
<1>2. \A s \in Control : \A b \in Broken(s) : b.stamp = s.stamp
  BY DEF Broken, Control
<1>3. \A s \in Succeeded(c) : s.stamp = c.stamp
  BY <1>1 DEF Succeeded
<1>4. \A s \in FailedSent(c) : s.stamp = c.stamp
  BY <1>1, <1>2 DEF FailedSent
<1>5. \A s \in FailedUnsent(c) : s.stamp = c.stamp
  BY <1>2 DEF FailedUnsent, Control
<1>6. QED
  BY <1>3, <1>4, <1>5 DEF Failed

LEMMA ReepStep ==
  ASSUME IInv, Reep
  PROVE  IInv'
<1> DEFINE inx == (reepInx_ % Idle) + 1
           visited == contextPool_[inx]
           before == SubSeq(contextPool_, 1, inx - 1)
           after == SubSeq(contextPool_, inx + 1, Idle)
<1>1. /\ contextPool_ \in Seq(Control) /\ Idle \in Nat /\ Idle > 0
      /\ reepInx_ \in Nat
  BY PoolAssumption DEF IInv, TypeOK, Idle, Reep, Surplus
<1>2. inx \in 1 .. Idle /\ visited \in Control
  BY <1>1 DEF Idle
<1>3. reepInx_' \in Nat
  BY <1>1 DEF Reep
<1>4. UNCHANGED <<activeSize_, reaper, redisControl_, strayed, doubled>>
  BY DEF Reep
<1>5. \/ contextPool_' = before \o after
      \/ \E c \in Succeeded(visited) \cup Failed(visited) :
           contextPool_' = [contextPool_ EXCEPT ![inx] = c]
  BY DEF Reep
<1>6. CASE contextPool_' = before \o after
  <2>1. /\ before \in Seq(Control) /\ Len(before) = inx - 1
        /\ \A i \in 1 .. inx - 1 : before[i] = contextPool_[i]
    BY <1>1, <1>2 DEF Idle
  <2>2. /\ after \in Seq(Control) /\ Len(after) = Idle - inx
        /\ \A i \in 1 .. Idle - inx : after[i] = contextPool_[i + inx]
    <3>1. inx + 1 \in Int /\ Idle \in Int /\ inx \in Int
          /\ \A i \in inx + 1 .. Idle : contextPool_[i] \in Control
      BY <1>1, <1>2 DEF Idle
    <3>2. Idle - (inx + 1) + 1 = Idle - inx
          /\ (~(inx + 1 <= Idle) => Idle - inx = 0)
          /\ \A i \in 1 .. Idle - inx : inx + 1 + i - 1 = i + inx
      BY <1>1, <1>2
    <3> HIDE DEF inx
    <3>3. /\ SubSeq(contextPool_, inx + 1, Idle) \in Seq(Control)
          /\ Len(SubSeq(contextPool_, inx + 1, Idle))
               = IF inx + 1 <= Idle THEN Idle - (inx + 1) + 1 ELSE 0
          /\ \A i \in 1 .. Idle - (inx + 1) + 1 :
               SubSeq(contextPool_, inx + 1, Idle)[i]
                 = contextPool_[inx + 1 + i - 1]
      BY <3>1, SubSeqProperties
    <3>4. Len(after) = Idle - inx
      BY <3>2, <3>3
    <3>5. \A i \in 1 .. Idle - inx : after[i] = contextPool_[i + inx]
      BY <3>2, <3>3
    <3>6. QED
      BY <3>3, <3>4, <3>5
  <2>3. /\ contextPool_' \in Seq(Control) /\ Len(contextPool_') = Idle - 1
        /\ \A i \in 1 .. Idle - 1 :
             contextPool_'[i] = IF i <= inx - 1 THEN before[i]
                                ELSE after[i - (inx - 1)]
    <3>1. before \in Seq(Control) /\ after \in Seq(Control)
          /\ Len(before) = inx - 1
      BY <2>1, <2>2
    <3>2. Len(before) + Len(after) = Idle - 1
      BY <1>1, <1>2, <2>1, <2>2
    <3> HIDE DEF inx, before, after
    <3>3. /\ before \o after \in Seq(Control)
          /\ Len(before \o after) = Len(before) + Len(after)
          /\ \A i \in 1 .. Len(before) + Len(after) :
               (before \o after)[i] = IF i <= Len(before) THEN before[i]
                                      ELSE after[i - Len(before)]
      BY <3>1, ConcatProperties
    <3>4. QED
      BY <1>6, <3>1, <3>2, <3>3
  <2>4. ASSUME NEW i \in 1 .. Idle - 1
        PROVE  \E j \in 1 .. Idle : contextPool_'[i] = contextPool_[j]
    <3>1. CASE i <= inx - 1
      <4>1. i \in 1 .. inx - 1 /\ i \in 1 .. Idle
        BY <1>1, <1>2, <3>1
      <4>2. QED
        BY <2>1, <2>3, <3>1, <4>1
    <3>2. CASE ~(i <= inx - 1)
      <4>1. i - (inx - 1) \in 1 .. Idle - inx /\ i + 1 \in 1 .. Idle
        BY <1>1, <1>2, <3>2
      <4>2. i - (inx - 1) + inx = i + 1
        BY <1>1, <1>2
      <4>3. QED
        BY <2>2, <2>3, <3>2, <4>1, <4>2
    <3>3. QED
      BY <3>1, <3>2
  <2>5. Idle' = Idle - 1
    BY <2>3 DEF Idle
  <2>6. Idle' <= Idle
    BY <1>1, <2>5
  <2>7. QED
    BY <1>3, <1>4, <2>3, <2>4, <2>5, <2>6, IdleListStep
<1>7. ASSUME NEW c \in Succeeded(visited) \cup Failed(visited),
             contextPool_' = [contextPool_ EXCEPT ![inx] = c]
      PROVE  IInv'
  <2>1. c \in Control /\ c.stamp = visited.stamp
    BY <1>2, <1>7, CommandType, CommandStamp
  <2>2. contextPool_' \in Seq(Control) /\ Len(contextPool_') = Idle
    BY <1>1, <1>2, <1>7, <2>1 DEF Idle
  <2>3. \A i \in 1 .. Idle : contextPool_'[i].stamp = contextPool_[i].stamp
    BY <1>1, <1>2, <1>7, <2>1 DEF Idle
  <2>4. Idle' = Idle
    BY <2>2 DEF Idle
  <2>5. Idle' <= Idle
    BY <1>1, <2>4
  <2>6. QED
    BY <1>3, <1>4, <2>2, <2>3, <2>4, <2>5, IdleListStep
<1>8. QED
  BY <1>5, <1>6, <1>7

LEMMA TickStep ==
  ASSUME IInv, Tick
  PROVE  IInv'
<1>1. contextPool_ \in Seq(Control) /\ Idle \in Nat /\ reepInx_ \in Nat
  BY DEF IInv, TypeOK, Idle
<1> DEFINE aged(c) == [c EXCEPT !.stamp = IF @ = "unset" THEN @ ELSE "old"]
<1>2. \A c \in Control :
        aged(c) \in Control /\ (aged(c).stamp = "unset" => c.stamp = "unset")
  BY DEF Control
<1>3. contextPool_' = [i \in 1 .. Idle |-> aged(contextPool_[i])]
  BY DEF Tick
<1> HIDE DEF aged
<1>4. \A i \in 1 .. Idle : contextPool_[i] \in Control
  BY <1>1 DEF Idle
<1>5. contextPool_' \in Seq(Control) /\ Len(contextPool_') = Idle
  BY <1>1, <1>2, <1>3, <1>4
<1>6. Idle' = Idle
  BY <1>5 DEF Idle
<1>7. \A i \in 1 .. Idle' :
        contextPool_'[i].stamp = "unset" => contextPool_[i].stamp = "unset"
  BY <1>2, <1>3, <1>4, <1>6
<1>8. Idle' <= Idle
  BY <1>1, <1>6
<1>9. UNCHANGED <<activeSize_, reepInx_, reaper, redisControl_, strayed, doubled>>
  BY DEF Tick
<1>10. QED
  BY <1>1, <1>5, <1>6, <1>7, <1>8, <1>9, IdleListStep

LEMMA IInvAlways == Spec => []IInv
<1>1. IInv /\ [Next]_vars => IInv'
  <2> SUFFICES ASSUME IInv, [Next]_vars PROVE IInv'
    OBVIOUS
  <2>1. CASE UNCHANGED vars
    BY <2>1 DEF vars, IInv, TypeOK, PoolBounded, LoansCounted, Lent,
                UnsetOnlyAtFirst, Idle
  <2>2. QED
    BY <2>1, GetControlStep, UseStep, ReturnControlStep, ReepStep, TickStep DEF Next
<1>2. QED
  BY <1>1, IInvInit, PTL DEF Spec

\* The type invariant holds in every behaviour; activeSize_ is never negative.
THEOREM TypeCorrect == Spec => []TypeOK
<1>1. IInv => TypeOK
  BY DEF IInv
<1>2. QED
  BY <1>1, IInvAlways, PTL

\* The pool stays within the larger of its sizes, idle and lent together.
THEOREM Bounded == Spec => []PoolBounded
<1>1. IInv => PoolBounded
  BY DEF IInv
<1>2. QED
  BY <1>1, IInvAlways, PTL

\* activeSize_ counts the loans, exactly while no guard asks twice.
THEOREM Counted == Spec => []LoansCounted
<1>1. IInv => LoansCounted
  BY DEF IInv
<1>2. QED
  BY <1>1, IInvAlways, PTL

\* The reaper never decides on a last_access_ that was not written: an unset
\* stamp means the pool has no more than its initial connections.
THEOREM ReepInitialised == Spec => []ReepReadsInitialised
<1>1. IInv => ReepReadsInitialised
  <2> SUFFICES ASSUME IInv, Surplus, NEW i \in 1 .. Idle,
                      contextPool_[i].stamp = "unset"
               PROVE  FALSE
    BY DEF ReepReadsInitialised
  <2>1. Idle + activeSize_ <= InitialSize
    BY DEF IInv, UnsetOnlyAtFirst
  <2>2. Idle \in Nat /\ activeSize_ \in Nat /\ InitialSize \in Nat
    BY PoolAssumption DEF IInv, TypeOK, Idle
  <2>3. QED
    BY <2>1, <2>2 DEF Surplus
<1>2. QED
  BY <1>1, IInvAlways, PTL
=============================================================================
