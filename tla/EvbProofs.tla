------------------------------ MODULE EvbProofs ------------------------------
(***************************************************************************)
(* The parts of evb that share no state: the heartbeat, the parser and its *)
(* protocols, the connection inside its event-loop thread, and the fields  *)
(* of a message.                                                           *)
(***************************************************************************)
EXTENDS HeartBeat, HpvParser, HpvConn, FieldCodec, TLAPS

(* HeartBeat, for any set of addresses *)

\* What relates an entry to the connection at its address: an address without
\* entry counts nothing, a packet of the connection is noted, a note of a
\* predecessor's packet is used up by the first time-out, and the properties
\* proved below, for one address.
EntryOK(a) ==
  /\ ~hearts_[a].known => hearts_[a].failCnt = 0 /\ ~hearts_[a].recvPack
  /\ live[a] /\ heard[a] => hearts_[a].recvPack
  /\ live[a] /\ hearts_[a].recvPack /\ ~heard[a] => quiet[a] = 0
  /\ live[a] /\ own[a] => /\ hearts_[a].failCnt = quiet[a]
                          /\ hearts_[a].recvPack <=> heard[a]
  /\ live[a] => hearts_[a].failCnt >= quiet[a] - 1

HeartInv == TypeOK /\ \A a \in Addresses : EntryOK(a)

LEMMA HeartInvInit == Init => HeartInv
BY DEF Init, HeartInv, TypeOK, EntryOK, NoStat

\* A step at one address leaves the others alone.
LEMMA Elsewhere ==
  ASSUME TypeOK, NEW a \in Addresses, NEW b \in Addresses, b # a,
         Connect(a) \/ Delete(a) \/ UpdateHeartBeat(a) \/ Timeout(a)
  PROVE  /\ hearts_'[b] = hearts_[b] /\ live'[b] = live[b]
         /\ heard'[b] = heard[b] /\ quiet'[b] = quiet[b] /\ own'[b] = own[b]
BY DEF TypeOK, Connect, Delete, UpdateHeartBeat, Timeout

LEMMA HeartInvNext == HeartInv /\ [Next]_vars => HeartInv'
<1> SUFFICES ASSUME HeartInv, [Next]_vars PROVE HeartInv'
  OBVIOUS
<1>0. TypeOK /\ \A b \in Addresses : EntryOK(b)
  BY DEF HeartInv
<1>1. CASE UNCHANGED vars
  BY <1>1 DEF vars, HeartInv, TypeOK, EntryOK
<1>2. ASSUME NEW a \in Addresses,
             Connect(a) \/ Delete(a) \/ UpdateHeartBeat(a) \/ Timeout(a),
             TypeOK', EntryOK(a)'
      PROVE  HeartInv'
  <2>1. ASSUME NEW b \in Addresses, b # a PROVE EntryOK(b)'
    BY <1>0, <1>2, <2>1, Elsewhere DEF EntryOK
  <2>2. QED
    BY <1>2, <2>1 DEF HeartInv
<1>3. ASSUME NEW a \in Addresses, Connect(a) PROVE TypeOK' /\ EntryOK(a)'
  <2>1. TypeOK'
    BY <1>0, <1>3 DEF Connect, TypeOK
  <2>2. /\ hearts_'[a] = hearts_[a] /\ live'[a] /\ ~heard'[a]
        /\ quiet'[a] = 0 /\ (own'[a] <=> ~hearts_[a].known)
    BY <1>0, <1>3 DEF Connect, TypeOK
  <2>3. /\ hearts_[a].known \in BOOLEAN /\ hearts_[a].recvPack \in BOOLEAN
        /\ hearts_[a].failCnt \in Nat
    BY <1>0 DEF TypeOK
  <2>4. ~hearts_[a].known => hearts_[a].failCnt = 0 /\ ~hearts_[a].recvPack
    BY <1>0 DEF EntryOK
  <2>5. hearts_[a].failCnt >= quiet'[a] - 1
    BY <2>2, <2>3
  <2>6. own'[a] => hearts_[a].failCnt = quiet'[a] /\ ~hearts_[a].recvPack
    BY <2>2, <2>4
  <2>7. EntryOK(a)'
    BY <2>2, <2>4, <2>5, <2>6 DEF EntryOK
  <2>8. QED
    BY <2>1, <2>7
<1>4. ASSUME NEW a \in Addresses, Delete(a) PROVE TypeOK' /\ EntryOK(a)'
  <2>1. TypeOK'
    BY <1>0, <1>4 DEF Delete, TypeOK
  <2>2. EntryOK(a)'
    BY <1>0, <1>4 DEF Delete, TypeOK, EntryOK
  <2>3. QED
    BY <2>1, <2>2
<1>5. ASSUME NEW a \in Addresses, UpdateHeartBeat(a) PROVE TypeOK' /\ EntryOK(a)'
  <2>1. TypeOK'
    BY <1>0, <1>5 DEF UpdateHeartBeat, TypeOK
  <2>2. /\ hearts_'[a].known /\ hearts_'[a].recvPack
        /\ hearts_'[a].failCnt = hearts_[a].failCnt
    BY <1>0, <1>5 DEF UpdateHeartBeat, TypeOK
  <2>3. EntryOK(a)'
    BY <1>0, <1>5, <2>2 DEF UpdateHeartBeat, TypeOK, EntryOK
  <2>4. QED
    BY <2>1, <2>3
<1>6. ASSUME NEW a \in Addresses, Timeout(a) PROVE TypeOK' /\ EntryOK(a)'
  <2>1. hearts_[a] \in [known : BOOLEAN, recvPack : BOOLEAN, failCnt : Nat]
    BY <1>0 DEF TypeOK
  <2>2. hearts_'[a] = Counted(hearts_[a])
    BY <1>0, <1>6 DEF Timeout, TypeOK
  <2>3. TypeOK'
    BY <1>0, <1>6, <2>1 DEF Timeout, Counted, TypeOK
  <2>4. EntryOK(a)'
    <3>1. /\ live'[a] = live[a] /\ heard'[a] = FALSE
          /\ quiet'[a] = (IF heard[a] THEN 0 ELSE quiet[a] + 1)
          /\ (own'[a] <=> (own[a] \/ heard[a]))
          /\ live[a] /\ quiet[a] \in Nat
      BY <1>0, <1>6 DEF Timeout, TypeOK
    <3>2. /\ live[a] /\ heard[a] => hearts_[a].recvPack
          /\ live[a] /\ hearts_[a].recvPack /\ ~heard[a] => quiet[a] = 0
          /\ live[a] /\ own[a] => hearts_[a].failCnt = quiet[a]
          /\ live[a] /\ own[a] => (hearts_[a].recvPack <=> heard[a])
          /\ live[a] => hearts_[a].failCnt >= quiet[a] - 1
          /\ ~hearts_[a].known => hearts_[a].failCnt = 0 /\ ~hearts_[a].recvPack
      BY <1>0 DEF EntryOK
    <3>3. CASE hearts_[a].recvPack
      <4>1. /\ hearts_'[a].failCnt = 0 /\ ~hearts_'[a].recvPack
            /\ hearts_'[a].known
        BY <2>1, <2>2, <3>3 DEF Counted
      <4>2. heard[a] => quiet'[a] = 0
        BY <3>1
      <4>3. ~heard[a] => quiet'[a] = 1 /\ ~own'[a]
        BY <3>1, <3>2, <3>3
      <4>4. QED
        BY <3>1, <4>1, <4>2, <4>3 DEF EntryOK
    <3>4. CASE ~hearts_[a].recvPack
      <4>1. /\ hearts_'[a].failCnt = hearts_[a].failCnt + 1
            /\ ~hearts_'[a].recvPack /\ hearts_'[a].known
        BY <2>1, <2>2, <3>4 DEF Counted
      <4>2. ~heard[a]
        BY <3>1, <3>2, <3>4
      <4>3. quiet'[a] = quiet[a] + 1 /\ (own'[a] <=> own[a])
        BY <1>0, <3>1, <4>2 DEF TypeOK
      <4>4. QED
        BY <2>1, <3>1, <3>2, <4>1, <4>3 DEF EntryOK
    <3>5. QED
      BY <3>3, <3>4
  <2>5. QED
    BY <2>3, <2>4
<1>7. QED
  BY <1>1, <1>2, <1>3, <1>4, <1>5, <1>6 DEF Next

LEMMA HeartInvAlways == Spec => []HeartInv
BY HeartInvInit, HeartInvNext, PTL DEF Spec

\* The type invariant holds in every behaviour.
THEOREM HeartTypeCorrect == Spec => []TypeOK
<1>1. HeartInv => TypeOK
  BY DEF HeartInv
<1>2. QED
  BY <1>1, HeartInvAlways, PTL

\* A connection at a new address, or one a packet of which has counted, is
\* answered with its own misses, whoever had the address before.
THEOREM OwnMisses == Spec => []AnswersOwnMisses
<1>1. HeartInv => AnswersOwnMisses
  BY DEF HeartInv, EntryOK, AnswersOwnMisses
<1>2. QED
  BY <1>1, HeartInvAlways, PTL

\* An inherited entry makes an answer too low by one at most.
THEOREM AtMostOneLow == Spec => []NeverFarTooLow
<1>1. HeartInv => NeverFarTooLow
  BY DEF HeartInv, EntryOK, NeverFarTooLow
<1>2. QED
  BY <1>1, HeartInvAlways, PTL
-----------------------------------------------------------------------------
(* HpvParser, for any number of threads, protocols and apps, frames of any   *)
(* modes and bodies of any length                                            *)

\* What the constants must be: only the codes of the apps are known to have a
\* place in the table.
Wired ==
  /\ Apps \in Seq([code : Table, prot : Protocols])
  /\ None \notin Protocols
  /\ MaxLen \in Nat /\ Room \in Nat

SendPcs == {"head", "body", "size", "write"}

\* What sendBuf_ of a protocol may hold.
Buffers == [head : Threads \cup {None},
            body : [1 .. Room -> Threads \cup {None}],
            size : 0 .. MaxLen]

\* Each variable keeps to its type; a thread that handles a frame has a protocol.
ParserTypeOK ==
  /\ userProtocol_ \in [Table -> Protocols \cup {None}]
  /\ sendBuf_ \in [Protocols -> Buffers]
  /\ sendLen_ \in [Protocols -> 0 .. MaxLen]
  /\ pc \in [Threads -> {"loop", "reg", "run"} \cup SendPcs]
  /\ next \in [Threads -> 1 .. Len(Apps) + 1]
  /\ prot \in [Threads -> Protocols \cup {None}]
  /\ ready \in [Threads -> BOOLEAN]
  /\ mode \in [Threads -> Modes \cup {None}]
  /\ len \in [Threads -> 0 .. MaxLen]
  /\ shared \in [Threads -> BOOLEAN]
  /\ DOMAIN sent = Threads
  /\ lost \subseteq Modes
  /\ wild \in BOOLEAN
  /\ \A t \in Threads : pc[t] \notin {"loop", "reg"} => prot[t] \in Protocols

\* An item of a sequence is one of its set.
LEMMA ItemType ==
  ASSUME NEW S, NEW q \in Seq(S), NEW i \in 1 .. Len(q)
  PROVE  q[i] \in S
OBVIOUS

\* An app is a mode and a protocol.
LEMMA AppType ==
  ASSUME Wired, NEW i \in 1 .. Len(Apps)
  PROVE  Apps[i].code \in Table /\ Apps[i].prot \in Protocols
<1>1. Apps[i] \in [code : Table, prot : Protocols]
  BY ItemType DEF Wired
<1>2. QED
  BY <1>1

\* A buffer with another head, body or size is a buffer.
LEMMA BufferType ==
  ASSUME NEW b \in Buffers
  PROVE  /\ \A t \in Threads \cup {None} : [b EXCEPT !.head = t] \in Buffers
         /\ \A c \in [1 .. Room -> Threads \cup {None}] : [b EXCEPT !.body = c] \in Buffers
         /\ \A n \in 0 .. MaxLen : [b EXCEPT !.size = n] \in Buffers
BY DEF Buffers

\* The type invariant holds in every behaviour.
THEOREM ParserTypeCorrect == ASSUME Wired PROVE Parser => []ParserTypeOK
<1>1. ParserInit => ParserTypeOK
  <2> SUFFICES ASSUME ParserInit PROVE ParserTypeOK
    OBVIOUS
  <2>1. Len(Apps) \in Nat /\ MaxLen \in Nat
    BY DEF Wired
  <2>2. sendBuf_ \in [Protocols -> Buffers]
    BY <2>1 DEF ParserInit, Buffers
  <2>3. userProtocol_ \in [Table -> Protocols \cup {None}] /\ wild = FALSE
    BY DEF ParserInit
  <2>4. /\ sendLen_ \in [Protocols -> 0 .. MaxLen] /\ len \in [Threads -> 0 .. MaxLen]
        /\ next \in [Threads -> 1 .. Len(Apps) + 1]
    BY <2>1 DEF ParserInit
  <2>5. /\ pc \in [Threads -> {"loop", "reg", "run"} \cup SendPcs]
        /\ prot \in [Threads -> Protocols \cup {None}]
        /\ mode \in [Threads -> Modes \cup {None}]
        /\ ready \in [Threads -> BOOLEAN] /\ shared \in [Threads -> BOOLEAN]
        /\ DOMAIN sent = Threads /\ lost \subseteq Modes
        /\ \A t \in Threads : pc[t] = "loop"
    BY DEF ParserInit
  <2>6. QED
    BY <2>2, <2>3, <2>4, <2>5 DEF ParserTypeOK
<1>2. ParserTypeOK /\ [ParserNext]_parserVars => ParserTypeOK'
  <2> SUFFICES ASSUME ParserTypeOK, [ParserNext]_parserVars PROVE ParserTypeOK'
    OBVIOUS
  <2>0. Len(Apps) \in Nat /\ MaxLen \in Nat
    BY DEF Wired
  <2>1. CASE UNCHANGED parserVars
    BY <2>1 DEF parserVars, ParserTypeOK
  <2>2. ASSUME NEW t \in Threads, SetUp(t) PROVE ParserTypeOK'
    BY <2>2 DEF SetUp, ParserTypeOK
  <2>3. ASSUME NEW t \in Threads, Reg(t) PROVE ParserTypeOK'
    <3>1. CASE next[t] <= Len(Apps) /\ pc' = pc
      <4>1. /\ userProtocol_' = [userProtocol_ EXCEPT ![Apps[next[t]].code] = Apps[next[t]].prot]
            /\ next' = [next EXCEPT ![t] = next[t] + 1] /\ ready' = ready
        BY <2>3, <3>1 DEF Reg, ParserTypeOK
      <4>2. next[t] \in 1 .. Len(Apps)
        BY <2>0, <3>1 DEF ParserTypeOK
      <4>3. next[t] + 1 \in 1 .. Len(Apps) + 1
        BY <2>0, <4>2
      <4>4. /\ userProtocol_' \in [Table -> Protocols \cup {None}]
            /\ next' \in [Threads -> 1 .. Len(Apps) + 1]
        BY <4>1, <4>2, <4>3, AppType DEF ParserTypeOK
      <4>5. QED
        BY <2>3, <3>1, <4>1, <4>4 DEF Reg, ParserTypeOK
    <3>2. CASE pc' = [pc EXCEPT ![t] = "loop"] /\ next' = [next EXCEPT ![t] = 1]
      <4>1. ready' = [ready EXCEPT ![t] = TRUE] \/ ready' = ready
        BY <2>3 DEF Reg
      <4>2. userProtocol_' = userProtocol_
        BY <2>3, <3>2 DEF Reg, ParserTypeOK
      <4>3. next' \in [Threads -> 1 .. Len(Apps) + 1]
        BY <2>0, <3>2 DEF ParserTypeOK
      <4>4. QED
        BY <2>3, <3>2, <4>1, <4>2, <4>3 DEF Reg, ParserTypeOK
    <3>3. QED
      BY <2>3, <3>1, <3>2 DEF Reg
  <2>4. ASSUME NEW t \in Threads, Run(t) PROVE ParserTypeOK'
    <3>1. PICK m \in Modes :
            \/ /\ m \in Table /\ userProtocol_[m] # None
               /\ pc' = [pc EXCEPT ![t] = "run"]
               /\ mode' = [mode EXCEPT ![t] = m]
               /\ prot' = [prot EXCEPT ![t] = userProtocol_[m]]
               /\ UNCHANGED <<lost, wild>>
            \/ /\ m \in Table => userProtocol_[m] = None
               /\ lost' = lost \cup {m} /\ wild' \in BOOLEAN
               /\ UNCHANGED <<pc, mode, prot>>
      BY <2>4 DEF Run
    <3>2. UNCHANGED <<userProtocol_, sendBuf_, sendLen_, next, ready, len, shared, sent>>
      BY <2>4 DEF Run
    <3>3. CASE ~(m \in Table /\ userProtocol_[m] # None)
      BY <3>1, <3>2, <3>3 DEF ParserTypeOK
    <3>4. CASE m \in Table /\ userProtocol_[m] # None
      <4>1. userProtocol_[m] \in Protocols
        BY <3>4 DEF ParserTypeOK
      <4>2. QED
        BY <3>1, <3>2, <3>4, <4>1 DEF ParserTypeOK
    <3>5. QED
      BY <3>3, <3>4
  <2>5. ASSUME NEW t \in Threads, SendPack(t) PROVE ParserTypeOK'
    <3>1. len' \in [Threads -> 0 .. MaxLen]
      BY <2>5 DEF SendPack, ParserTypeOK
    <3>2. shared' \in [Threads -> BOOLEAN]
      BY <2>5 DEF SendPack
    <3>3. pc' \in [Threads -> {"loop", "reg", "run"} \cup SendPcs] /\ pc[t] = "run"
      BY <2>5 DEF SendPack, ParserTypeOK, SendPcs
    <3>4. QED
      BY <2>5, <3>1, <3>2, <3>3 DEF SendPack, ParserTypeOK
  <2>6. ASSUME NEW t \in Threads, FillHead(t) PROVE ParserTypeOK'
    <3>1. prot[t] \in Protocols /\ t \in Threads \cup {None}
      BY <2>6 DEF FillHead, ParserTypeOK
    <3>2. sendBuf_' = [sendBuf_ EXCEPT ![prot[t]] = [sendBuf_[prot[t]] EXCEPT !.head = t]]
      BY <2>6 DEF FillHead
    <3>3. sendBuf_' \in [Protocols -> Buffers]
      BY <3>1, <3>2, BufferType DEF ParserTypeOK
    <3>4. QED
      BY <2>6, <3>3 DEF FillHead, ParserTypeOK, SendPcs
  <2>7. ASSUME NEW t \in Threads, FillBody(t) PROVE ParserTypeOK'
    <3>1. prot[t] \in Protocols /\ sendBuf_[prot[t]] \in Buffers
      BY <2>7 DEF FillBody, ParserTypeOK
    <3> DEFINE b == [i \in 1 .. Room |-> IF i <= len[t] THEN t ELSE sendBuf_[prot[t]].body[i]]
    <3>2. b \in [1 .. Room -> Threads \cup {None}]
      <4>1. sendBuf_[prot[t]].body \in [1 .. Room -> Threads \cup {None}]
        BY <3>1 DEF Buffers
      <4>2. QED
        BY <4>1
    <3>3. sendBuf_' = [sendBuf_ EXCEPT ![prot[t]] = [sendBuf_[prot[t]] EXCEPT !.body = b]]
      BY <2>7 DEF FillBody
    <3> HIDE DEF b
    <3>4. sendBuf_' \in [Protocols -> Buffers]
      BY <3>1, <3>2, <3>3, BufferType DEF ParserTypeOK
    <3>5. QED
      BY <2>7, <3>4 DEF FillBody, ParserTypeOK, SendPcs
  <2>8. ASSUME NEW t \in Threads, FillSize(t) PROVE ParserTypeOK'
    <3>1. prot[t] \in Protocols /\ len[t] \in 0 .. MaxLen
      BY <2>8 DEF FillSize, ParserTypeOK
    <3>2. sendBuf_' = [sendBuf_ EXCEPT ![prot[t]] = [sendBuf_[prot[t]] EXCEPT !.size = len[t]]]
      BY <2>8 DEF FillSize
    <3>3. sendBuf_' \in [Protocols -> Buffers]
      BY <3>1, <3>2, BufferType DEF ParserTypeOK
    <3>4. sendLen_' \in [Protocols -> 0 .. MaxLen]
      BY <2>8, <3>1 DEF FillSize, ParserTypeOK
    <3>5. QED
      BY <2>8, <3>3, <3>4 DEF FillSize, ParserTypeOK, SendPcs
  <2>9. ASSUME NEW t \in Threads, WritePack(t) PROVE ParserTypeOK'
    BY <2>9 DEF WritePack, ParserTypeOK
  <2>10. ASSUME NEW t \in Threads, Return(t) PROVE ParserTypeOK'
    BY <2>0, <2>10 DEF Return, ParserTypeOK
  <2>11. QED
    BY <2>1, <2>2, <2>3, <2>4, <2>5, <2>6, <2>7, <2>8, <2>9, <2>10 DEF ParserNext
<1>3. QED
  BY <1>1, <1>2, PTL DEF Parser
-----------------------------------------------------------------------------
\* The protocols registered under mode m.
Of(m) == {Apps[i].prot : i \in {j \in 1 .. Len(Apps) : Apps[j].code = m}}

\* What is in the table belongs there; a thread in its loop over the apps has
\* entered those before next, and one that is ready, all.
Registered ==
  /\ \A m \in Table : userProtocol_[m] # None => userProtocol_[m] \in Of(m)
  /\ \A t \in Threads : pc[t] # "reg" => next[t] = 1
  /\ \A t \in Threads : \A j \in 1 .. next[t] - 1 : userProtocol_[Apps[j].code] # None
  /\ \A t \in Threads : ready[t] =>
       \A j \in 1 .. Len(Apps) : userProtocol_[Apps[j].code] # None

\* A step that neither enters nor leaves the loop over the apps.
LEMMA RegisteredStays ==
  ASSUME ParserTypeOK, Registered, userProtocol_' = userProtocol_, next' = next, ready' = ready,
         NEW t \in Threads, pc[t] # "reg",
         pc' = pc \/ \E s : pc' = [pc EXCEPT ![t] = s]
  PROVE  Registered'
<1>1. \A u \in Threads : pc'[u] # "reg" => next[u] = 1
  BY DEF Registered, ParserTypeOK
<1>2. QED
  BY <1>1 DEF Registered

\* A frame reaches a protocol registered under its mode, and is ignored only
\* when there is none, for any apps, threads, interleaving of registrations and
\* modes, inside the table or not.
THEOREM EveryFrameRouted == ASSUME Wired PROVE Parser => []FramesRouted
<1> DEFINE Inv == Registered /\ FramesRouted
<1>1. ParserInit => Inv
  <2> SUFFICES ASSUME ParserInit PROVE Inv
    OBVIOUS
  <2>1. \A m \in Table : userProtocol_[m] = None
    BY DEF ParserInit
  <2>2. /\ \A t \in Threads : pc[t] = "loop" /\ next[t] = 1 /\ ready[t] = FALSE
        /\ lost = {}
    BY DEF ParserInit
  <2>3. \A t \in Threads : \A j \in 1 .. next[t] - 1 : FALSE
    BY <2>2
  <2>4. Registered
    BY <2>1, <2>2, <2>3 DEF Registered
  <2>5. FramesRouted
    BY <2>2 DEF FramesRouted
  <2>6. QED
    BY <2>4, <2>5
<1>2. ParserTypeOK /\ Inv /\ [ParserNext]_parserVars => Inv'
  <2> SUFFICES ASSUME ParserTypeOK, Registered, FramesRouted, [ParserNext]_parserVars
               PROVE  Registered' /\ FramesRouted'
    OBVIOUS
  <2>0. /\ Len(Apps) \in Nat
        /\ \A m \in lost : Of(m) = {}
        /\ \A t \in Threads : pc[t] \notin {"loop", "reg"} => prot[t] \in Of(mode[t])
    <3>1. Len(Apps) \in Nat
      BY DEF Wired
    <3>2. \A m \in lost : Of(m) = {}
      BY DEF FramesRouted, Of
    <3>3. \A t \in Threads : pc[t] \notin {"loop", "reg"} => prot[t] \in Of(mode[t])
      BY DEF FramesRouted, Of
    <3>4. QED
      BY <3>1, <3>2, <3>3
  <2>1. CASE UNCHANGED parserVars
    BY <2>1 DEF parserVars, Registered, FramesRouted
  <2>2. ASSUME NEW t \in Threads, SetUp(t) PROVE Registered' /\ FramesRouted'
    <3>1. /\ pc' = [pc EXCEPT ![t] = "reg"]
          /\ UNCHANGED <<userProtocol_, next, ready, prot, mode, lost>>
      BY <2>2 DEF SetUp
    <3>2. pc'[t] = "reg" /\ \A u \in Threads \ {t} : pc'[u] = pc[u]
      BY <3>1 DEF ParserTypeOK
    <3>3. Registered'
      BY <3>1, <3>2 DEF Registered
    <3>4. FramesRouted'
      BY <3>1, <3>2 DEF FramesRouted
    <3>5. QED
      BY <3>3, <3>4
  <2>3. ASSUME NEW t \in Threads, Reg(t) PROVE Registered' /\ FramesRouted'
    <3>0. pc[t] = "reg" /\ UNCHANGED <<prot, mode, lost>>
      BY <2>3 DEF Reg
    <3>1. CASE /\ next[t] <= Len(Apps)
               /\ userProtocol_' = [userProtocol_ EXCEPT ![Apps[next[t]].code] = Apps[next[t]].prot]
               /\ next' = [next EXCEPT ![t] = next[t] + 1]
               /\ UNCHANGED <<pc, ready>>
      <4> DEFINE i == next[t]
      <4>1. i \in 1 .. Len(Apps) /\ i \in Nat
        BY <2>0, <3>1 DEF ParserTypeOK
      <4>2. Apps[i].code \in Table /\ Apps[i].prot \in Protocols /\ Apps[i].prot # None
        BY <4>1, AppType DEF Wired
      <4>3. Apps[i].prot \in Of(Apps[i].code)
        BY <4>1 DEF Of
      <4>4. userProtocol_'[Apps[i].code] = Apps[i].prot
        BY <3>1, <4>2 DEF ParserTypeOK
      <4>5. \A m \in Table \ {Apps[i].code} : userProtocol_'[m] = userProtocol_[m]
        BY <3>1 DEF ParserTypeOK
      <4>6. \A m \in Table : userProtocol_[m] # None => userProtocol_'[m] # None
        BY <4>2, <4>4, <4>5
      <4>7. \A j \in 1 .. Len(Apps) : Apps[j].code \in Table
        BY AppType
      <4>8. next'[t] = i + 1 /\ \A u \in Threads \ {t} : next'[u] = next[u]
        BY <3>1 DEF ParserTypeOK
      <4> HIDE DEF i
      <4>9. \A m \in Table : userProtocol_'[m] # None => userProtocol_'[m] \in Of(m)
        BY <4>3, <4>4, <4>5 DEF Registered
      <4>10. \A u \in Threads : pc'[u] # "reg" => next'[u] = 1
        BY <3>0, <3>1, <4>8 DEF Registered
      <4>11. ASSUME NEW u \in Threads, NEW j \in 1 .. next'[u] - 1
             PROVE  userProtocol_'[Apps[j].code] # None
        <5>1. j \in 1 .. Len(Apps)
          <6>1. next[u] \in 1 .. Len(Apps) + 1
            BY DEF ParserTypeOK
          <6>2. next'[u] \in 1 .. Len(Apps) + 1
            BY <2>0, <4>1, <4>8, <6>1
          <6>3. QED
            BY <2>0, <6>2, <4>11
        <5>2. CASE u = t /\ j = i
          BY <4>2, <4>4, <5>2
        <5>3. CASE ~(u = t /\ j = i)
          <6>1. j \in 1 .. next[u] - 1
            BY <2>0, <4>1, <4>8, <4>11, <5>3 DEF ParserTypeOK, i
          <6>2. QED
            BY <4>6, <4>7, <5>1, <6>1 DEF Registered
        <5>4. QED
          BY <5>2, <5>3
      <4>12. \A u \in Threads : ready'[u] =>
               \A j \in 1 .. Len(Apps) : userProtocol_'[Apps[j].code] # None
        BY <3>1, <4>6, <4>7 DEF Registered
      <4>13. Registered'
        BY <4>9, <4>10, <4>11, <4>12 DEF Registered, Of
      <4>14. FramesRouted'
        BY <3>0, <3>1 DEF FramesRouted
      <4>15. QED
        BY <4>13, <4>14
    <3>2. CASE /\ next[t] > Len(Apps)
               /\ pc' = [pc EXCEPT ![t] = "loop"]
               /\ ready' = [ready EXCEPT ![t] = TRUE]
               /\ next' = [next EXCEPT ![t] = 1]
               /\ UNCHANGED userProtocol_
      <4>1. /\ pc'[t] = "loop" /\ next'[t] = 1
            /\ \A u \in Threads \ {t} :
                 pc'[u] = pc[u] /\ next'[u] = next[u]
        BY <3>2 DEF ParserTypeOK
      <4>2. \A u \in Threads \ {t} : ready'[u] <=> ready[u]
        BY <3>2 DEF ParserTypeOK
      <4>3. \A j \in 1 .. Len(Apps) : j \in 1 .. next[t] - 1
        BY <2>0, <3>2 DEF ParserTypeOK
      <4>4. \A j \in 1 .. Len(Apps) : userProtocol_[Apps[j].code] # None
        BY <4>3 DEF Registered
      <4>5. 1 .. next'[t] - 1 = {}
        BY <4>1
      <4>6. \A u \in Threads : ready'[u] =>
              \A j \in 1 .. Len(Apps) : userProtocol_[Apps[j].code] # None
        BY <4>2, <4>4 DEF Registered
      <4>7. \A u \in Threads : \A j \in 1 .. next'[u] - 1 : userProtocol_[Apps[j].code] # None
        BY <4>1, <4>5 DEF Registered
      <4>8. Registered'
        BY <3>2, <4>1, <4>6, <4>7 DEF Registered
      <4>9. FramesRouted'
        BY <3>0, <4>1 DEF FramesRouted
      <4>10. QED
        BY <4>8, <4>9
    <3>3. QED
      BY <2>3, <3>1, <3>2 DEF Reg
  <2>4. ASSUME NEW t \in Threads, Run(t) PROVE Registered' /\ FramesRouted'
    <3>0. /\ pc[t] = "loop" /\ ready[t]
          /\ UNCHANGED <<userProtocol_, next, ready>>
      BY <2>4 DEF Run
    <3>1. PICK m \in Modes :
            \/ /\ m \in Table /\ userProtocol_[m] # None
               /\ pc' = [pc EXCEPT ![t] = "run"]
               /\ mode' = [mode EXCEPT ![t] = m]
               /\ prot' = [prot EXCEPT ![t] = userProtocol_[m]]
               /\ UNCHANGED <<lost, wild>>
            \/ /\ m \in Table => userProtocol_[m] = None
               /\ lost' = lost \cup {m} /\ wild' \in BOOLEAN
               /\ UNCHANGED <<pc, mode, prot>>
      BY <2>4 DEF Run
    <3>2. CASE ~(m \in Table /\ userProtocol_[m] # None)
      <4>1. Of(m) = {}
        <5>1. \A j \in 1 .. Len(Apps) :
                Apps[j].code \in Table /\ userProtocol_[Apps[j].code] # None
          BY <3>0, AppType DEF Registered
        <5>2. QED
          BY <3>2, <5>1 DEF Of
      <4>2. FramesRouted'
        BY <2>0, <3>1, <3>2, <4>1 DEF FramesRouted, Of
      <4>3. Registered'
        BY <3>0, <3>1, <3>2, RegisteredStays
      <4>4. QED
        BY <4>2, <4>3
    <3>3. CASE m \in Table /\ userProtocol_[m] # None
      <4>1. /\ pc' = [pc EXCEPT ![t] = "run"] /\ lost' = lost
            /\ mode' = [mode EXCEPT ![t] = m]
            /\ prot' = [prot EXCEPT ![t] = userProtocol_[m]]
        BY <3>1, <3>3
      <4>2. /\ mode'[t] = m /\ prot'[t] = userProtocol_[m]
            /\ \A u \in Threads \ {t} :
                 pc'[u] = pc[u] /\ mode'[u] = mode[u] /\ prot'[u] = prot[u]
        BY <4>1 DEF ParserTypeOK
      <4>3. userProtocol_[m] \in Of(m)
        BY <3>3 DEF Registered
      <4>4. \A u \in Threads : pc'[u] \notin {"loop", "reg"} => prot'[u] \in Of(mode'[u])
        BY <2>0, <4>2, <4>3
      <4>5. FramesRouted'
        BY <2>0, <4>1, <4>4 DEF FramesRouted, Of
      <4>6. Registered'
        BY <3>0, <4>1, RegisteredStays
      <4>7. QED
        BY <4>5, <4>6
    <3>4. QED
      BY <3>2, <3>3
  <2>5. ASSUME NEW t \in Threads,
               \/ SendPack(t) \/ FillHead(t) \/ FillBody(t) \/ FillSize(t) \/ WritePack(t)
        PROVE  Registered' /\ FramesRouted'
    <3>1. /\ UNCHANGED <<userProtocol_, next, ready, prot, mode, lost>>
          /\ pc[t] \notin {"loop", "reg"}
          /\ \E s : pc' = [pc EXCEPT ![t] = s]
      BY <2>5 DEF SendPack, FillHead, FillBody, FillSize, WritePack
    <3>2. \A u \in Threads : pc'[u] \notin {"loop", "reg"} => pc[u] \notin {"loop", "reg"}
      BY <3>1 DEF ParserTypeOK
    <3>3. FramesRouted'
      BY <3>1, <3>2 DEF FramesRouted
    <3>4. Registered'
      BY <3>1, RegisteredStays
    <3>5. QED
      BY <3>3, <3>4
  <2>6. ASSUME NEW t \in Threads, Return(t) PROVE Registered' /\ FramesRouted'
    <3>1. /\ UNCHANGED <<userProtocol_, next, ready, lost>>
          /\ pc[t] = "run" /\ pc' = [pc EXCEPT ![t] = "loop"]
          /\ mode' = [mode EXCEPT ![t] = None] /\ prot' = [prot EXCEPT ![t] = None]
      BY <2>6 DEF Return
    <3>2. /\ pc'[t] = "loop"
          /\ \A u \in Threads \ {t} :
               pc'[u] = pc[u] /\ mode'[u] = mode[u] /\ prot'[u] = prot[u]
      BY <3>1 DEF ParserTypeOK
    <3>3. FramesRouted'
      BY <3>1, <3>2 DEF FramesRouted
    <3>4. Registered'
      BY <3>1, RegisteredStays
    <3>5. QED
      BY <3>3, <3>4
  <2>7. QED
    BY <2>1, <2>2, <2>3, <2>4, <2>5, <2>6 DEF ParserNext
<1>3. Inv => FramesRouted
  OBVIOUS
<1> HIDE DEF Inv
<1>4. QED
  BY <1>1, <1>2, <1>3, ParserTypeCorrect, PTL DEF Parser
-----------------------------------------------------------------------------
\* The packet t wrote last is what t meant, as far as the buffer holds it.
Meant(t) ==
  /\ sent[t].head = t /\ sent[t].size = len[t]
  /\ Len(sent[t].body) = len[t]
  /\ \A i \in 1 .. len[t] : i <= Room => sent[t].body[i] = t

\* What thread t has put into the buffer of its protocol, so far.
Filled(t) ==
  LET b == sendBuf_[prot[t]]
  IN  /\ pc[t] \in {"body", "size", "write"} => b.head = t
      /\ pc[t] \in {"size", "write"} => \A i \in 1 .. len[t] : i <= Room => b.body[i] = t
      /\ pc[t] = "write" => b.size = len[t] /\ sendLen_[prot[t]] = len[t]

\* A thread that was alone in sendPack finds in the buffer what it put there,
\* and what it wrote is its packet.
Whole(t) ==
  /\ pc[t] \in {"loop", "reg"} => sent[t] = NoPacket
  /\ ~shared[t] =>
       /\ pc[t] \in SendPcs => Filled(t)
       /\ pc[t] = "run" /\ sent[t] # NoPacket => Meant(t)

\* Threads in sendPack of one protocol know of each other.
Together ==
  \A t, u \in Threads :
    t # u /\ pc[t] \in SendPcs /\ pc[u] \in SendPcs /\ prot[t] = prot[u] => shared[t]

\* A step of u that leaves alone what t reads of its own and of its buffer.
LEMMA WholeStays ==
  ASSUME NEW t \in Threads, Whole(t),
         pc'[t] = pc[t], prot'[t] = prot[t], len'[t] = len[t], sent'[t] = sent[t],
         ~shared'[t] => ~shared[t],
         pc[t] \in SendPcs /\ ~shared[t] =>
           /\ sendBuf_'[prot[t]] = sendBuf_[prot[t]]
           /\ sendLen_'[prot[t]] = sendLen_[prot[t]]
  PROVE  Whole(t)'
<1>1. pc'[t] \in {"loop", "reg"} => sent'[t] = NoPacket
  BY DEF Whole
<1>2. ASSUME ~shared'[t], pc'[t] \in SendPcs PROVE Filled(t)'
  <2>1. pc[t] \in SendPcs
    BY <1>2
  <2>2. Filled(t) /\ sendBuf_'[prot[t]] = sendBuf_[prot[t]] /\ sendLen_'[prot[t]] = sendLen_[prot[t]]
    BY <1>2, <2>1 DEF Whole
  <2>3. QED
    BY <2>2 DEF Filled
<1>3. ~shared'[t] /\ pc'[t] = "run" /\ sent'[t] # NoPacket => Meant(t)'
  BY DEF Whole, Meant
<1>4. QED
  BY <1>1, <1>2, <1>3 DEF Whole, SendPcs, NoPacket

\* A step that does not enter sendPack, nor move between protocols there.
LEMMA TogetherStays ==
  ASSUME ParserTypeOK, Together, NEW t \in Threads,
         \/ pc[t] \in SendPcs /\ shared' = shared /\ prot' = prot
         \/ pc[t] \notin SendPcs /\ pc'[t] \notin SendPcs,
         \A u \in Threads \ {t} : /\ pc'[u] = pc[u] /\ prot'[u] = prot[u]
                                  /\ shared'[u] <=> shared[u]
  PROVE  Together'
<1> SUFFICES ASSUME NEW u \in Threads, NEW v \in Threads, u # v,
                    pc'[u] \in SendPcs, pc'[v] \in SendPcs, prot'[u] = prot'[v]
             PROVE  shared'[u]
  BY DEF Together, SendPcs
<1>1. pc[u] \in SendPcs /\ pc[v] \in SendPcs /\ prot[u] = prot[v]
  OBVIOUS
<1>2. shared[u]
  BY <1>1 DEF Together
<1>3. QED
  BY <1>2

\* A packet leaves as its sender meant it, as far as the buffer holds it, unless
\* another thread was in sendPack of the same protocol: with any threads,
\* protocols and lengths, those beyond the buffer included.
THEOREM PacketsLeaveWhole == ASSUME Wired PROVE Parser => []PacketsWhole
<1> DEFINE Inv == Together /\ \A t \in Threads : Whole(t)
<1>1. ParserInit => Inv
  <2> SUFFICES ASSUME ParserInit PROVE Inv
    OBVIOUS
  <2>1. \A t \in Threads : pc[t] = "loop" /\ sent[t] = NoPacket
    BY DEF ParserInit
  <2>2. Together
    BY <2>1 DEF Together, SendPcs
  <2>3. \A t \in Threads : Whole(t)
    BY <2>1 DEF Whole, SendPcs
  <2>4. QED
    BY <2>2, <2>3
<1>2. ParserTypeOK /\ Inv /\ [ParserNext]_parserVars => Inv'
  <2> SUFFICES ASSUME ParserTypeOK, Together, \A t \in Threads : Whole(t), [ParserNext]_parserVars
               PROVE  Together' /\ \A t \in Threads : Whole(t)'
    OBVIOUS
  <2>1. CASE UNCHANGED <<sendBuf_, sendLen_, pc, prot, len, shared, sent>>
    <3>1. Together'
      BY <2>1 DEF Together, SendPcs
    <3>2. ASSUME NEW t \in Threads PROVE Whole(t)'
      BY <2>1, WholeStays
    <3>3. QED
      BY <3>1, <3>2
  <2>2. ASSUME NEW t \in Threads, SetUp(t) \/ Reg(t) \/ Run(t) \/ Return(t)
        PROVE  Together' /\ \A u \in Threads : Whole(u)'
    <3>1. /\ sendBuf_' = sendBuf_ /\ sendLen_' = sendLen_
          /\ pc[t] \notin SendPcs /\ pc'[t] \notin SendPcs
      BY <2>2 DEF SetUp, Reg, Run, Return, SendPcs, ParserTypeOK
    <3>2. ASSUME NEW u \in Threads \ {t}
          PROVE  pc'[u] = pc[u] /\ prot'[u] = prot[u] /\ len'[u] = len[u] /\ sent'[u] = sent[u]
      <4>1. pc'[u] = pc[u]
        BY <2>2 DEF SetUp, Reg, Run, Return, ParserTypeOK
      <4>2. prot'[u] = prot[u]
        BY <2>2 DEF SetUp, Reg, Run, Return, ParserTypeOK
      <4>3. len'[u] = len[u]
        BY <2>2 DEF SetUp, Reg, Run, Return, ParserTypeOK
      <4>4. sent'[u] = sent[u]
        BY <2>2 DEF SetUp, Reg, Run, Return, ParserTypeOK
      <4>5. QED
        BY <4>1, <4>2, <4>3, <4>4
    <3>3. ASSUME NEW u \in Threads \ {t} PROVE shared'[u] <=> shared[u]
      BY <2>2 DEF SetUp, Reg, Run, Return, ParserTypeOK
    <3>4. Together'
      BY <3>1, <3>2, <3>3, TogetherStays
    <3>5. ASSUME NEW u \in Threads \ {t} PROVE Whole(u)'
      BY <3>1, <3>2, <3>3, WholeStays
    <3>6. Whole(t)'
      <4>1. pc'[t] = "run" => sent'[t] = sent[t] /\ pc[t] = "loop"
        BY <2>2 DEF SetUp, Reg, Run, Return, ParserTypeOK
      <4>2. pc'[t] \in {"loop", "reg"} => sent'[t] = NoPacket
        <5>1. CASE Return(t)
          BY <5>1 DEF Return, ParserTypeOK
        <5>2. CASE SetUp(t) \/ Reg(t) \/ Run(t)
          <6>1. sent' = sent /\ pc[t] \in {"loop", "reg"}
            BY <5>2 DEF SetUp, Reg, Run
          <6>2. QED
            BY <6>1 DEF Whole
        <5>3. QED
          BY <2>2, <5>1, <5>2
      <4>3. pc'[t] = "run" => sent'[t] = NoPacket
        BY <4>1 DEF Whole
      <4>4. QED
        BY <3>1, <4>2, <4>3 DEF Whole, SendPcs, NoPacket
    <3>7. QED
      BY <3>4, <3>5, <3>6
  <2>3. ASSUME NEW t \in Threads, SendPack(t)
        PROVE  Together' /\ \A u \in Threads : Whole(u)'
    <3>1. /\ sendBuf_' = sendBuf_ /\ sendLen_' = sendLen_ /\ prot' = prot
          /\ pc[t] = "run" /\ pc'[t] = "head"
          /\ \A u \in Threads \ {t} :
               pc'[u] = pc[u] /\ len'[u] = len[u] /\ sent'[u] = sent[u]
      BY <2>3 DEF SendPack, ParserTypeOK
    <3>2. /\ shared'[t] <=> Sending(prot[t]) # {}
          /\ \A u \in Threads \ {t} : shared'[u] <=> shared[u] \/ u \in Sending(prot[t])
      BY <2>3 DEF SendPack, ParserTypeOK
    <3>3. ASSUME NEW u \in Threads, NEW v \in Threads, u # v,
                 pc'[u] \in SendPcs, pc'[v] \in SendPcs, prot'[u] = prot'[v]
          PROVE  shared'[u]
      <4>1. CASE u = t
        <5>1. v \in Sending(prot[t])
          BY <3>1, <3>3, <4>1 DEF Sending, SendPcs
        <5>2. QED
          BY <3>2, <4>1, <5>1
      <4>2. CASE v = t
        <5>1. u \in Sending(prot[t])
          BY <3>1, <3>3, <4>2 DEF Sending, SendPcs
        <5>2. QED
          BY <3>2, <3>3, <4>2, <5>1
      <4>3. CASE u # t /\ v # t
        <5>1. shared[u]
          BY <3>1, <3>3, <4>3 DEF Together
        <5>2. QED
          BY <3>2, <4>3, <5>1
      <4>4. QED
        BY <4>1, <4>2, <4>3
    <3>4. Together'
      BY <3>3 DEF Together, SendPcs
    <3>5. ASSUME NEW u \in Threads \ {t} PROVE Whole(u)'
      BY <3>1, <3>2, WholeStays
    <3>6. Whole(t)'
      BY <3>1 DEF Whole, Filled, SendPcs
    <3>7. QED
      BY <3>4, <3>5, <3>6
  <2>4. ASSUME NEW t \in Threads,
               FillHead(t) \/ FillBody(t) \/ FillSize(t) \/ WritePack(t)
        PROVE  Together' /\ \A u \in Threads : Whole(u)'
    <3>1. /\ prot' = prot /\ len' = len /\ shared' = shared
          /\ pc[t] \in SendPcs /\ prot[t] \in Protocols
      BY <2>4 DEF FillHead, FillBody, FillSize, WritePack, SendPcs, ParserTypeOK
    <3>2. ASSUME NEW u \in Threads \ {t} PROVE pc'[u] = pc[u] /\ sent'[u] = sent[u]
      <4>1. pc'[u] = pc[u]
        BY <2>4 DEF FillHead, FillBody, FillSize, WritePack, ParserTypeOK
      <4>2. sent'[u] = sent[u]
        BY <2>4 DEF FillHead, FillBody, FillSize, WritePack, ParserTypeOK
      <4>3. QED
        BY <4>1, <4>2
    <3>3. Together'
      BY <3>1, <3>2, TogetherStays
    <3>4. ASSUME NEW q \in Protocols, q # prot[t]
          PROVE  sendBuf_'[q] = sendBuf_[q] /\ sendLen_'[q] = sendLen_[q]
      <4>1. sendBuf_'[q] = sendBuf_[q]
        BY <2>4, <3>4 DEF FillHead, FillBody, FillSize, WritePack, ParserTypeOK
      <4>2. sendLen_'[q] = sendLen_[q]
        BY <2>4, <3>4 DEF FillHead, FillBody, FillSize, WritePack, ParserTypeOK
      <4>3. QED
        BY <4>1, <4>2
    <3>5. ASSUME NEW u \in Threads \ {t} PROVE Whole(u)'
      <4>1. ASSUME pc[u] \in SendPcs, ~shared[u]
            PROVE  prot[u] \in Protocols /\ prot[u] # prot[t]
        BY <3>1, <4>1 DEF Together, ParserTypeOK, SendPcs
      <4>2. QED
        BY <3>1, <3>2, <3>4, <4>1, WholeStays
    <3>6. Whole(t)'
      <4> DEFINE b == sendBuf_[prot[t]]
      <4>1. b \in Buffers /\ len[t] \in 0 .. MaxLen
        BY <3>1 DEF ParserTypeOK
      <4>2. CASE FillHead(t)
        <5>1. pc'[t] = "body" /\ sendBuf_'[prot[t]] = [b EXCEPT !.head = t]
          BY <3>1, <4>2 DEF FillHead, ParserTypeOK
        <5>2. sendBuf_'[prot[t]].head = t
          BY <4>1, <5>1 DEF Buffers
        <5>3. QED
          BY <3>1, <5>1, <5>2 DEF Whole, Filled
      <4>3. CASE FillBody(t)
        <5>1. /\ pc[t] = "body" /\ pc'[t] = "size"
              /\ sendBuf_'[prot[t]] =
                   [b EXCEPT !.body = [i \in 1 .. Room |-> IF i <= len[t] THEN t ELSE b.body[i]]]
          BY <3>1, <4>3 DEF FillBody, ParserTypeOK
        <5>2. sendBuf_'[prot[t]].head = b.head
          BY <4>1, <5>1 DEF Buffers
        <5>3. \A i \in 1 .. len[t] : i <= Room => sendBuf_'[prot[t]].body[i] = t
          <6>1. sendBuf_'[prot[t]].body = [i \in 1 .. Room |-> IF i <= len[t] THEN t ELSE b.body[i]]
            BY <4>1, <5>1 DEF Buffers
          <6>2. \A i \in 1 .. len[t] : i <= Room => i \in 1 .. Room /\ i <= len[t]
            BY <4>1 DEF Wired
          <6>3. QED
            BY <6>1, <6>2
        <5>4. ~shared[t] => b.head = t
          BY <5>1 DEF Whole, Filled, SendPcs
        <5>5. QED
          BY <3>1, <5>1, <5>2, <5>3, <5>4 DEF Whole, Filled
      <4>4. CASE FillSize(t)
        <5>1. /\ pc[t] = "size" /\ pc'[t] = "write"
              /\ sendBuf_'[prot[t]] = [b EXCEPT !.size = len[t]]
              /\ sendLen_'[prot[t]] = len[t]
          BY <3>1, <4>4 DEF FillSize, ParserTypeOK
        <5>2. /\ sendBuf_'[prot[t]].head = b.head
              /\ sendBuf_'[prot[t]].body = b.body
              /\ sendBuf_'[prot[t]].size = len[t]
          BY <4>1, <5>1 DEF Buffers
        <5>3. ~shared[t] => b.head = t /\ \A i \in 1 .. len[t] : i <= Room => b.body[i] = t
          BY <5>1 DEF Whole, Filled, SendPcs
        <5>4. QED
          BY <3>1, <5>1, <5>2, <5>3 DEF Whole, Filled
      <4>5. CASE WritePack(t)
        <5> DEFINE n == sendLen_[prot[t]]
                   c == [i \in 1 .. n |-> IF i <= Room THEN b.body[i] ELSE None]
        <5>1. /\ pc[t] = "write" /\ pc'[t] = "run" /\ n \in Nat
              /\ sent'[t] = [b EXCEPT !.body = c]
          BY <3>1, <4>5 DEF WritePack, ParserTypeOK, Wired
        <5>2. ASSUME ~shared[t] PROVE Meant(t)'
          <6>1. /\ b.head = t /\ b.size = len[t] /\ n = len[t]
                /\ \A i \in 1 .. len[t] : i <= Room => b.body[i] = t
            BY <5>1, <5>2 DEF Whole, Filled, SendPcs
          <6>2. Len(c) = n /\ \A i \in 1 .. n : i <= Room => c[i] = b.body[i]
            BY <5>1
          <6> HIDE DEF c, n
          <6>3. sent'[t].head = b.head /\ sent'[t].size = b.size /\ sent'[t].body = c
            BY <4>1, <5>1 DEF Buffers
          <6>4. QED
            BY <3>1, <6>1, <6>2, <6>3 DEF Meant
        <5>3. QED
          BY <3>1, <5>1, <5>2 DEF Whole, SendPcs
      <4>6. QED
        BY <2>4, <4>2, <4>3, <4>4, <4>5
    <3>7. QED
      BY <3>3, <3>5, <3>6
  <2>5. QED
    BY <2>1, <2>2, <2>3, <2>4 DEF ParserNext, parserVars
<1>3. Inv => PacketsWhole
  BY DEF PacketsWhole, Whole, Meant
<1> HIDE DEF Inv
<1>4. QED
  BY <1>1, <1>2, <1>3, ParserTypeCorrect, PTL DEF Parser
-----------------------------------------------------------------------------
(* HpvConn, for frames of any lengths, however many, and any growth step *)

\* The frames follow one another in the stream, of which a part has arrived.
Stream ==
  /\ \A i, k \in 0 .. Len(ends) : i < k => EndOf(i) + HeadLen <= EndOf(k)
  /\ \A i \in 0 .. Len(ends) - 1 :
       EndOf(i + 1) = EndOf(i) + IF sizes[i + 1] < HeadLen THEN HeadLen
                                                           ELSE sizes[i + 1]
  /\ arrived <= Sent

\* Between two callbacks the reader is at the start of a frame or behind its
\* head, which told it the length of a body that is not there yet.
Position ==
  LET n == Len(handled)
  IN  /\ n <= Len(ends)
      /\ status = "RECV_HEAD" => taken = EndOf(n)
      /\ status = "RECV_BODY" =>
           /\ n < Len(ends) /\ sizes[n + 1] >= HeadLen
           /\ taken = EndOf(n) + HeadLen
           /\ bodySize = NeededBody(sizes[n + 1])

\* The bodies that the parser got.
InOrder ==
  \A i \in 1 .. Len(handled) :
    /\ handled[i] = <<EndOf(i - 1) + HeadLen + 1, EndOf(i)>>
    /\ sizes[i] >= HeadLen

\* The buffer grew for one of the bodies, and holds each of them.
BodyLen(b) == b[2] - b[1] + 1
Grown ==
  /\ alloc <= MaxRoom
  /\ \A i \in 1 .. Len(handled) : BodyLen(handled[i]) <= alloc
  /\ alloc = 0 \/ \E i \in 1 .. Len(handled) :
       \/ alloc <= 2 * BodyLen(handled[i])
       \/ alloc <= BodyLen(handled[i]) + BigBuffer

\* Memory that is not there is written for the next frame, if its length is
\* below 4 or beyond what realloc() gives, or after the close of an EOF.
SoundLength(n) == n >= HeadLen /\ MakeRoom(NeededBody(n)) <= MaxRoom
Excused ==
  undefined => closed = "end" \/ \E i \in 1 .. Len(sizes) :
                                   i = Len(handled) + 1 /\ ~SoundLength(sizes[i])

\* The peer waits for the first of Window frames.  When everything has arrived
\* and no read callback is to come, there is no such frame, and the end of the
\* stream is only seen then.
Ending ==
  /\ Len(ends) <= Len(handled) + Window
  /\ "EOF" \in pending => ended /\ arrived = Sent
  /\ Live /\ "READ" \notin pending /\ arrived = Sent =>
       Len(ends) < Len(handled) + Window
  /\ EndKeepsFrames

Reader == Stream /\ Position /\ InOrder /\ Grown
ConnInv == ConnTypeOK /\ Reader /\ Excused /\ Ending

\* A connection starts with nothing sent, nothing read and no buffer.
LEMMA ConnInvInit == ConnInit => ConnInv
<1> SUFFICES ASSUME ConnInit PROVE ConnInv
  OBVIOUS
<1>1. ConnTypeOK
  <2>1. /\ ends \in Seq(Nat) /\ sizes \in Seq(Int) /\ Len(ends) = Len(sizes)
        /\ Len(ends) <= MaxFrames /\ handled \in Seq(Nat \X Nat)
    BY ConnAssumption DEF ConnInit
  <2>2. pending \subseteq {"READ"} \cup Events /\ taken \in 0 .. arrived
    BY DEF ConnInit
  <2>3. /\ reading \in BOOLEAN /\ writing \in BOOLEAN /\ output \in BOOLEAN
        /\ ended \in BOOLEAN /\ needClose \in BOOLEAN
        /\ failed \in BOOLEAN /\ undefined \in BOOLEAN
    BY DEF ConnInit
  <2>4. /\ arrived \in Nat /\ bodySize \in Nat /\ alloc \in Nat
        /\ closed = "no" /\ phase = "poll" /\ status = "RECV_HEAD"
    BY DEF ConnInit
  <2> QED BY <2>1, <2>2, <2>3, <2>4 DEF ConnTypeOK
<1>2. Reader
  BY ConnAssumption
  DEF ConnInit, Reader, Stream, Position, InOrder, Grown, EndOf, Sent
<1>3. Excused /\ Ending
  BY ConnAssumption DEF ConnInit, Excused, Ending, EndKeepsFrames, Live, Open
<1> QED BY <1>1, <1>2, <1>3 DEF ConnInv

\* Where a frame ends is a number.
LEMMA EndOfType ==
  ASSUME ConnTypeOK, NEW i \in 0 .. Len(ends)
  PROVE  EndOf(i) \in Nat
BY DEF ConnTypeOK, EndOf

\* Nothing happens to a closed connection, or after an undefined write.
LEMMA LiveSteps ==
  ConnNext => Live /\ closed = "no" /\ ~undefined
BY DEF ConnNext, PeerSend, PeerEnd, Arrive, Flush, RunDeferred, ReadEvent,
       WriteEvent, Callbacks, ReadCb, ErrorCb, Polling, Calling, Live, Open

\* What does not touch the stream or the reader keeps what is said of them.
LEMMA DataStays ==
  ASSUME Reader, UNCHANGED <<sizes, ends, taken, reader>>, arrived' <= Sent
  PROVE  Reader'
<1>1. UNCHANGED <<sizes, ends, taken, status, bodySize, alloc, handled>>
  BY DEF reader
<1>2. Stream'
  BY <1>1 DEF Reader, Stream, EndOf, Sent
<1>3. Position'
  BY <1>1 DEF Reader, Position, EndOf
<1>4. InOrder'
  BY <1>1 DEF Reader, InOrder, EndOf
<1>5. Grown'
  BY <1>1 DEF Reader, Grown, BodyLen
<1> QED BY <1>2, <1>3, <1>4, <1>5 DEF Reader

\* The peer sends one more frame.
LEMMA PeerSendStep ==
  ASSUME ConnInv, PeerSend
  PROVE  ConnInv'
<1> DEFINE long(n) == IF n < HeadLen THEN HeadLen ELSE n
<1>1. PICK n \in FrameSizes : /\ sizes' = Append(sizes, n)
                              /\ ends' = Append(ends, Sent + long(n))
  BY DEF PeerSend
<1>2. UNCHANGED <<ended, arrived, taken, reading, writing, output, phase,
                  pending, status, bodySize, alloc, handled, needClose, closed,
                  failed, undefined>>
  BY DEF PeerSend, reader
<1>3. n \in Int /\ long(n) \in Nat /\ long(n) >= HeadLen
  BY ConnAssumption DEF HeadLen
<1>4. /\ ConnTypeOK /\ ends \in Seq(Nat) /\ sizes \in Seq(Int)
      /\ Len(ends) = Len(sizes) /\ Len(ends) \in Nat /\ Sent \in Nat
  BY EndOfType DEF ConnInv, ConnTypeOK, Sent
<1> HIDE DEF long
<1>5. ends' \in Seq(Nat) /\ Len(ends') = Len(ends) + 1
      /\ (\A i \in 1 .. Len(ends) : ends'[i] = ends[i])
      /\ ends'[Len(ends) + 1] = Sent + long(n)
  <2> DEFINE e == Sent + long(n)
  <2>1. e \in Nat /\ ends' = Append(ends, e)
    BY <1>1, <1>3, <1>4
  <2> HIDE DEF e
  <2>2. ends' \in Seq(Nat) /\ Len(ends') = Len(ends) + 1
        /\ (\A i \in 1 .. Len(ends) : ends'[i] = ends[i])
        /\ ends'[Len(ends) + 1] = e
    BY <1>4, <2>1
  <2> QED BY <2>2 DEF e
<1>6. sizes' \in Seq(Int) /\ Len(sizes') = Len(ends) + 1
      /\ (\A i \in 1 .. Len(ends) : sizes'[i] = sizes[i])
      /\ sizes'[Len(ends) + 1] = n
  BY <1>1, <1>3, <1>4
<1>7. ConnTypeOK'
  <2>1. Len(ends') <= MaxFrames
    BY <1>4, <1>5, ConnAssumption DEF PeerSend
  <2> QED BY <1>2, <1>5, <1>6, <2>1 DEF ConnInv, ConnTypeOK
<1>8. /\ \A i \in 0 .. Len(ends) : EndOf(i)' = EndOf(i)
      /\ \A k : k = Len(ends) + 1 => EndOf(k)' = Sent + long(n)
      /\ Sent' = Sent + long(n)
  BY <1>4, <1>5 DEF EndOf, Sent
<1>9. Stream'
  <2>1. ASSUME NEW i \in 0 .. Len(ends'), NEW k \in 0 .. Len(ends'), i < k
        PROVE  EndOf(i)' + HeadLen <= EndOf(k)'
    <3>1. CASE k \in 0 .. Len(ends)
      BY <1>8, <2>1, <3>1 DEF ConnInv, Reader, Stream
    <3>2. CASE k = Len(ends) + 1
      <4>1. i \in 0 .. Len(ends) /\ Len(ends) \in Nat
        BY <1>5, <2>1, <3>2
      <4>2. EndOf(i) \in Nat
        BY <1>4, <4>1, EndOfType
      <4>3. i # Len(ends) => EndOf(i) + HeadLen <= Sent
        BY <4>1 DEF ConnInv, Reader, Stream, Sent
      <4>4. EndOf(i) <= Sent
        BY <1>4, <4>2, <4>3 DEF HeadLen, Sent
      <4>5. EndOf(k)' = Sent + long(n)
        BY <1>8, <3>2
      <4> QED BY <1>3, <1>4, <1>8, <4>1, <4>2, <4>4, <4>5 DEF HeadLen
    <3> QED BY <1>5, <2>1, <3>1, <3>2
  <2>2. arrived' <= Sent'
    BY <1>2, <1>3, <1>4, <1>8 DEF ConnInv, ConnTypeOK, Reader, Stream
  <2>3. ASSUME NEW i \in 0 .. Len(ends') - 1
        PROVE  EndOf(i + 1)' = EndOf(i)' + long(sizes'[i + 1])
    <3>1. CASE i = Len(ends)
      <4>1. EndOf(i + 1)' = Sent + long(n) /\ EndOf(i)' = Sent
        BY <1>4, <1>8, <3>1 DEF Sent
      <4> QED BY <1>6, <3>1, <4>1
    <3>2. CASE i # Len(ends)
      <4>1. /\ i \in 0 .. Len(ends) - 1 /\ i + 1 \in 1 .. Len(ends)
            /\ i \in 0 .. Len(ends) /\ i + 1 \in 0 .. Len(ends)
        BY <1>4, <1>5, <3>2
      <4>2. EndOf(i + 1) = EndOf(i) + long(sizes[i + 1])
        BY <4>1 DEF ConnInv, Reader, Stream, long
      <4> QED BY <1>6, <1>8, <4>1, <4>2
    <3> QED BY <3>1, <3>2
  <2> QED BY <2>1, <2>2, <2>3 DEF Stream, long
<1>10. Len(handled) \in 0 .. Len(ends)
  BY <1>4 DEF ConnInv, ConnTypeOK, Reader, Position
<1>11. Position'
  <2> DEFINE m == Len(handled)
  <2>1. EndOf(m)' = EndOf(m) /\ m <= Len(ends') /\ m \in Nat
    <3>1. m \in Nat /\ m \in 0 .. Len(ends) /\ Len(ends') \in Nat /\ m <= Len(ends')
      BY <1>4, <1>5, <1>10
    <3> QED BY <1>2, <1>8, <3>1
  <2>2. m < Len(ends) => m < Len(ends') /\ sizes'[m + 1] = sizes[m + 1]
    <3>1. m < Len(ends) => m < Len(ends') /\ m + 1 \in 1 .. Len(ends)
      BY <1>4, <1>5, <2>1
    <3> QED BY <1>6, <3>1
  <2> QED BY <1>2, <2>1, <2>2 DEF ConnInv, Reader, Position
<1>12. InOrder'
  <2>1. ASSUME NEW i \in 1 .. Len(handled)
        PROVE  /\ handled[i] = <<EndOf(i - 1)' + HeadLen + 1, EndOf(i)'>>
               /\ sizes'[i] >= HeadLen
    <3>1. i \in 1 .. Len(ends) /\ i \in 0 .. Len(ends) /\ i - 1 \in 0 .. Len(ends)
      BY <1>4, <1>10
    <3>2. EndOf(i - 1)' = EndOf(i - 1) /\ EndOf(i)' = EndOf(i) /\ sizes'[i] = sizes[i]
      BY <1>6, <1>8, <3>1
    <3> QED BY <3>2 DEF ConnInv, Reader, InOrder
  <2> QED BY <1>2, <2>1 DEF InOrder
<1>13. Grown'
  BY <1>2 DEF ConnInv, Reader, Grown, BodyLen
<1>14. Excused'
  BY <1>2 DEF PeerSend, Live, Excused
<1>15. Ending'
  <2>1. Len(ends) < Len(handled) + Window /\ ~ended /\ closed = "no"
    BY DEF PeerSend, Live, Open
  <2>2. arrived' # Sent'
    BY <1>2, <1>3, <1>4, <1>8 DEF ConnInv, ConnTypeOK, Reader, Stream, HeadLen
  <2>3. "EOF" \notin pending
    BY <2>1 DEF ConnInv, Ending
  <2>4. Len(ends') <= Len(handled) + Window
    BY <1>4, <1>5, <1>10, <2>1, ConnAssumption
  <2> QED BY <1>2, <2>1, <2>2, <2>3, <2>4 DEF Ending, EndKeepsFrames
<1> QED BY <1>7, <1>9, <1>11, <1>12, <1>13, <1>14, <1>15 DEF ConnInv, Reader

\* The event callback.
LEMMA ErrorCbStep ==
  ASSUME ConnInv, ErrorCb
  PROVE  ConnInv'
<1>1. /\ UNCHANGED <<net, taken, reader>> /\ UNCHANGED <<sizes, ends, ended>>
      /\ arrived' = arrived /\ writing' = writing /\ failed' = failed
  BY DEF ErrorCb, net
<1>2. UNCHANGED <<status, bodySize, alloc, handled>>
  BY <1>1 DEF reader
<1>3. ConnTypeOK /\ Reader /\ Ending /\ "READ" \notin pending
      /\ Live /\ closed = "no" /\ ~undefined
  BY DEF ErrorCb, Calling, Live, Open, ConnInv
<1>4. Reader'
  BY <1>1, <1>3, DataStays DEF Reader, Stream
<1>5. pending \subseteq Events /\ pending' = {} /\ phase' = "poll"
  BY <1>3 DEF ErrorCb, Done, ConnTypeOK
<1>6. CASE OnEof
  <2>1. Len(ends) < Len(handled) + Window
    BY <1>3, <1>6 DEF OnEof, Ending
  <2>2. closed' = "end" /\ undefined' \in BOOLEAN
        /\ UNCHANGED <<reading, output, needClose>>
    BY <1>6 DEF OnEof
  <2>3. ConnTypeOK'
    BY <1>1, <1>2, <1>3, <1>5, <2>2 DEF ConnTypeOK
  <2>4. Excused' /\ Ending'
    BY <1>1, <1>2, <1>3, <1>5, <2>1, <2>2
    DEF Excused, Ending, EndKeepsFrames, Live, Open
  <2> QED BY <1>4, <2>3, <2>4 DEF ConnInv
<1>7. CASE OnTimeout \/ OnError
  <2>1. /\ closed' \in {"no", "wanted"} /\ undefined' = undefined
        /\ reading' \in BOOLEAN /\ output' \in BOOLEAN /\ needClose' \in BOOLEAN
    <3>1. CASE OnTimeout /\ ~needClose
      BY <1>3, <3>1 DEF OnTimeout, Application, ConnTypeOK
    <3>2. CASE OnTimeout /\ needClose
      BY <1>3, <3>2 DEF OnTimeout, ConnTypeOK
    <3>3. CASE OnError
      BY <1>3, <3>3 DEF OnError, ConnTypeOK
    <3> QED BY <1>7, <3>1, <3>2, <3>3 DEF OnTimeout
  <2>2. ConnTypeOK'
    BY <1>1, <1>2, <1>3, <1>5, <2>1 DEF ConnTypeOK
  <2>3. Excused'
    BY <1>3, <2>1 DEF Excused
  <2>4. Ending'
    BY <1>1, <1>2, <1>3, <1>5, <2>1 DEF Ending, EndKeepsFrames, Sent, EndOf
  <2> QED BY <1>4, <2>2, <2>3, <2>4 DEF ConnInv
<1> QED BY <1>6, <1>7 DEF ErrorCb

\* The steps that read nothing.
LEMMA UnreadSteps ==
  ASSUME ConnInv,
         \/ PeerEnd \/ Arrive \/ Flush \/ RunDeferred
         \/ \E e \in Events : ReadEvent(e) \/ WriteEvent(e)
  PROVE  ConnInv'
<1>1. UNCHANGED <<sizes, ends, taken, reader, closed, undefined>>
  BY DEF PeerEnd, Arrive, Flush, RunDeferred, ReadEvent, WriteEvent, net
<1>2. UNCHANGED <<status, bodySize, alloc, handled>>
  BY <1>1 DEF reader
<1>3. ConnTypeOK /\ Reader /\ Ending /\ Live /\ closed = "no" /\ ~undefined
  BY LiveSteps DEF ConnInv, ConnNext
<1>4. Sent \in Nat /\ arrived \in Nat /\ arrived <= Sent
  BY <1>3, EndOfType DEF ConnTypeOK, Sent, Reader, Stream
<1>5. arrived' \in Nat /\ arrived' >= arrived /\ arrived' <= Sent
  BY <1>4 DEF Arrive, PeerEnd, Flush, RunDeferred, ReadEvent, WriteEvent
<1>6. Reader'
  BY <1>1, <1>3, <1>5, DataStays
<1>7. ConnTypeOK'
  <2>1. taken' \in 0 .. arrived'
    BY <1>1, <1>3, <1>5 DEF ConnTypeOK
  <2>2. CASE PeerEnd \/ Arrive \/ Flush \/ RunDeferred
    <3>1. /\ ended' \in BOOLEAN /\ pending' \subseteq {"READ"} \cup Events
          /\ output' \in BOOLEAN /\ phase' \in {"poll", "callbacks"}
          /\ UNCHANGED <<reading, writing, needClose, failed>>
      BY <1>3, <2>2 DEF ConnTypeOK, PeerEnd, Arrive, Flush, RunDeferred, net
    <3> QED BY <1>1, <1>2, <1>3, <1>5, <2>1, <3>1 DEF ConnTypeOK
  <2>3. CASE \E e \in Events : ReadEvent(e) \/ WriteEvent(e)
    <3>1. PICK e \in Events : ReadEvent(e) \/ WriteEvent(e)
      BY <2>3
    <3>2. CASE ReadEvent(e)
      BY <1>1, <1>2, <1>3, <1>5, <2>1, <3>2 DEF ConnTypeOK, ReadEvent, net
    <3>3. CASE WriteEvent(e)
      BY <1>1, <1>2, <1>3, <1>5, <2>1, <3>3 DEF ConnTypeOK, WriteEvent, net
    <3> QED BY <3>1, <3>2, <3>3
  <2> QED BY <2>2, <2>3
<1>8. Excused'
  BY <1>1, <1>3 DEF Excused
<1>9. Ending'
  <2>1. Sent' = Sent /\ Len(ends') = Len(ends) /\ Len(handled') = Len(handled)
    BY <1>1, <1>2 DEF Sent, EndOf
  <2>2. CASE Arrive
    <3>1. "EOF" \notin pending /\ pending' = pending \cup {"READ"} /\ ended' = ended
      BY <1>3, <1>4, <2>2 DEF Arrive, Ending, net
    <3> QED BY <1>1, <1>3, <2>1, <3>1 DEF Ending, EndKeepsFrames
  <2>3. CASE PeerEnd \/ Flush \/ RunDeferred
    <3>1. pending' = pending /\ arrived' = arrived /\ (ended => ended')
      BY <2>3 DEF PeerEnd, Flush, RunDeferred, net
    <3> QED BY <1>1, <1>3, <2>1, <3>1 DEF Ending, EndKeepsFrames
  <2>4. CASE \E e \in Events : ReadEvent(e) \/ WriteEvent(e)
    <3>1. PICK e \in Events : ReadEvent(e) \/ WriteEvent(e)
      BY <2>4
    <3>2. arrived' = arrived /\ ended' = ended /\ pending' = pending \cup {e}
          /\ e # "READ" /\ (e = "EOF" => ended /\ arrived = Sent)
      BY <3>1 DEF ReadEvent, WriteEvent, net, Events
    <3> QED BY <1>1, <1>3, <2>1, <3>2 DEF Ending, EndKeepsFrames
  <2> QED BY <2>2, <2>3, <2>4
<1> QED BY <1>6, <1>7, <1>8, <1>9 DEF ConnInv

\* A head that has arrived is that of the frame behind the handled ones.
LEMMA NextFrame ==
  ASSUME ConnTypeOK, Reader, HeadThere
  PROVE  LET n == Len(handled)
         IN  /\ n \in Nat /\ n < Len(ends) /\ sizes[n + 1] \in Int
             /\ Needed = NeededBody(sizes[n + 1])
             /\ Start = EndOf(n) + HeadLen
<1> DEFINE n == Len(handled)
<1>1. ConnTypeOK /\ n \in Nat /\ Len(ends) \in Nat /\ n <= Len(ends)
  BY DEF Reader, ConnTypeOK, Position
<1>2. \A k \in 0 .. Len(ends) : sizes[k + 1] \in Int \/ k = Len(ends)
  BY <1>1 DEF ConnTypeOK
<1>3. CASE status = "RECV_HEAD"
  <2>1. taken = EndOf(n) /\ arrived - taken >= HeadLen
    BY <1>3 DEF Reader, Position, HeadThere
  <2>2. n # Len(ends)
    <3>1. taken \in Nat /\ arrived \in Nat /\ Sent \in Nat /\ arrived <= Sent
      BY <1>1, EndOfType DEF ConnTypeOK, Reader, Stream, Sent
    <3> QED BY <1>1, <2>1, <3>1 DEF HeadLen, Sent
  <2>3. \A i \in 0 .. Len(ends) : i # n => EndOf(i) # EndOf(n)
    <3> TAKE i \in 0 .. Len(ends)
    <3>1. EndOf(i) \in Nat /\ EndOf(n) \in Nat
      BY <1>1, EndOfType
    <3>2. i < n => EndOf(i) + HeadLen <= EndOf(n)
      BY <1>1 DEF Reader, Stream
    <3>3. n < i => EndOf(n) + HeadLen <= EndOf(i)
      BY <1>1 DEF Reader, Stream
    <3> QED BY <1>1, <3>1, <3>2, <3>3 DEF HeadLen
  <2> DEFINE Here(k) == k \in 1 .. Len(ends) /\ EndOf(k - 1) = taken
  <2>4. Here(n + 1)
    BY <1>1, <2>1, <2>2
  <2>5. \A k : Here(k) => k = n + 1
    <3> SUFFICES ASSUME NEW k, Here(k) PROVE k = n + 1
      OBVIOUS
    <3>1. k - 1 \in 0 .. Len(ends) /\ k \in Int
      OBVIOUS
    <3> QED BY <1>1, <2>1, <2>3, <3>1
  <2>6. (CHOOSE k \in 1 .. Len(ends) : EndOf(k - 1) = taken) = n + 1
    BY <2>4, <2>5
  <2>7. SizeAt(taken) = sizes[n + 1]
    BY <2>6 DEF SizeAt
  <2> QED BY <1>1, <1>2, <1>3, <2>1, <2>2, <2>7 DEF Needed, Start
<1>4. CASE status = "RECV_BODY"
  BY <1>1, <1>2, <1>4 DEF Reader, Position, Needed, Start
<1> QED BY <1>3, <1>4 DEF ConnTypeOK

\* A frame whose length counts its head ends where its body does.
LEMMA FrameBody ==
  ASSUME ConnTypeOK, Stream, NEW n \in Nat, n < Len(ends), sizes[n + 1] >= HeadLen
  PROVE  /\ EndOf(n) \in Nat /\ EndOf(n + 1) \in Nat
         /\ NeededBody(sizes[n + 1]) \in Nat
         /\ EndOf(n) + HeadLen + NeededBody(sizes[n + 1]) = EndOf(n + 1)
<1>1. n \in 0 .. Len(ends) /\ n + 1 \in 0 .. Len(ends) /\ n \in 0 .. Len(ends) - 1
  BY DEF ConnTypeOK
<1>2. EndOf(n) \in Nat /\ EndOf(n + 1) \in Nat /\ sizes[n + 1] \in Int
  BY <1>1, EndOfType DEF ConnTypeOK
<1>3. EndOf(n + 1) = EndOf(n) + sizes[n + 1]
  BY <1>1, <1>2 DEF Stream, HeadLen
<1> QED BY <1>2, <1>3 DEF HeadLen, NeededBody

\* The read callback waits for the rest, with the head read or not; then either
\* more is on its way, or no frame is left.
LEMMA ReadPartStep ==
  ASSUME ConnTypeOK, Reader, ReadPart,
         UNCHANGED <<sizes, ends, arrived, alloc, handled>>
  PROVE  /\ Reader'
         /\ taken' \in 0 .. arrived' /\ bodySize' \in Nat
         /\ status' \in {"RECV_HEAD", "RECV_BODY"}
         /\ arrived = Sent => Len(handled) = Len(ends)
<1> DEFINE n == Len(handled)
<1>1. Stream' /\ InOrder' /\ Grown'
  BY DEF Reader, Stream, InOrder, Grown, EndOf, Sent, BodyLen
<1>2. /\ arrived \in Nat /\ taken \in Nat /\ taken <= arrived
      /\ Sent \in Nat /\ arrived <= Sent /\ Len(ends) \in Nat /\ n \in Nat
      /\ n <= Len(ends)
  BY EndOfType DEF ConnTypeOK, Reader, Stream, Position, Sent
<1>3. CASE ~HeadThere /\ UNCHANGED <<taken, status, bodySize>>
  <2>1. Position'
    BY <1>3 DEF Reader, Position, EndOf
  <2>2. taken = EndOf(n) /\ arrived - taken < HeadLen
    BY <1>2, <1>3 DEF Reader, Position, HeadThere, HeadLen
  <2>3. n # Len(ends) => EndOf(n) + HeadLen <= Sent
    BY <1>2 DEF Reader, Stream, Sent
  <2>4. arrived = Sent => n = Len(ends)
    BY <1>2, <2>2, <2>3 DEF HeadLen
  <2> QED BY <1>1, <1>3, <2>1, <2>4 DEF Reader, ConnTypeOK
<1>4. CASE /\ HeadThere /\ arrived - Start < Needed
           /\ taken' = Start /\ status' = "RECV_BODY" /\ bodySize' = Needed
  <2>1. /\ n < Len(ends) /\ sizes[n + 1] \in Int
        /\ Needed = NeededBody(sizes[n + 1]) /\ Start = EndOf(n) + HeadLen
    BY <1>4, NextFrame
  <2>2. Start \in Nat /\ Start <= arrived
    BY <1>2, <1>4 DEF Start, HeadThere, HeadLen
  <2>3. sizes[n + 1] >= HeadLen
    BY <1>2, <1>4, <2>1, <2>2 DEF NeededBody, HeadLen
  <2>4. /\ Needed \in Nat /\ EndOf(n + 1) \in Nat
        /\ EndOf(n) + HeadLen + Needed = EndOf(n + 1)
    BY <1>2, <2>1, <2>3, FrameBody DEF Reader
  <2>5. Position'
    BY <1>4, <2>1, <2>3 DEF Reader, Position, EndOf
  <2>6. EndOf(n + 1) <= Sent
    <3>1. n + 1 # Len(ends) => EndOf(n + 1) + HeadLen <= Sent
      BY <1>2, <2>1 DEF Reader, Stream, Sent
    <3> QED BY <1>2, <2>4, <3>1 DEF Sent, HeadLen
  <2>7. arrived # Sent
    BY <1>2, <1>4, <2>1, <2>2, <2>4, <2>6
  <2> QED BY <1>1, <1>2, <1>4, <2>2, <2>4, <2>5, <2>7 DEF Reader
<1> QED BY <1>3, <1>4 DEF ReadPart

\* makeRoom gives room for the body, and no more than it has to.
LEMMA RoomMade ==
  ASSUME alloc \in Nat, NEW n \in Nat
  PROVE  /\ MakeRoom(n) \in Nat /\ MakeRoom(n) >= n /\ MakeRoom(n) >= alloc
         /\ MakeRoom(n) # alloc => MakeRoom(n) <= 2 * n
                                     \/ MakeRoom(n) <= n + BigBuffer
BY ConnAssumption DEF MakeRoom

\* The read callback gives the body of the next frame to the parser.
LEMMA ReadBodyStep ==
  ASSUME ConnTypeOK, Reader, ReadBody, UNCHANGED <<sizes, ends, arrived>>
  PROVE  /\ Reader'
         /\ taken' \in 0 .. arrived' /\ bodySize' \in Nat /\ alloc' \in Nat
         /\ status' \in {"RECV_HEAD", "RECV_BODY"}
         /\ handled' \in Seq(Nat \X Nat) /\ Len(handled') = Len(handled) + 1
<1> DEFINE n == Len(handled)
           b == <<EndOf(n) + HeadLen + 1, EndOf(n + 1)>>
<1>1. ConnTypeOK /\ Stream /\ Position /\ InOrder /\ Grown
  BY DEF Reader
<1>2. /\ n \in Nat /\ n < Len(ends) /\ sizes[n + 1] \in Int
      /\ Needed = NeededBody(sizes[n + 1]) /\ Start = EndOf(n) + HeadLen
      /\ Needed >= 0 /\ arrived - Start >= Needed /\ MakeRoom(Needed) <= MaxRoom
  BY NextFrame DEF ReadBody, BodyThere
<1>3. sizes[n + 1] >= HeadLen
  BY <1>2 DEF NeededBody, HeadLen
<1>4. /\ EndOf(n) \in Nat /\ EndOf(n + 1) \in Nat /\ Needed \in Nat
      /\ EndOf(n) + HeadLen + Needed = EndOf(n + 1)
  BY <1>1, <1>2, <1>3, FrameBody
<1>5. /\ taken' = EndOf(n + 1) /\ alloc' = MakeRoom(Needed)
      /\ handled' = Append(handled, b)
      /\ status' = "RECV_HEAD" /\ bodySize' = Needed
  BY <1>2, <1>4 DEF ReadBody
<1>6. b \in Nat \X Nat /\ BodyLen(b) = Needed
  <2>1. EndOf(n) + HeadLen + 1 \in Nat
    BY <1>4 DEF HeadLen
  <2>2. EndOf(n + 1) - (EndOf(n) + HeadLen + 1) + 1 = Needed
    BY <1>4 DEF HeadLen
  <2> QED BY <1>4, <2>1, <2>2 DEF BodyLen
<1> HIDE DEF b
<1>7. /\ handled' \in Seq(Nat \X Nat) /\ Len(handled') = n + 1
      /\ \A i \in 1 .. n : handled'[i] = handled[i]
      /\ handled'[n + 1] = b
  BY <1>1, <1>5, <1>6 DEF ConnTypeOK
<1>8. \A i : EndOf(i)' = EndOf(i)
  BY DEF EndOf
<1>9. Stream'
  BY <1>1, <1>8 DEF Stream, Sent
<1>10. Position'
  BY <1>2, <1>5, <1>7, <1>8 DEF Position
<1>11. InOrder'
  <2>1. (n + 1) - 1 = n
    BY <1>2
  <2>2. \A i \in 1 .. n : /\ handled'[i] = <<EndOf(i - 1) + HeadLen + 1, EndOf(i)>>
                          /\ sizes[i] >= HeadLen
    BY <1>1, <1>7 DEF InOrder
  <2>3. handled'[n + 1] = <<EndOf((n + 1) - 1) + HeadLen + 1, EndOf(n + 1)>>
    BY <1>7, <2>1 DEF b
  <2>4. \A i \in 1 .. Len(handled') : i \in 1 .. n \/ i = n + 1
    BY <1>2, <1>7
  <2>5. \A i \in 1 .. Len(handled') :
          /\ handled'[i] = <<EndOf(i - 1) + HeadLen + 1, EndOf(i)>>
          /\ sizes[i] >= HeadLen
    BY <1>3, <2>2, <2>3, <2>4
  <2> QED BY <1>8, <2>5 DEF InOrder
<1>12. alloc \in Nat /\ alloc' \in Nat /\ alloc' >= Needed /\ alloc' >= alloc
       /\ (alloc' # alloc => alloc' <= 2 * Needed \/ alloc' <= Needed + BigBuffer)
  BY <1>1, <1>4, <1>5, RoomMade DEF ConnTypeOK
<1>13. \A i \in 1 .. n : BodyLen(handled[i]) \in Int
  <2> TAKE i \in 1 .. n
  <2>1. handled[i] \in Nat \X Nat
    BY <1>1 DEF ConnTypeOK
  <2> QED BY <2>1 DEF BodyLen
<1>14. Grown'
  <2>1. \A i \in 1 .. n + 1 : BodyLen(handled'[i]) <= alloc'
    <3>1. \A i \in 1 .. n : BodyLen(handled[i]) <= alloc
      BY <1>1 DEF Grown
    <3>2. \A i \in 1 .. n : BodyLen(handled[i]) <= alloc'
      BY <1>12, <1>13, <3>1
    <3>3. BodyLen(handled'[n + 1]) <= alloc'
      BY <1>4, <1>6, <1>7, <1>12
    <3>4. \A i \in 1 .. n + 1 : i \in 1 .. n \/ i = n + 1
      BY <1>2
    <3> QED BY <1>7, <3>2, <3>3, <3>4
  <2>2. alloc' <= MaxRoom
    BY <1>2, <1>5
  <2>3. CASE alloc' = alloc
    <3>1. \A i \in 1 .. n : i \in 1 .. n + 1 /\ handled'[i] = handled[i]
      BY <1>2, <1>7
    <3> QED BY <1>1, <1>7, <2>1, <2>2, <2>3, <3>1 DEF Grown, BodyLen
  <2>4. CASE alloc' # alloc
    <3>1. n + 1 \in 1 .. n + 1 /\ BodyLen(handled'[n + 1]) = Needed
      BY <1>2, <1>6, <1>7
    <3> QED BY <1>7, <1>12, <2>1, <2>2, <2>4, <3>1 DEF Grown, BodyLen
  <2> QED BY <2>3, <2>4
<1>15. taken' \in 0 .. arrived'
  <2>1. taken' \in Nat /\ arrived \in Nat
    BY <1>1, <1>4, <1>5 DEF ConnTypeOK
  <2> QED BY <1>2, <1>4, <1>5, <2>1 DEF HeadLen
<1> QED
  BY <1>4, <1>5, <1>7, <1>9, <1>10, <1>11, <1>12, <1>14, <1>15 DEF Reader

\* hpv_conn_readcb
LEMMA ReadCbStep ==
  ASSUME ConnInv, ReadCb
  PROVE  ConnInv'
<1>1. ConnTypeOK /\ Reader /\ Ending /\ Live /\ closed = "no" /\ ~undefined
  BY DEF ReadCb, Calling, Live, Open, ConnInv
<1>2. /\ pending' = pending \ {"READ"} /\ phase' \in {"poll", "callbacks"}
      /\ closed' = closed
      /\ UNCHANGED <<sizes, ends, ended, arrived, reading, failed>>
  BY DEF ReadCb, Done, net
<1>3. writing' \in BOOLEAN /\ output' \in BOOLEAN /\ needClose' \in BOOLEAN
  BY <1>1 DEF ReadCb, Overrun, ReadBody, Application, ConnTypeOK
<1>4. /\ Len(ends) \in Nat /\ Len(handled) \in Nat /\ Sent' = Sent
      /\ Len(ends) <= Len(handled) + Window /\ Window \in Nat \ {0}
  BY <1>1, <1>2, ConnAssumption DEF ConnTypeOK, Ending, Sent, EndOf
<1>5. CASE ReadPart /\ UNCHANGED <<alloc, handled, undefined>>
  <2>1. /\ Reader' /\ taken' \in 0 .. arrived' /\ bodySize' \in Nat
        /\ status' \in {"RECV_HEAD", "RECV_BODY"}
        /\ arrived = Sent => Len(handled) = Len(ends)
    BY <1>1, <1>2, <1>5, ReadPartStep
  <2>2. ConnTypeOK'
    BY <1>1, <1>2, <1>3, <1>5, <2>1 DEF ConnTypeOK
  <2>3. Excused' /\ Ending'
    BY <1>1, <1>2, <1>4, <1>5, <2>1 DEF Excused, Ending, EndKeepsFrames
  <2> QED BY <2>1, <2>2, <2>3 DEF ConnInv
<1>6. CASE ReadBody /\ UNCHANGED undefined
  <2>1. /\ Reader' /\ taken' \in 0 .. arrived' /\ bodySize' \in Nat /\ alloc' \in Nat
        /\ status' \in {"RECV_HEAD", "RECV_BODY"}
        /\ handled' \in Seq(Nat \X Nat) /\ Len(handled') = Len(handled) + 1
    BY <1>1, <1>2, <1>6, ReadBodyStep
  <2>2. ConnTypeOK'
    BY <1>1, <1>2, <1>3, <1>6, <2>1 DEF ConnTypeOK
  <2>3. Len(ends') < Len(handled') + Window
    BY <1>2, <1>4, <2>1
  <2>4. Len(ends') <= Len(handled') + Window
    BY <1>2, <1>4, <2>1
  <2>5. Excused' /\ Ending'
    BY <1>1, <1>2, <1>4, <1>6, <2>3, <2>4 DEF Excused, Ending, EndKeepsFrames
  <2> QED BY <2>1, <2>2, <2>5 DEF ConnInv
<1>7. CASE Overrun
  <2>1. UNCHANGED <<taken, reader, writing, output, needClose>> /\ undefined'
    BY <1>7 DEF Overrun
  <2>2. UNCHANGED <<status, bodySize, alloc, handled>>
    BY <2>1 DEF reader
  <2>3. Reader'
    BY <1>1, <1>2, <2>1, DataStays DEF Reader, Stream
  <2>4. undefined' = TRUE
    BY <1>7 DEF Overrun
  <2>5. ConnTypeOK'
    BY <1>1, <1>2, <2>1, <2>2, <2>4 DEF ConnTypeOK
  <2>6. Ending'
    BY <1>1, <1>2, <1>4, <2>1, <2>2 DEF Ending, EndKeepsFrames, Live
  <2>7. Excused'
    <3> DEFINE n == Len(handled)
    <3>1. /\ n < Len(ends) /\ sizes[n + 1] \in Int
          /\ Needed = NeededBody(sizes[n + 1])
          /\ Needed < 0 \/ MakeRoom(Needed) > MaxRoom
      BY <1>1, <1>7, NextFrame DEF Overrun, BodyThere
    <3>2. ~SoundLength(sizes[n + 1])
      <4>1. CASE Needed < 0
        BY <3>1, <4>1 DEF SoundLength, NeededBody, HeadLen
      <4>2. CASE Needed >= 0 /\ MakeRoom(Needed) > MaxRoom
        <5>1. Needed \in Nat /\ alloc \in Nat /\ MaxRoom \in Nat
          BY <1>1, <3>1, <4>2, ConnAssumption DEF ConnTypeOK, NeededBody, HeadLen
        <5>2. MakeRoom(Needed) \in Nat
          BY <5>1, RoomMade
        <5> QED BY <3>1, <4>2, <5>1, <5>2 DEF SoundLength
      <4> QED BY <3>1, <4>1, <4>2 DEF NeededBody, HeadLen
    <3>3. n + 1 \in 1 .. Len(sizes)
      BY <1>1, <1>4, <3>1 DEF ConnTypeOK
    <3>4. \A m : SoundLength(m)' <=> SoundLength(m)
      BY <2>2 DEF SoundLength, MakeRoom, NeededBody
    <3> QED BY <1>2, <2>2, <3>2, <3>3, <3>4 DEF Excused
  <2> QED BY <2>3, <2>5, <2>6, <2>7 DEF ConnInv
<1> QED BY <1>5, <1>6, <1>7 DEF ReadCb

\* Nothing happens.
LEMMA ConnStutter ==
  ASSUME ConnInv, UNCHANGED connVars
  PROVE  ConnInv'
<1>1. /\ UNCHANGED <<sizes, ends, ended, status, bodySize, alloc, handled>>
      /\ UNCHANGED <<arrived, taken, reading, writing, output, phase, pending,
                     needClose, closed, failed, undefined>>
  BY DEF connVars, net, reader
<1>2. Reader'
  BY <1>1, DataStays DEF ConnInv, Reader, Stream, reader
<1>3. ConnTypeOK' /\ Ending'
  BY <1>1 DEF ConnInv, ConnTypeOK, Ending, EndKeepsFrames, Live, Open, Sent, EndOf
<1>4. Excused'
  BY <1>1 DEF ConnInv, Excused, SoundLength, MakeRoom
<1> QED BY <1>2, <1>3, <1>4 DEF ConnInv

\* Every step keeps the invariant.
LEMMA ConnInvNext == ConnInv /\ [ConnNext]_connVars => ConnInv'
BY PeerSendStep, UnreadSteps, ErrorCbStep, ReadCbStep, ConnStutter
DEF ConnNext, Callbacks

\* The inductive invariant holds in every state.
LEMMA ConnInvAlways == Conn => []ConnInv
BY ConnInvInit, ConnInvNext, PTL DEF Conn

\* Each variable of the connection keeps to its type.
THEOREM ConnTypeCorrect == Conn => []ConnTypeOK
BY ConnInvAlways, PTL DEF ConnInv

\* However the stream is cut into pieces, the parser gets the bodies of the
\* frames, whole, once and in order, whatever lengths their heads give.
THEOREM FramesArriveInOrder == Conn => []FramesInOrder
<1>1. ConnInv => FramesInOrder
  BY DEF ConnInv, Reader, FramesInOrder, Position, InOrder
<1> QED BY <1>1, ConnInvAlways, PTL

\* Whatever lengths the heads give, makeRoom has room for every body that is
\* handled and wastes at most the longest one's length, or a megabyte; and only
\* a length below 4, or one that realloc() has no room for, makes the reader
\* write where it has none.
THEOREM BodiesFit == Conn => []BufferFits
<1>1. ConnInv => BufferFits
  <2> SUFFICES ASSUME ConnInv PROVE BufferFits
    OBVIOUS
  <2> DEFINE Longest(n) == \A i \in 1 .. Len(handled) : BodyLen(handled[i]) <= n
  <2>1. Longest(alloc) /\ alloc <= MaxRoom
    BY DEF ConnInv, Reader, Grown
  <2>2. ASSUME NEW n \in 0 .. alloc, Longest(n)
        PROVE  alloc <= 2 * n \/ alloc <= n + BigBuffer
    <3>1. alloc \in Nat /\ n \in Nat /\ BigBuffer \in Nat
      BY ConnAssumption DEF ConnInv, ConnTypeOK
    <3>2. CASE alloc = 0
      BY <3>1, <3>2
    <3>3. ASSUME NEW i \in 1 .. Len(handled),
                 \/ alloc <= 2 * BodyLen(handled[i])
                 \/ alloc <= BodyLen(handled[i]) + BigBuffer
          PROVE  alloc <= 2 * n \/ alloc <= n + BigBuffer
      <4>1. handled[i] \in Nat \X Nat
        BY DEF ConnInv, ConnTypeOK
      <4>2. BodyLen(handled[i]) \in Int
        BY <4>1 DEF BodyLen
      <4>3. BodyLen(handled[i]) <= n
        BY <2>2
      <4> QED BY <3>1, <3>3, <4>2, <4>3
    <3> QED BY <3>2, <3>3 DEF ConnInv, Reader, Grown
  <2>3. \A i \in 1 .. Len(handled) : sizes[i] >= HeadLen
    BY DEF ConnInv, Reader, InOrder
  <2>4. Excused
    BY DEF ConnInv
  <2> QED BY <2>1, <2>2, <2>3, <2>4
          DEF BufferFits, BodyLen, Excused, SoundLength, NeededBody
<1> QED BY <1>1, ConnInvAlways, PTL

\* However the end of the stream comes together with the last bytes, the close
\* costs the peer none but the last Window - 1 frames.
THEOREM EndLosesFew == Conn => []EndKeepsFrames
<1>1. ConnInv => EndKeepsFrames
  BY DEF ConnInv, Ending
<1> QED BY <1>1, ConnInvAlways, PTL

(* FieldCodec, for any numbers, strings and length of the buffer *)

\* The two bytes of q behind byte p hold the number n.
Holds16(q, p, n) ==
  p + 2 <= Len(q) /\ q[p + 1] + 256 * q[p + 2] = Unsigned(n)

\* The field f lies in the bytes q, behind byte p.
Lies(f, p, q) ==
  /\ p \in Nat /\ f.end <= Len(q)
  /\ f.kind = "number" => f.end = p + 2 /\ Holds16(q, p, f.number)
  /\ f.kind = "string" =>
       /\ f.end = p + 2 + Len(f.string)
       /\ Len(f.string) <= MAX_SEND_LEN
       /\ Holds16(q, p, Len(f.string))
       /\ \A k \in 1 .. Len(f.string) : q[p + 2 + k] = Copied(f.string)[k]

\* Every field lies behind the field before it, and they fill the buffer.
LaidOut ==
  /\ \A i \in 1 .. Len(fields) : Lies(fields[i], Extent(i - 1), buf)
  /\ Extent(Len(fields)) = Len(buf)

\* Nothing is read before the message arrives; the reader's string variable
\* holds what the strings read so far left in it.
ReadSoFar ==
  /\ got \in Seq(Numbers \cup Seq(Byte))
  /\ step = "write" => got = <<>> /\ value = <<>> /\ pos = 0
  /\ step # "write" => value = Held(Len(got) + 1)

CodecInv == ReadBack /\ LaidOut /\ ReadSoFar
\* A short is read as it was written: two bytes hold it, and the reader's short
\* has its sign again.
LEMMA ShortAgain ==
  ASSUME NEW n \in Int, n >= -32768, n <= 32767
  PROVE  /\ Short(Unsigned(n)) = n
         /\ Bytes16(n) \in Seq(Byte) /\ Len(Bytes16(n)) = 2
         /\ Bytes16(n)[1] + 256 * Bytes16(n)[2] = Unsigned(n)
<1> DEFINE u == n % 65536
<1>1. u \in Int /\ 0 <= u /\ u <= 65535
  OBVIOUS
<1>2. u = IF n >= 0 THEN n ELSE n + 65536
  <2>1. CASE n >= 0
    BY <2>1
  <2>2. CASE n < 0
    <3>1. n % 65536 = n + 65536
      BY <2>2
    <3> QED BY <2>2, <3>1
  <2> QED BY <2>1, <2>2
<1>3. Unsigned(n) = u /\ Bytes16(n) = <<u % 256, u \div 256>>
  BY DEF Unsigned, Bytes16
<1> HIDE DEF u
<1>4. Short(u) = n
  BY <1>1, <1>2 DEF Short
<1>5. u % 256 \in Byte /\ u \div 256 \in Byte /\ (u % 256) + 256 * (u \div 256) = u
  BY <1>1 DEF Byte
<1>6. /\ Bytes16(n) \in Seq(Byte) /\ Len(Bytes16(n)) = 2
      /\ Bytes16(n)[1] + 256 * Bytes16(n)[2] = u
  BY <1>3, <1>5
<1> QED BY <1>3, <1>4, <1>6

\* strncpy copies bytes, as many as the string has.
LEMMA CopiedIs ==
  ASSUME NEW s \in Seq(Byte)
  PROVE  /\ Copied(s) \in Seq(Byte) /\ Len(Copied(s)) = Len(s)
         /\ DOMAIN Copied(s) = 1 .. Len(s)
<1> DEFINE n == Len(s)
           c == Copied(s)
<1>1. /\ n \in Nat
      /\ DOMAIN s = 1 .. n
      /\ \A i \in 1 .. n : s[i] \in Byte
  <2>1. n \in Nat
    OBVIOUS
  <2>2. DOMAIN s = 1 .. n
    OBVIOUS
  <2>3. \A i \in 1 .. Len(s) : s[i] \in Byte
    OBVIOUS
  <2> QED BY <2>1, <2>2, <2>3
<1>2. c = [i \in 1 .. n |-> c[i]]
  BY <1>1 DEF Copied
<1>3. \A i \in 1 .. n : c[i] \in Byte
  <2>1. 0 \in Byte
    BY DEF Byte
  <2> QED BY <1>1, <2>1 DEF Copied
<1> HIDE DEF n, c
<1>4. c \in [1 .. n -> Byte]
  BY <1>2, <1>3
<1>5. c \in Seq(Byte) /\ Len(c) = n /\ DOMAIN c = 1 .. n
  BY <1>1, <1>4
<1> QED BY <1>5 DEF n, c

\* What a field is.
LEMMA FieldIs ==
  ASSUME NEW f \in Field
  PROVE  /\ f.kind \in {"number", "string"} /\ f.end \in Nat
         /\ f.kind = "number" => f.number \in Numbers
         /\ f.kind = "string" => /\ f.string \in Strings
                                 /\ f.string \in Seq(Byte)
                                 /\ Len(f.string) \in Nat
<1>1. CASE f \in [kind : {"number"}, number : Numbers, end : Nat]
  BY <1>1
<1>2. CASE f \in [kind : {"string"}, string : Strings, end : Nat]
  <2>1. f.kind = "string" /\ f.string \in Strings /\ f.end \in Nat
    BY <1>2
  <2>2. f.string \in Seq(Byte)
    BY <2>1, FieldCodecAssumption
  <2>3. Len(f.string) \in Nat
    BY <2>2
  <2> QED BY <2>1, <2>2, <2>3
<1> QED BY <1>1, <1>2 DEF Field

\* Where the bytes of a concatenation are.
LEMMA Behind ==
  ASSUME NEW q \in Seq(Byte), NEW b \in Seq(Byte)
  PROVE  /\ q \o b \in Seq(Byte) /\ Len(q) \in Nat /\ Len(b) \in Nat
         /\ Len(q \o b) = Len(q) + Len(b)
         /\ \A k \in 1 .. Len(q) : (q \o b)[k] = q[k]
         /\ \A k \in 1 .. Len(b) : (q \o b)[Len(q) + k] = b[k]
OBVIOUS

\* What lies in the buffer stays where it is when bytes are appended.
LEMMA LiesStill ==
  ASSUME NEW f \in Field, NEW p, NEW q \in Seq(Byte), NEW b \in Seq(Byte),
         Lies(f, p, q)
  PROVE  Lies(f, p, q \o b)
<1> DEFINE e == Len(q)
           r == q \o b
<1>1. e \in Nat /\ Len(b) \in Nat /\ Len(r) = e + Len(b)
  OBVIOUS
<1>2. \A k \in 1 .. e : r[k] = q[k]
  OBVIOUS
<1>3. f.kind \in {"number", "string"} /\ f.end \in Nat
  BY FieldIs
<1>4. p \in Nat /\ f.end <= e
  BY DEF Lies
<1> HIDE DEF e, r
<1>5. f.end <= Len(r)
  BY <1>1, <1>3, <1>4
<1>6. CASE f.kind = "number"
  <2>1. f.end = p + 2 /\ Holds16(q, p, f.number)
    BY <1>6 DEF Lies
  <2>2. p + 1 \in 1 .. e /\ p + 2 \in 1 .. e
    BY <1>1, <1>3, <1>4, <2>1
  <2>3. r[p + 1] = q[p + 1] /\ r[p + 2] = q[p + 2] /\ p + 2 <= Len(r)
    BY <1>2, <1>5, <2>1, <2>2
  <2>4. Holds16(r, p, f.number)
    BY <2>1, <2>3 DEF Holds16
  <2> QED BY <1>4, <1>5, <1>6, <2>1, <2>4 DEF Lies, r
<1>7. CASE f.kind = "string"
  <2> DEFINE l == Len(f.string)
             c == Copied(f.string)
  <2>1. /\ f.end = p + 2 + l /\ l <= MAX_SEND_LEN /\ Holds16(q, p, l)
        /\ \A k \in 1 .. l : q[p + 2 + k] = c[k]
    BY <1>7 DEF Lies
  <2>2. l \in Nat
    BY <1>7, FieldIs
  <2> HIDE DEF l, c
  <2>3. p + 1 \in 1 .. e /\ p + 2 \in 1 .. e /\ \A k \in 1 .. l : p + 2 + k \in 1 .. e
    BY <1>1, <1>3, <1>4, <2>1, <2>2
  <2>4. r[p + 1] = q[p + 1] /\ r[p + 2] = q[p + 2] /\ p + 2 <= Len(r)
    BY <1>1, <1>2, <1>4, <1>5, <2>1, <2>2, <2>3
  <2>5. \A k \in 1 .. l : r[p + 2 + k] = c[k]
    BY <1>2, <2>1, <2>3
  <2>6. Holds16(r, p, l)
    BY <2>1, <2>4 DEF Holds16
  <2> QED BY <1>4, <1>5, <1>7, <2>1, <2>5, <2>6 DEF Lies, l, c, r
<1> QED BY <1>3, <1>6, <1>7

\* A number lies where write16 puts it.
LEMMA NumberLies ==
  ASSUME NEW n \in Numbers, NEW q \in Seq(Byte), NEW f,
         f = [kind |-> "number", number |-> n, end |-> Len(q) + 2]
  PROVE  /\ Bytes16(n) \in Seq(Byte) /\ Len(Bytes16(n)) = 2
         /\ Lies(f, Len(q), q \o Bytes16(n)) /\ f \in Field
<1> DEFINE e == Len(q)
           b == Bytes16(n)
           r == q \o b
<1>1. n \in Int /\ n >= -32768 /\ n <= 32767
  BY FieldCodecAssumption
<1>2. b \in Seq(Byte) /\ Len(b) = 2 /\ b[1] + 256 * b[2] = Unsigned(n)
  BY <1>1, ShortAgain
<1> HIDE DEF b
<1>3. Len(r) = e + 2 /\ r[e + 1] = b[1] /\ r[e + 2] = b[2] /\ e \in Nat
  <2>1. e \in Nat /\ Len(r) = e + Len(b) /\ \A k \in 1 .. Len(b) : r[e + k] = b[k]
    BY <1>2, Behind
  <2> HIDE DEF e, r
  <2>2. 1 \in 1 .. Len(b) /\ 2 \in 1 .. Len(b)
    BY <1>2
  <2> QED BY <1>2, <2>1, <2>2
<1>4. f.kind = "number" /\ f.number = n /\ f.end = e + 2
  OBVIOUS
<1> HIDE DEF e, r
<1>5. Holds16(r, e, n)
  BY <1>2, <1>3 DEF Holds16
<1>6. Lies(f, e, r)
  BY <1>3, <1>4, <1>5 DEF Lies
<1>7. f \in Field
  BY DEF Field
<1> QED BY <1>2, <1>6, <1>7 DEF e, b, r

\* A string lies where writeString puts it.
LEMMA StringLies ==
  ASSUME NEW s \in Strings, NEW q \in Seq(Byte), NEW f, Len(s) <= MAX_SEND_LEN,
         f = [kind |-> "string", string |-> s, end |-> Len(q) + 2 + Len(s)]
  PROVE  /\ Bytes16(Len(s)) \o Copied(s) \in Seq(Byte)
         /\ Len(Bytes16(Len(s)) \o Copied(s)) = 2 + Len(s)
         /\ Lies(f, Len(q), q \o (Bytes16(Len(s)) \o Copied(s))) /\ f \in Field
<1> DEFINE e == Len(q)
           l == Len(s)
           h == Bytes16(l)
           c == Copied(s)
           b == h \o c
           r == q \o b
<1>1. s \in Seq(Byte) /\ MAX_SEND_LEN \in Nat /\ MAX_SEND_LEN <= 32767
  BY FieldCodecAssumption
<1>2. l \in Nat /\ l <= MAX_SEND_LEN
  BY <1>1
<1>3. c \in Seq(Byte) /\ Len(c) = l
  BY <1>1, CopiedIs
<1>4. f.kind = "string" /\ f.string = s /\ f.end = e + 2 + l
  OBVIOUS
<1>5. f \in Field
  <2>1. e \in Nat
    OBVIOUS
  <2> HIDE DEF e, l
  <2>2. e + 2 + l \in Nat
    BY <1>2, <2>1
  <2> QED BY <2>2 DEF Field, e, l
<1> HIDE DEF l, c
<1>6. l \in Int /\ l >= -32768 /\ l <= 32767
  BY <1>1, <1>2
<1>7. h \in Seq(Byte) /\ Len(h) = 2 /\ h[1] + 256 * h[2] = Unsigned(l)
  BY <1>6, ShortAgain
<1> HIDE DEF h
<1>8. /\ b \in Seq(Byte) /\ Len(b) = 2 + l /\ b[1] = h[1] /\ b[2] = h[2]
      /\ \A k \in 1 .. l : b[2 + k] = c[k]
  <2>1. /\ b \in Seq(Byte) /\ Len(b) = Len(h) + Len(c)
        /\ \A k \in 1 .. Len(h) : b[k] = h[k]
        /\ \A k \in 1 .. Len(c) : b[Len(h) + k] = c[k]
    BY <1>3, <1>7, Behind
  <2> HIDE DEF b
  <2>2. 1 \in 1 .. Len(h) /\ 2 \in 1 .. Len(h)
    BY <1>7
  <2> QED BY <1>3, <1>7, <2>1, <2>2
<1> HIDE DEF b
<1>9. /\ Len(r) = e + 2 + l /\ e \in Nat
      /\ r[e + 1] = b[1] /\ r[e + 2] = b[2]
      /\ \A k \in 1 .. Len(b) : r[e + k] = b[k]
  <2>1. e \in Nat /\ Len(r) = e + Len(b) /\ \A k \in 1 .. Len(b) : r[e + k] = b[k]
    BY <1>8, Behind
  <2> HIDE DEF e, r
  <2>2. 1 \in 1 .. Len(b) /\ 2 \in 1 .. Len(b)
    BY <1>2, <1>8
  <2>3. Len(r) = e + 2 + l
    BY <1>2, <1>8, <2>1
  <2> QED BY <2>1, <2>2, <2>3
<1> HIDE DEF e, r
<1>10. \A k \in 1 .. l : r[e + 2 + k] = c[k]
  <2> SUFFICES ASSUME NEW k \in 1 .. l PROVE r[e + 2 + k] = c[k]
    OBVIOUS
  <2>1. 2 + k \in 1 .. Len(b) /\ e + 2 + k = e + (2 + k)
    BY <1>2, <1>8, <1>9
  <2>2. r[e + (2 + k)] = b[2 + k]
    BY <1>8, <1>9, <2>1
  <2> QED BY <1>8, <2>1, <2>2
<1> HIDE DEF e, r
<1>11. Holds16(r, e, l)
  BY <1>2, <1>7, <1>8, <1>9 DEF Holds16
<1>12. Lies(f, e, r)
  BY <1>2, <1>4, <1>9, <1>10, <1>11 DEF Lies, l, c
<1> QED BY <1>5, <1>8, <1>12 DEF e, l, h, c, b, r

\* A field that is appended with its bytes leaves the fields before it where
\* they are, and lies behind them.
LEMMA FieldAdded ==
  ASSUME fields \in Seq(Field), buf \in Seq(Byte), LaidOut,
         NEW f \in Field, NEW b \in Seq(Byte),
         f.end = Len(buf) + Len(b), Lies(f, Len(buf), buf \o b),
         fields' = Append(fields, f), buf' = buf \o b
  PROVE  LaidOut'
<1> DEFINE m == Len(fields)
           e == Len(buf)
<1>1. m \in Nat /\ e \in Nat /\ Len(b) \in Nat
  OBVIOUS
<1>2. /\ fields' \in Seq(Field) /\ Len(fields') = m + 1 /\ fields'[m + 1] = f
      /\ \A i \in 1 .. m : fields'[i] = fields[i]
  OBVIOUS
<1>3. \A i \in 1 .. m : fields[i] \in Field
  OBVIOUS
<1>4. Len(buf') = e + Len(b)
  OBVIOUS
<1>5. Extent(m) = e /\ \A i \in 1 .. m : Lies(fields[i], Extent(i - 1), buf)
  BY DEF LaidOut
<1> HIDE DEF m, e
<1>6. ASSUME NEW i \in 1 .. m
      PROVE  Lies(fields'[i], Extent(i - 1)', buf')
  <2>1. Extent(i - 1)' = Extent(i - 1)
    BY <1>1, <1>2 DEF Extent
  <2>2. Lies(fields[i], Extent(i - 1), buf \o b)
    BY <1>3, <1>5, LiesStill
  <2> QED BY <1>2, <2>1, <2>2
<1>7. \A i : i = m + 1 => Lies(fields'[i], Extent(i - 1)', buf')
  <2> SUFFICES ASSUME NEW i, i = m + 1
               PROVE  Lies(fields'[i], Extent(i - 1)', buf')
    OBVIOUS
  <2>1. i - 1 = m
    BY <1>1
  <2>2. m # 0 => m \in 1 .. m
    BY <1>1
  <2>3. Extent(i - 1)' = e
    BY <1>2, <1>5, <2>1, <2>2 DEF Extent
  <2> QED BY <1>2, <2>3 DEF e
<1>8. Extent(Len(fields))' = Len(buf')
  <2>1. m + 1 # 0 /\ f.end = Len(buf')
    BY <1>1, <1>4 DEF e
  <2> QED BY <1>2, <2>1 DEF Extent
<1>9. \A i \in 1 .. m + 1 : i \in 1 .. m \/ i = m + 1
  BY <1>1
<1>10. \A i \in 1 .. m + 1 : Lies(fields'[i], Extent(i - 1)', buf')
  BY <1>6, <1>7, <1>9
<1> QED BY <1>2, <1>8, <1>10 DEF LaidOut

\* What Max() of FiniteSetsExt is.
LEMMA MaxOf ==
  ASSUME NEW S, S \subseteq Int, NEW m \in S, \A y \in S : y <= m
  PROVE  Max(S) = m
<1>1. \A y \in S : m >= y
  OBVIOUS
<1>2. \A x \in S : (\A y \in S : x >= y) => x = m
  OBVIOUS
<1> QED BY <1>1, <1>2 DEF Max

\* A string that is not empty is what the variable holds behind it; any other
\* field leaves it alone.
LEMMA HeldBehind ==
  ASSUME NEW i \in Nat, i >= 1
  PROVE  Held(i + 1) = IF fields[i].kind = "string" /\ fields[i].string # <<>>
                       THEN Copied(fields[i].string) ELSE Held(i)
<1> DEFINE full(j) == fields[j].kind = "string" /\ fields[j].string # <<>>
           S == Earlier(i)
           T == Earlier(i + 1)
<1>1. S = {j \in 1 .. i - 1 : full(j)} /\ T = {j \in 1 .. i : full(j)}
  <2>1. i + 1 - 1 = i
    OBVIOUS
  <2> QED BY <2>1 DEF Earlier
<1> HIDE DEF full, S, T
<1>2. CASE full(i)
  <2>1. i \in T /\ T \subseteq Int /\ \A y \in T : y <= i
    BY <1>1, <1>2
  <2>2. Max(T) = i
    BY <2>1, MaxOf
  <2>3. T # {}
    BY <2>1
  <2>4. Held(i + 1) = Copied(fields[i].string)
    BY <2>2, <2>3 DEF Held, T
  <2> QED BY <1>2, <2>4 DEF full
<1>3. CASE ~full(i)
  <2>1. \A j : j \in 1 .. i <=> j \in 1 .. i - 1 \/ j = i
    OBVIOUS
  <2>2. T = S
    BY <1>1, <1>3, <2>1
  <2>3. Held(i + 1) = Held(i)
    BY <2>2 DEF Held, S, T
  <2> QED BY <1>3, <2>3 DEF full
<1> QED BY <1>2, <1>3

\* The field that is read next lies where the reader is.
LEMMA AtReader ==
  ASSUME CodecInv, step = "read", Len(got) < Len(fields)
  PROVE  LET i == Len(got) + 1
         IN  /\ i \in 1 .. Len(fields) /\ fields[i] \in Field
             /\ Lies(fields[i], pos, buf) /\ Extent(i) = fields[i].end
<1>1. /\ fields \in Seq(Field) /\ Len(got) \in 0 .. Len(fields)
      /\ pos = Extent(Len(got)) /\ LaidOut
  BY DEF CodecInv, ReadBack, CodecTypeOK
<1> DEFINE i == Len(got) + 1
<1>2. Len(fields) \in Nat
  BY <1>1
<1>3. i \in 1 .. Len(fields) /\ i - 1 = Len(got) /\ i # 0
  BY <1>1, <1>2
<1>4. fields[i] \in Field
  BY <1>1, <1>3
<1> HIDE DEF i
<1>5. Lies(fields[i], pos, buf)
  BY <1>1, <1>3 DEF LaidOut
<1>6. Extent(i) = fields[i].end
  BY <1>3 DEF Extent
<1> QED BY <1>3, <1>4, <1>5, <1>6 DEF i

\* What read16 reads where the two bytes of a number lie.
LEMMA ReadsNumber ==
  ASSUME NEW n \in Int, n >= -32768, n <= 32767, Holds16(buf, pos, n)
  PROVE  At16(pos) = n
<1>1. At16(pos) = Short(Unsigned(n))
  BY DEF At16, Holds16
<1> QED BY <1>1, ShortAgain

\* Before anything is written the buffer is empty and nothing is read.
LEMMA CodecInvInit == CodecInit => CodecInv
<1> SUFFICES ASSUME CodecInit PROVE CodecInv
  OBVIOUS
<1>1. CodecTypeOK
  <2>1. /\ step = "write" /\ fields = <<>> /\ buf = <<>> /\ overrun = FALSE
        /\ size = 0 /\ pos = 0 /\ left = 0 /\ got = <<>> /\ value = <<>>
    BY DEF CodecInit
  <2>2. fields \in Seq(Field) /\ buf \in Seq(Byte) /\ value \in Seq(Byte)
    BY <2>1
  <2>3. Len(got) = 0 /\ Len(fields) = 0 /\ Len(buf) = 0
    BY <2>1
  <2>4. size \in 0 .. Len(buf) /\ Len(got) \in 0 .. Len(fields)
    BY <2>1, <2>3
  <2>5. step \in {"write", "read", "failed"} /\ overrun \in BOOLEAN
    BY <2>1
  <2>6. pos \in Nat /\ left \in Nat
    BY <2>1
  <2> QED BY <2>2, <2>4, <2>5, <2>6 DEF CodecTypeOK
<1>2. ReadBack
  BY <1>1 DEF CodecInit, ReadBack
<1>3. LaidOut
  BY DEF CodecInit, LaidOut, Extent
<1>4. ReadSoFar
  BY DEF CodecInit, ReadSoFar
<1> QED BY <1>2, <1>3, <1>4 DEF CodecInv

\* While the message is written nothing is read.
LEMMA StillUnread ==
  ASSUME CodecInv, step = "write",
         NEW f \in Field, NEW b \in Seq(Byte),
         f.end = Len(buf) + Len(b), Lies(f, Len(buf), buf \o b),
         fields' = Append(fields, f), buf' = buf \o b, overrun' \in BOOLEAN,
         UNCHANGED <<step, size, pos, left, got, value>>
  PROVE  CodecInv'
<1>1. CodecTypeOK /\ LaidOut /\ ReadSoFar
  BY DEF CodecInv, ReadBack
<1>2. /\ fields \in Seq(Field) /\ buf \in Seq(Byte)
      /\ got = <<>> /\ value = <<>> /\ pos = 0
  BY <1>1 DEF CodecTypeOK, ReadSoFar
<1>3. LaidOut'
  BY <1>1, <1>2, FieldAdded
<1>4. fields' \in Seq(Field) /\ Len(fields') \in Nat
  BY <1>2
<1>5. buf' \in Seq(Byte) /\ Len(buf') = Len(buf) + Len(b) /\ Len(buf) \in Nat /\ Len(b) \in Nat
  BY <1>2, Behind
<1>6. size \in 0 .. Len(buf')
  BY <1>1, <1>5 DEF CodecTypeOK
<1>7. Len(got') = 0 /\ step' = "write" /\ got' = <<>>
  BY <1>2
<1>8. CodecTypeOK'
  BY <1>1, <1>4, <1>5, <1>6, <1>7 DEF CodecTypeOK
<1>9. ReadBack'
  <2>1. \A i \in 1 .. Len(got') : FALSE
    BY <1>7
  <2> QED BY <1>7, <1>8, <2>1 DEF ReadBack
<1>10. ReadSoFar'
  BY <1>1, <1>2, <1>7 DEF ReadSoFar
<1> QED BY <1>3, <1>9, <1>10 DEF CodecInv

\* write16 and writeString put one field behind those that are there.
LEMMA CodecInvWrite == CodecInv /\ (Write16 \/ WriteString) => CodecInv'
<1> SUFFICES ASSUME CodecInv, Write16 \/ WriteString PROVE CodecInv'
  OBVIOUS
<1>1. buf \in Seq(Byte) /\ fields \in Seq(Field) /\ overrun \in BOOLEAN
  BY DEF CodecInv, ReadBack, CodecTypeOK
<1>2. CASE Write16
  <2>1. PICK n \in Numbers :
          /\ fields' = Append(fields, [kind |-> "number", number |-> n,
                                       end |-> Len(buf) + 2])
          /\ buf' = buf \o Bytes16(n)
    BY <1>2 DEF Write16
  <2> DEFINE f == [kind |-> "number", number |-> n, end |-> Len(buf) + 2]
  <2>2. /\ Bytes16(n) \in Seq(Byte) /\ Len(Bytes16(n)) = 2
        /\ Lies(f, Len(buf), buf \o Bytes16(n)) /\ f \in Field
    BY <1>1, NumberLies
  <2>3. f.end = Len(buf) + Len(Bytes16(n))
    BY <2>2
  <2>4. fields' = Append(fields, f)
    BY <2>1
  <2>5. step = "write" /\ UNCHANGED <<step, overrun, size, pos, left, got, value>>
    BY <1>2 DEF Write16
  <2>6. overrun' \in BOOLEAN
    BY <1>1, <2>5
  <2> HIDE DEF f
  <2> QED BY <2>1, <2>2, <2>3, <2>4, <2>5, <2>6, StillUnread
<1>3. CASE WriteString
  <2>1. PICK s \in Strings :
          /\ Len(s) <= MAX_SEND_LEN
          /\ fields' = Append(fields, [kind |-> "string", string |-> s,
                                       end |-> Len(buf) + 2 + Len(s)])
          /\ buf' = buf \o (Bytes16(Len(s)) \o Copied(s))
    BY <1>3 DEF WriteString
  <2> DEFINE f == [kind |-> "string", string |-> s, end |-> Len(buf) + 2 + Len(s)]
             b == Bytes16(Len(s)) \o Copied(s)
  <2>2. /\ b \in Seq(Byte) /\ Len(b) = 2 + Len(s)
        /\ Lies(f, Len(buf), buf \o b) /\ f \in Field
    BY <1>1, <2>1, StringLies
  <2>3. s \in Seq(Byte) /\ Len(s) \in Nat /\ Len(buf) \in Nat
    BY <1>1, FieldCodecAssumption
  <2>4. f.end = Len(buf) + Len(b)
    <3>1. f.end = Len(buf) + 2 + Len(s)
      OBVIOUS
    <3> HIDE DEF f, b
    <3> QED BY <2>2, <2>3, <3>1
  <2>5. fields' = Append(fields, f)
    BY <2>1
  <2>6. buf' = buf \o b
    BY <2>1
  <2>7. /\ step = "write" /\ UNCHANGED <<step, size, pos, left, got, value>>
        /\ overrun' = (Len(buf') > MAX_SEND_LEN)
    BY <1>3 DEF WriteString
  <2>8. overrun' \in BOOLEAN
    BY <2>7
  <2> HIDE DEF f, b
  <2> QED BY <2>2, <2>4, <2>5, <2>6, <2>7, <2>8, StillUnread
<1> QED BY <1>2, <1>3

\* The message arrives cut at some length; the reader starts at its first byte.
LEMMA CodecInvReceive == CodecInv /\ Receive => CodecInv'
<1> SUFFICES ASSUME CodecInv, Receive PROVE CodecInv'
  OBVIOUS
<1>1. CodecTypeOK /\ LaidOut /\ ReadSoFar
  BY DEF CodecInv, ReadBack
<1>2. /\ step = "write" /\ step' = "read" /\ size' \in 0 .. Len(buf) /\ left' = size'
      /\ UNCHANGED <<fields, buf, overrun, pos, got, value>>
  BY DEF Receive
<1>3. got = <<>> /\ value = <<>> /\ pos = 0 /\ Len(got) = 0 /\ Len(buf) \in Nat
  BY <1>1, <1>2 DEF ReadSoFar, CodecTypeOK
<1>4. CodecTypeOK'
  BY <1>1, <1>2, <1>3 DEF CodecTypeOK
<1>5. ReadBack'
  <2>1. \A i \in 1 .. Len(got') : FALSE
    BY <1>2, <1>3
  <2>2. Extent(Len(got))' = 0
    BY <1>2, <1>3 DEF Extent
  <2>3. pos' = 0 /\ left' = size'
    BY <1>2, <1>3
  <2>4. \A x \in Int : 0 + x = x
    OBVIOUS
  <2>5. size' \in Int
    BY <1>2, <1>3
  <2>6. pos' + left' = size'
    BY <2>3, <2>4, <2>5
  <2> QED BY <1>2, <1>4, <2>1, <2>2, <2>3, <2>6 DEF ReadBack
<1>6. LaidOut'
  BY <1>1, <1>2 DEF LaidOut, Extent
<1>7. ReadSoFar'
  <2>1. \A i \in 1 .. Len(got') + 1 - 1 : FALSE
    BY <1>2, <1>3
  <2>2. Earlier(Len(got) + 1)' = {}
    BY <2>1 DEF Earlier
  <2>3. Held(Len(got) + 1)' = <<>>
    BY <2>2 DEF Held
  <2>4. value' = <<>> /\ step' = "read" /\ got' = got
    BY <1>2, <1>3
  <2> QED BY <1>1, <2>3, <2>4 DEF ReadSoFar
<1> QED BY <1>5, <1>6, <1>7 DEF CodecInv

\* A field that is read as it was written: what is delivered, and what the
\* reader's variable holds behind it.
LEMMA OneMore ==
  ASSUME CodecInv, step = "read", Len(got) < Len(fields),
         NEW v, v = Delivered(Len(got) + 1), v \in Numbers \cup Seq(Byte),
         got' = Append(got, v), value' = Held(Len(got) + 2), value' \in Seq(Byte),
         left' \in Nat, pos' = Extent(Len(got) + 1), pos' + left' = size,
         UNCHANGED <<step, fields, buf, overrun, size>>
  PROVE  CodecInv'
<1>1. CodecTypeOK /\ LaidOut /\ ReadSoFar /\ ReadBack
  BY DEF CodecInv, ReadBack
<1>2. Len(got) \in Nat /\ Len(fields) \in Nat /\ got \in Seq(Numbers \cup Seq(Byte))
  BY <1>1 DEF CodecTypeOK, ReadSoFar
<1> DEFINE n == Len(got)
           G == Numbers \cup Seq(Byte)
<1> HIDE DEF G
<1>3. got \in Seq(G) /\ v \in G
  BY <1>2 DEF G
<1>4. /\ got' \in Seq(G) /\ Len(got') = n + 1 /\ got'[n + 1] = v
      /\ \A i \in 1 .. n : got'[i] = got[i]
  BY <1>3
<1>5. n \in Nat /\ n + 1 <= Len(fields) /\ n + 1 + 1 = n + 2 /\ n + 1 # 0
  BY <1>2
<1>6. \A i : Delivered(i)' = Delivered(i) /\ Held(i)' = Held(i) /\ Extent(i)' = Extent(i)
  BY DEF Delivered, Held, Earlier, Extent
<1> HIDE DEF n
<1>7. pos' \in Nat
  <2>1. pos' = fields[n + 1].end /\ n + 1 \in 1 .. Len(fields)
    BY <1>2, <1>5 DEF Extent, n
  <2>2. fields[n + 1] \in Field
    BY AtReader DEF n
  <2> QED BY <2>1, <2>2, FieldIs
<1>8. Len(got') \in 0 .. Len(fields)
  BY <1>2, <1>4, <1>5
<1>9. CodecTypeOK'
  BY <1>1, <1>7, <1>8 DEF CodecTypeOK, Field
<1>10. \A i \in 1 .. n + 1 : got'[i] = Delivered(i)
  <2>1. \A i \in 1 .. n + 1 : i \in 1 .. n \/ i = n + 1
    BY <1>5
  <2>2. \A i \in 1 .. n : got[i] = Delivered(i)
    BY <1>1 DEF ReadBack, n
  <2> QED BY <1>4, <2>1, <2>2 DEF n
<1>11. \A i \in 1 .. Len(got') : got'[i] = Delivered(i)'
  BY <1>4, <1>6, <1>10
<1>12. Extent(Len(got))' = pos'
  BY <1>4, <1>5 DEF Extent, n
<1>13. ReadBack'
  BY <1>9, <1>11, <1>12 DEF ReadBack
<1>14. LaidOut'
  BY <1>1 DEF LaidOut, Extent
<1>15. Held(Len(got) + 1)' = value'
  <2>1. Len(got') + 1 = n + 2
    BY <1>4, <1>5
  <2> QED BY <1>6, <2>1 DEF n
<1>16. ReadSoFar'
  BY <1>4, <1>15 DEF ReadSoFar, G
<1> QED BY <1>13, <1>14, <1>16 DEF CodecInv

\* A field that the message does not hold to its end.
LEMMA TooShort ==
  ASSUME CodecInv, step = "read", Len(got) < Len(fields),
         step' = "failed", left' \in Nat, Extent(Len(got) + 1) > size,
         UNCHANGED <<pos, got, value, fields, buf, overrun, size>>
  PROVE  CodecInv'
<1>1. CodecTypeOK /\ LaidOut /\ ReadSoFar /\ ReadBack
  BY DEF CodecInv, ReadBack
<1>2. CodecTypeOK'
  BY <1>1 DEF CodecTypeOK, Field
<1>3. ReadBack'
  BY <1>1, <1>2 DEF ReadBack, Delivered, Held, Earlier, Extent
<1>4. LaidOut'
  BY <1>1 DEF LaidOut, Extent
<1>5. ReadSoFar'
  BY <1>1 DEF ReadSoFar, Held, Earlier
<1> QED BY <1>3, <1>4, <1>5 DEF CodecInv

\* read16 gets the number that was written, or finds less than two bytes.
LEMMA CodecInvRead16 == CodecInv /\ Read16 => CodecInv'
<1> SUFFICES ASSUME CodecInv, Read16 PROVE CodecInv'
  OBVIOUS
<1> DEFINE i == Len(got) + 1
           f == fields[i]
<1>1. /\ step = "read" /\ Len(got) < Len(fields) /\ f.kind = "number"
      /\ UNCHANGED <<fields, buf, overrun, size, value>>
  BY DEF Read16, Reads
<1>2. f \in Field /\ Lies(f, pos, buf) /\ Extent(i) = f.end
  BY <1>1, AtReader
<1>3. /\ pos \in Nat /\ left \in Nat /\ size \in Nat /\ pos + left = size
      /\ value \in Seq(Byte) /\ value = Held(i) /\ Len(got) \in Nat
  BY <1>1 DEF CodecInv, ReadBack, CodecTypeOK, ReadSoFar
<1>4. f.number \in Numbers /\ f.end = pos + 2 /\ Holds16(buf, pos, f.number)
  BY <1>1, <1>2, FieldIs DEF Lies
<1>5. CASE left < 2
  <2>1. step' = "failed" /\ UNCHANGED <<pos, left, got>>
    BY <1>5 DEF Read16
  <2>2. Extent(i) > size
    <3> HIDE DEF i, f
    <3> QED BY <1>2, <1>3, <1>4, <1>5
  <2> QED BY <1>1, <1>3, <2>1, <2>2, TooShort
<1>6. CASE ~(left < 2)
  <2>1. got' = Append(got, At16(pos)) /\ pos' = pos + 2 /\ left' = left - 2 /\ step' = step
    BY <1>6 DEF Read16
  <2>2. f.number \in Int /\ f.number >= -32768 /\ f.number <= 32767
    BY <1>4, FieldCodecAssumption
  <2>3. At16(pos) = f.number
    BY <1>4, <2>2, ReadsNumber
  <2>4. At16(pos) = Delivered(i)
    BY <1>1, <2>3 DEF Delivered
  <2>5. i \in Nat /\ i >= 1 /\ i + 1 = Len(got) + 2
    BY <1>3
  <2>6. Held(i + 1) = Held(i)
    <3> HIDE DEF i
    <3> QED BY <1>1, <2>5, HeldBehind
  <2>7. value' = Held(Len(got) + 2)
    BY <1>1, <1>3, <2>5, <2>6
  <2>8. left' \in Nat
    BY <1>3, <1>6, <2>1
  <2>9. pos' = Extent(i) /\ pos' + left' = size
    <3>1. pos' = Extent(i)
      BY <1>2, <1>4, <2>1
    <3>2. pos + 2 + (left - 2) = pos + left
      BY <1>3
    <3> QED BY <1>3, <2>1, <3>1, <3>2
  <2>10. value' \in Seq(Byte) /\ At16(pos) \in Numbers \cup Seq(Byte)
    BY <1>1, <1>3, <1>4, <2>3
  <2> DEFINE v == At16(pos)
  <2> HIDE DEF v, f
  <2> QED BY <1>1, <2>1, <2>4, <2>7, <2>8, <2>9, <2>10, OneMore DEF v
<1> QED BY <1>5, <1>6

\* readString gets the string, keeps its variable for an empty one, or finds
\* too little behind the length.
LEMMA CodecInvReadString == CodecInv /\ ReadString => CodecInv'
<1> SUFFICES ASSUME CodecInv, ReadString PROVE CodecInv'
  OBVIOUS
<1> DEFINE i == Len(got) + 1
           f == fields[i]
           s == f.string
           l == Len(s)
<1>1. /\ step = "read" /\ Len(got) < Len(fields) /\ f.kind = "string"
      /\ UNCHANGED <<fields, buf, overrun, size>>
  BY DEF ReadString, Reads
<1>2. f \in Field /\ Lies(f, pos, buf) /\ Extent(i) = f.end
  BY <1>1, AtReader
<1>3. /\ pos \in Nat /\ left \in Nat /\ size \in Nat /\ pos + left = size
      /\ value \in Seq(Byte) /\ value = Held(i) /\ Len(got) \in Nat
      /\ buf \in Seq(Byte) /\ size <= Len(buf) /\ Len(buf) \in Nat
  BY <1>1 DEF CodecInv, ReadBack, CodecTypeOK, ReadSoFar
<1>4. s \in Seq(Byte) /\ l \in Nat
  BY <1>1, <1>2, FieldIs
<1>5. /\ f.end = pos + 2 + l /\ l <= MAX_SEND_LEN /\ Holds16(buf, pos, l)
      /\ \A k \in 1 .. l : buf[pos + 2 + k] = Copied(s)[k]
  BY <1>1, <1>2 DEF Lies
<1>6. At16(pos) = l
  <2>1. l <= 32767 /\ l >= -32768 /\ l \in Int
    <3> HIDE DEF l
    <3> QED BY <1>4, <1>5, FieldCodecAssumption
  <2> QED BY <1>5, <2>1, ReadsNumber
<1>7. CASE left < 2
  <2>1. step' = "failed" /\ UNCHANGED <<pos, left, got, value>>
    BY <1>7 DEF ReadString
  <2>2. Extent(i) > size
    <3> HIDE DEF i, f, l
    <3> QED BY <1>2, <1>3, <1>4, <1>5, <1>7
  <2> QED BY <1>1, <1>3, <2>1, <2>2, TooShort
<1>8. CASE ~(left < 2) /\ l > left - 2
  <2>1. step' = "failed" /\ left' = left - 2 /\ UNCHANGED <<pos, got, value>>
    BY <1>6, <1>8 DEF ReadString
  <2>2. Extent(i) > size /\ left' \in Nat
    <3> HIDE DEF i, f, l
    <3> QED BY <1>2, <1>3, <1>4, <1>5, <1>8, <2>1
  <2> QED BY <1>1, <2>1, <2>2, TooShort
<1>9. CASE ~(left < 2) /\ ~(l > left - 2)
  <2>1. /\ value' = IF l > 0 THEN SubSeq(buf, pos + 3, pos + 2 + l) ELSE value
        /\ got' = Append(got, value')
        /\ pos' = pos + 2 + l /\ left' = LeftAfter(l) /\ step' = step
    BY <1>6, <1>9 DEF ReadString
  <2>2. /\ pos' = Extent(i) /\ left' \in Nat /\ pos' + left' = size
        /\ pos + 2 + l <= Len(buf)
    <3> HIDE DEF i, f, l
    <3>1. pos' = Extent(i)
      BY <1>2, <1>5, <2>1
    <3>2. left' = left - 2 - l
      BY <2>1 DEF LeftAfter
    <3>3. left' \in Nat
      BY <1>3, <1>4, <1>9, <3>2
    <3>4. pos + 2 + l + (left - 2 - l) = size
      BY <1>3, <1>4
    <3>5. pos + 2 + l <= Len(buf)
      BY <1>3, <1>4, <1>9
    <3> QED BY <2>1, <3>1, <3>2, <3>3, <3>4, <3>5
  <2>3. i \in Nat /\ i >= 1 /\ i + 1 = Len(got) + 2
    BY <1>3
  <2>4. Held(i + 1) = IF f.kind = "string" /\ s # <<>> THEN Copied(s) ELSE Held(i)
    <3> HIDE DEF i
    <3> QED BY <2>3, HeldBehind
  <2>5. CASE l > 0
    <3>1. s # <<>>
      BY <1>4, <2>5
    <3>2. Copied(s) \in Seq(Byte) /\ Len(Copied(s)) = l
      BY <1>4, CopiedIs
    <3> DEFINE c == Copied(s)
               q == SubSeq(buf, pos + 3, pos + 2 + l)
    <3>3. q = c
      <4> HIDE DEF c, l, f, i
      <4>1. pos + 3 \in 1 .. Len(buf) /\ pos + 2 + l \in 1 .. Len(buf) /\ l \in Nat
        BY <1>3, <1>4, <2>2, <2>5
      <4>2. /\ q \in Seq(Byte) /\ Len(q) = l
            /\ \A k \in 1 .. l : q[k] = buf[pos + 2 + k]
        <5>1. q \in Seq(Byte)
          BY <1>3, <4>1
        <5>2. Len(q) = pos + 2 + l - (pos + 3) + 1
          BY <1>3, <4>1
        <5>3. pos + 2 + l - (pos + 3) + 1 = l
          BY <1>3, <4>1
        <5>4. \A k \in 1 .. l : q[k] = buf[pos + 3 + k - 1]
          BY <1>3, <4>1, <5>3
        <5>5. \A k \in 1 .. l : pos + 3 + k - 1 = pos + 2 + k
          BY <1>3, <4>1
        <5> QED BY <5>1, <5>2, <5>3, <5>4, <5>5
      <4>3. \A k \in 1 .. l : q[k] = c[k]
        BY <1>5, <4>2 DEF c, f, i
      <4> HIDE DEF q
      <4>4. c \in Seq(Byte) /\ Len(c) = l
        BY <3>2 DEF c
      <4> QED BY <4>2, <4>3, <4>4
    <3>4. value' = c
      BY <2>1, <2>5, <3>3
    <3>5. Delivered(i) = c
      BY <1>1, <3>1 DEF Delivered
    <3>6. value' = Held(Len(got) + 2)
      BY <1>1, <2>3, <2>4, <3>1, <3>4
    <3>7. value' \in Seq(Byte)
      BY <3>2, <3>4
    <3> QED BY <1>1, <2>1, <2>2, <3>4, <3>5, <3>6, <3>7, OneMore
  <2>6. CASE ~(l > 0)
    <3>1. s = <<>>
      BY <1>4, <2>6
    <3>2. value' = value /\ value' = Held(i) /\ value' \in Seq(Byte)
      BY <1>3, <2>1, <2>6
    <3>3. Delivered(i) = Held(i)
      BY <1>1, <3>1 DEF Delivered
    <3>4. value' = Held(Len(got) + 2)
      BY <2>3, <2>4, <3>1, <3>2
    <3> QED BY <1>1, <2>1, <2>2, <3>2, <3>3, <3>4, OneMore
  <2> QED BY <2>5, <2>6
<1> QED BY <1>7, <1>8, <1>9

\* A message is read as it was written, for any fields in any order, cut
\* anywhere.
THEOREM FieldsReadBack == Codec => []ReadBack
<1>1. CodecInv /\ [CodecNext]_codecVars => CodecInv'
  <2> SUFFICES ASSUME CodecInv, [CodecNext]_codecVars PROVE CodecInv'
    OBVIOUS
  <2>1. CASE UNCHANGED codecVars
    <3>1. CodecTypeOK /\ ReadBack /\ LaidOut /\ ReadSoFar
      BY DEF CodecInv, ReadBack
    <3>2. CodecTypeOK'
      BY <2>1, <3>1 DEF codecVars, CodecTypeOK, Field
    <3>3. ReadBack'
      BY <2>1, <3>1, <3>2 DEF codecVars, ReadBack, Delivered, Held, Earlier, Extent
    <3>4. LaidOut'
      BY <2>1, <3>1 DEF codecVars, LaidOut, Extent
    <3>5. ReadSoFar'
      BY <2>1, <3>1 DEF codecVars, ReadSoFar, Held, Earlier
    <3> QED BY <3>3, <3>4, <3>5 DEF CodecInv
  <2>2. CASE CodecNext
    BY <2>2, CodecInvWrite, CodecInvReceive, CodecInvRead16, CodecInvReadString DEF CodecNext
  <2> QED BY <2>1, <2>2
<1>2. CodecInv => ReadBack
  BY DEF CodecInv
<1> QED BY <1>1, <1>2, CodecInvInit, PTL DEF Codec
=============================================================================
