------------------------------ MODULE HpvParser ------------------------------
(***************************************************************************)
(* HpvParser and ServerProtocol::sendPack (evb/parser.cpp): the protocols  *)
(* that applications register, the frames given to them and the packets    *)
(* they answer with.  The parser and the protocol objects are shared by    *)
(* all event-loop threads, without a lock.                                 *)
(*                                                                         *)
(* pc[t] = "loop"     thread t is in its event loop                        *)
(*         "reg"      it sets up a connection: app next[t] is registered   *)
(*         "run"      in ServerProtocol::run of protocol prot[t]           *)
(*         "head", "body", "size", "write"   in sendPack of prot[t]        *)
(*                                                                         *)
(* A byte or field of a packet is abstracted to the thread that wrote it.  *)
(* Neither the mode of a frame nor the length of a body is checked: when   *)
(* that makes the code use memory behind its arrays, wild may be raised,   *)
(* and the model ends.                                                     *)
(***************************************************************************)
EXTENDS Integers, Sequences

CONSTANTS Threads,
          Protocols,  \* ServerProtocol objects
          Apps,       \* hpv->apps: a sequence of [code |->, prot |->]
          Slots,      \* the length of userProtocol_, 1024
          Modes,      \* the modes of frames, any shorts
          Room,       \* what sendBuf_ has for a body, 1024 - 8
          MaxLen,     \* bound of the model on the length of a packet's body
          None        \* nullptr, and what nobody has written

VARIABLES userProtocol_, sendBuf_, sendLen_,
          pc, next, prot,
          ready,   \* t has a connection whose set-up is finished
          mode,    \* the mode of the frame t handles
          len,     \* the length of the body t sends
          shared,  \* another thread was in the same sendPack meanwhile
          sent,    \* the packet t wrote last
          lost,    \* modes of frames for which there was no protocol
          wild

parserVars == <<userProtocol_, sendBuf_, sendLen_, pc, next, prot, ready, mode, len,
          shared, sent, lost, wild>>

Table == 0 .. Slots - 1

NoPacket == [head |-> None, body |-> <<>>, size |-> 0]

ParserInit ==
  /\ userProtocol_ = [m \in Table |-> None]
  /\ sendBuf_ = [p \in Protocols |->
       [head |-> None, body |-> [i \in 1 .. Room |-> None], size |-> 0]]
  /\ sendLen_ = [p \in Protocols |-> 0]
  /\ pc = [t \in Threads |-> "loop"]
  /\ next = [t \in Threads |-> 1]
  /\ prot = [t \in Threads |-> None]
  /\ ready = [t \in Threads |-> FALSE]
  /\ mode = [t \in Threads |-> None]
  /\ len = [t \in Threads |-> 0]
  /\ shared = [t \in Threads |-> FALSE]
  /\ sent = [t \in Threads |-> NoPacket]
  /\ lost = {} /\ wild = FALSE

Sending(p) == {t \in Threads : pc[t] \in {"head", "body", "size", "write"} /\ prot[t] = p}
-----------------------------------------------------------------------------
\* A new connection on thread t: reading is enabled, then the apps register.
SetUp(t) ==
  /\ pc[t] = "loop"
  /\ pc' = [pc EXCEPT ![t] = "reg"]
  /\ UNCHANGED <<userProtocol_, sendBuf_, sendLen_, next, prot, ready, mode, len, shared, sent, lost, wild>>

\* Mutant of Reg: frames are handled before all apps have registered.
RegLate(t) ==
  /\ pc[t] = "reg"
  /\ \/ /\ next[t] <= Len(Apps)
        /\ userProtocol_' = [userProtocol_ EXCEPT ![Apps[next[t]].code] = Apps[next[t]].prot]
        /\ next' = [next EXCEPT ![t] = @ + 1]
        /\ UNCHANGED <<pc, ready>>
     \/ /\ pc' = [pc EXCEPT ![t] = "loop"]
        /\ ready' = [ready EXCEPT ![t] = TRUE]
        /\ next' = [next EXCEPT ![t] = 1]
        /\ UNCHANGED userProtocol_
  /\ UNCHANGED <<sendBuf_, sendLen_, prot, mode, len, shared, sent, lost, wild>>

\* One turn of the loop over the apps, and its end.
Reg(t) ==
  /\ pc[t] = "reg"
  /\ \/ /\ next[t] <= Len(Apps)
        /\ userProtocol_' = [userProtocol_ EXCEPT ![Apps[next[t]].code] = Apps[next[t]].prot]
        /\ next' = [next EXCEPT ![t] = @ + 1]
        /\ UNCHANGED <<pc, ready>>
     \/ /\ next[t] > Len(Apps)
        /\ pc' = [pc EXCEPT ![t] = "loop"]
        /\ ready' = [ready EXCEPT ![t] = TRUE]
        /\ next' = [next EXCEPT ![t] = 1]
        /\ UNCHANGED userProtocol_
  /\ UNCHANGED <<sendBuf_, sendLen_, prot, mode, len, shared, sent, lost, wild>>

\* A frame of mode m: given to its protocol, or ignored when it has none or is
\* shorter than mode and opcode.  For a mode outside the table the code takes
\* what lies there for a protocol, and calls it if it is not null.
Run(t) ==
  /\ pc[t] = "loop" /\ ready[t]
  /\ \E m \in Modes :
       \/ /\ m \in Table /\ userProtocol_[m] # None
          /\ pc' = [pc EXCEPT ![t] = "run"]
          /\ mode' = [mode EXCEPT ![t] = m]
          /\ prot' = [prot EXCEPT ![t] = userProtocol_[m]]
          /\ UNCHANGED <<lost, wild>>
       \/ /\ m \in Table => userProtocol_[m] = None
          /\ lost' = lost \cup {m}
          /\ wild' \in IF m \in Table THEN {FALSE} ELSE BOOLEAN
          /\ UNCHANGED <<pc, mode, prot>>
  /\ UNCHANGED <<userProtocol_, sendBuf_, sendLen_, next, ready, len, shared, sent>>

\* The protocol answers with a packet.
SendPack(t) ==
  /\ pc[t] = "run"
  /\ \E n \in 0 .. MaxLen : len' = [len EXCEPT ![t] = n]
  /\ pc' = [pc EXCEPT ![t] = "head"]
  /\ shared' = [u \in Threads |->
       IF u = t THEN Sending(prot[t]) # {}
       ELSE shared[u] \/ u \in Sending(prot[t])]
  /\ sent' = [sent EXCEPT ![t] = NoPacket]
  /\ UNCHANGED <<userProtocol_, sendBuf_, sendLen_, next, prot, ready, mode, lost, wild>>

\* mode and opcode
FillHead(t) ==
  /\ pc[t] = "head"
  /\ sendBuf_' = [sendBuf_ EXCEPT ![prot[t]].head = t]
  /\ pc' = [pc EXCEPT ![t] = "body"]
  /\ UNCHANGED <<userProtocol_, sendLen_, next, prot, ready, mode, len, shared, sent, lost, wild>>

\* memcpy of the body, if there is one; what is longer than the buffer goes to
\* whatever lies behind it.
FillBody(t) ==
  /\ pc[t] = "body"
  /\ sendBuf_' = [sendBuf_ EXCEPT ![prot[t]].body =
       [i \in 1 .. Room |-> IF i <= len[t] THEN t ELSE @[i]]]
  /\ wild' \in IF len[t] <= Room THEN {FALSE} ELSE BOOLEAN
  /\ pc' = [pc EXCEPT ![t] = "size"]
  /\ UNCHANGED <<userProtocol_, sendLen_, next, prot, ready, mode, len, shared, sent, lost>>

\* Mutant of FillSize: the length is only ever raised.
FillSizeRaised(t) ==
  /\ pc[t] = "size"
  /\ sendBuf_' = [sendBuf_ EXCEPT ![prot[t]].size = len[t]]
  /\ sendLen_' = [sendLen_ EXCEPT ![prot[t]] = IF len[t] > @ THEN len[t] ELSE @]
  /\ pc' = [pc EXCEPT ![t] = "write"]
  /\ UNCHANGED <<userProtocol_, next, prot, ready, mode, len, shared, sent, lost, wild>>

\* the first field of the packet and sendLen_
FillSize(t) ==
  /\ pc[t] = "size"
  /\ sendBuf_' = [sendBuf_ EXCEPT ![prot[t]].size = len[t]]
  /\ sendLen_' = [sendLen_ EXCEPT ![prot[t]] = len[t]]
  /\ pc' = [pc EXCEPT ![t] = "write"]
  /\ UNCHANGED <<userProtocol_, next, prot, ready, mode, len, shared, sent, lost, wild>>

\* bufferevent_write copies sendLen_ bytes from sendBuf_ for the connection: those
\* behind the buffer, where sendLen_ itself is the first, are nobody's.
WritePack(t) ==
  /\ pc[t] = "write"
  /\ sent' = [sent EXCEPT ![t] = [sendBuf_[prot[t]] EXCEPT !.body =
       [i \in 1 .. sendLen_[prot[t]] |-> IF i <= Room THEN @[i] ELSE None]]]
  /\ pc' = [pc EXCEPT ![t] = "run"]
  /\ UNCHANGED <<userProtocol_, sendBuf_, sendLen_, next, prot, ready, mode, len, shared, lost, wild>>

\* ServerProtocol::run returns.
Return(t) ==
  /\ pc[t] = "run"
  /\ pc' = [pc EXCEPT ![t] = "loop"]
  /\ mode' = [mode EXCEPT ![t] = None]
  /\ prot' = [prot EXCEPT ![t] = None]
  /\ sent' = [sent EXCEPT ![t] = NoPacket]
  /\ len' = [len EXCEPT ![t] = 0]
  /\ shared' = [shared EXCEPT ![t] = FALSE]
  /\ UNCHANGED <<userProtocol_, sendBuf_, sendLen_, next, ready, lost, wild>>

ParserNext ==
  ~wild /\ \E t \in Threads :
    \/ SetUp(t) \/ Reg(t) \/ Run(t) \/ SendPack(t) \/ FillHead(t)
    \/ FillBody(t) \/ FillSize(t) \/ WritePack(t) \/ Return(t)

Parser == ParserInit /\ [][ParserNext]_parserVars
-----------------------------------------------------------------------------
\* A packet leaves as its sender meant it, head, body and length, unless a
\* second thread was in sendPack of the same protocol at the same time; sends of
\* other protocols and earlier, longer packets do not show in it.  Of a body that
\* is longer than the buffer, so much is right as the buffer holds.
PacketsWhole ==
  \A t \in Threads :
    pc[t] = "run" /\ sent[t] # NoPacket /\ ~shared[t] =>
      /\ sent[t].head = t /\ sent[t].size = len[t]
      /\ Len(sent[t].body) = len[t]
      /\ \A i \in 1 .. len[t] : i <= Room => sent[t].body[i] = t

\* A frame reaches a protocol registered under its mode, and is ignored only
\* when there is none: although reading is enabled before the apps register,
\* connections of other threads register again at any moment, and the mode may be
\* one for which the table has no place.
FramesRouted ==
  LET Of(m) == {Apps[i].prot : i \in {j \in 1 .. Len(Apps) : Apps[j].code = m}}
  IN  /\ \A m \in lost : Of(m) = {}
      /\ \A t \in Threads : pc[t] \notin {"loop", "reg"} => prot[t] \in Of(mode[t])
=============================================================================
