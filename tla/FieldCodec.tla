----------------------------- MODULE FieldCodec -----------------------------
(***************************************************************************)
(* The field readers and writers a ServerProtocol offers to its subclasses *)
(* (evb/parser.cpp): one message is written field by field into a buffer   *)
(* of MAX_SEND_LEN bytes, sent, and read with the same sequence of calls,  *)
(* all strings into one variable.  Each call returns how far to go on; 0   *)
(* says it failed, and the caller stops.                                   *)
(***************************************************************************)
EXTENDS Integers, Sequences, FiniteSetsExt

CONSTANTS Numbers,      \* the shorts that are written
          Strings,      \* the strings that are written, sequences of bytes
          MAX_SEND_LEN,
          MaxFields     \* bound: fields of a message

Byte == 0 .. 255

\* Every number is a short, a string a sequence of bytes; the length of a
\* string that fits the buffer is a short too (MAX_SEND_LEN is 1024).
ASSUME FieldCodecAssumption ==
  /\ \A n \in Numbers : n \in Int /\ n >= -32768 /\ n <= 32767
  /\ Strings \subseteq Seq(Byte)
  /\ MAX_SEND_LEN \in Nat /\ MAX_SEND_LEN <= 32767

VARIABLES step,     \* "write", "read", "failed": a read returned 0
          fields,   \* the fields written so far, with where they end in buf
          buf,      \* the bytes of them
          overrun,  \* a write went past the end of the buffer
          size,     \* the length the message is sent with
          pos,      \* of the reader, and len, what is left of the message
          left,
          got,      \* the fields read so far
          value     \* the string variable of the reader

codecVars == <<step, fields, buf, overrun, size, pos, left, got, value>>

CodecInit ==
  /\ step = "write" /\ fields = <<>> /\ buf = <<>> /\ overrun = FALSE
  /\ size = 0 /\ pos = 0 /\ left = 0 /\ got = <<>> /\ value = <<>>
-----------------------------------------------------------------------------
Unsigned(n) == n % 65536
Short(n) == IF n < 32768 THEN n ELSE n - 65536

Bytes16(n) == <<Unsigned(n) % 256, Unsigned(n) \div 256>>
At16(p) == Short(buf[p + 1] + 256 * buf[p + 2])

\* strncpy(): nothing is copied after a 0, the rest is filled with 0.
Copied(s) == [i \in DOMAIN s |-> IF \E j \in 1 .. i : s[j] = 0 THEN 0 ELSE s[i]]

\* write16() with what is left of the buffer.
Write16 ==
  /\ step = "write" /\ Len(fields) < MaxFields
  /\ MAX_SEND_LEN - Len(buf) >= 2
  /\ \E n \in Numbers :
       /\ fields' = Append(fields, [kind |-> "number", number |-> n,
                                    end |-> Len(buf) + 2])
       /\ buf' = buf \o Bytes16(n)
  /\ UNCHANGED <<step, overrun, size, pos, left, got, value>>

\* writeString() does not know what is left of the buffer.
WriteString ==
  /\ step = "write" /\ Len(fields) < MaxFields
  /\ \E s \in Strings :
       /\ Len(s) <= MAX_SEND_LEN
       /\ fields' = Append(fields, [kind |-> "string", string |-> s,
                                    end |-> Len(buf) + 2 + Len(s)])
       /\ buf' = buf \o (Bytes16(Len(s)) \o Copied(s))
  /\ overrun' = (Len(buf') > MAX_SEND_LEN)
  /\ UNCHANGED <<step, size, pos, left, got, value>>

\* The message arrives, with the length its sender gave it.
Receive ==
  /\ step = "write"
  /\ size' \in 0 .. Len(buf)
  /\ left' = size'
  /\ step' = "read"
  /\ UNCHANGED <<fields, buf, overrun, pos, got, value>>

Reads(kind) ==
  step = "read" /\ Len(got) < Len(fields) /\ fields[Len(got) + 1].kind = kind

Read16 ==
  /\ Reads("number")
  /\ IF left < 2
     THEN step' = "failed" /\ UNCHANGED <<pos, left, got>>
     ELSE /\ got' = Append(got, At16(pos))
          /\ pos' = pos + 2 /\ left' = left - 2
          /\ UNCHANGED step
  /\ UNCHANGED <<fields, buf, overrun, size, value>>

\* Mutant of LeftAfter: len counts the length field only.
LeftUncounted(slen) == left - 2

\* What readString() leaves of len.
LeftAfter(slen) == left - 2 - slen

\* readString(): a string longer than the rest is refused when read16() has
\* already lowered len; an empty one is not assigned.
ReadString ==
  /\ Reads("string")
  /\ IF left < 2
     THEN step' = "failed" /\ UNCHANGED <<pos, left, got, value>>
     ELSE LET slen == At16(pos)
          IN  IF slen > left - 2
              THEN /\ step' = "failed" /\ left' = left - 2
                   /\ UNCHANGED <<pos, got, value>>
              ELSE /\ value' = IF slen > 0 THEN SubSeq(buf, pos + 3, pos + 2 + slen) ELSE value
                   /\ got' = Append(got, value')
                   /\ pos' = pos + 2 + slen /\ left' = LeftAfter(slen)
                   /\ UNCHANGED step
  /\ UNCHANGED <<fields, buf, overrun, size>>

CodecNext ==
  /\ ~overrun
  /\ Write16 \/ WriteString \/ Receive \/ Read16 \/ ReadString

Codec == CodecInit /\ [][CodecNext]_codecVars
-----------------------------------------------------------------------------
Field ==
  [kind : {"number"}, number : Numbers, end : Nat]
    \cup [kind : {"string"}, string : Strings, end : Nat]

CodecTypeOK ==
  /\ step \in {"write", "read", "failed"}
  /\ fields \in Seq(Field) /\ buf \in Seq(Byte)
  /\ overrun \in BOOLEAN
  /\ size \in 0 .. Len(buf) /\ pos \in Nat /\ left \in Nat
  /\ Len(got) \in 0 .. Len(fields) /\ value \in Seq(Byte)

\* The strings written before field i that were not empty.
Earlier(i) ==
  {j \in 1 .. i - 1 : fields[j].kind = "string" /\ fields[j].string # <<>>}

\* What the reader's string variable holds before field i.
Held(i) ==
  IF Earlier(i) = {} THEN <<>> ELSE Copied(fields[Max(Earlier(i))].string)

\* What the reader gets for field i: the number; the string as strncpy copied
\* it; for an empty string whatever the variable held.
Delivered(i) ==
  CASE fields[i].kind = "number" -> fields[i].number
    [] fields[i].kind = "string" ->
         IF fields[i].string # <<>> THEN Copied(fields[i].string) ELSE Held(i)

\* Where the first n fields end.
Extent(n) == IF n = 0 THEN 0 ELSE fields[n].end

\* The reader gets the fields that were written, in order, however they are
\* mixed: the numbers with their sign, the strings up to a 0 in them.  An empty
\* string read into a used variable reads as the string before it.  A read
\* fails only on a field the message does not hold to its end, and until then
\* len is what is left after pos.
ReadBack ==
  /\ CodecTypeOK
  /\ \A i \in 1 .. Len(got) : got[i] = Delivered(i)
  /\ step = "read" => pos = Extent(Len(got)) /\ pos + left = size
  /\ step = "failed" => Len(got) < Len(fields) /\ Extent(Len(got) + 1) > size
=============================================================================
