------------------------------- MODULE Base64 -------------------------------
(***************************************************************************)
(* Base64 (pbase64/base64.cpp): encode and decode, called any number of    *)
(* times with the same result objects.  Both append to what they are       *)
(* given.  A character is the number it has in table, Pad is '='.          *)
(***************************************************************************)
EXTENDS Integers, Sequences, SequencesExt

CONSTANTS Inputs,   \* the data that is encoded, sequences of bytes
          MaxCalls  \* bound: calls of encode

Byte == 0 .. 255
ASSUME Base64Assumption == Inputs \subseteq Seq(Byte)

VARIABLES inputs,  \* what was encoded
          text,    \* result of encode
          data     \* result of decode

base64Vars == <<inputs, text, data>>

Pad == 64

Base64Init == inputs = <<>> /\ text = <<>> /\ data = <<>>
-----------------------------------------------------------------------------
\* Mutant of Piece: the second byte's last four bits are not shifted.
PieceUnshifted(d, i) ==
  CASE i % 3 = 1 ->
         IF i = Len(d) THEN <<d[i] \div 4, (d[i] % 4) * 16, Pad, Pad>>
         ELSE <<d[i] \div 4>>
    [] i % 3 = 2 ->
         IF i = Len(d)
         THEN <<(d[i - 1] % 4) * 16 + d[i] \div 16, d[i] % 16, Pad>>
         ELSE <<(d[i - 1] % 4) * 16 + d[i] \div 16>>
    [] i % 3 = 0 -> <<(d[i - 1] % 16) * 4 + d[i] \div 64, d[i] % 64>>

\* What one turn of the loop of encode() appends for byte i.
Piece(d, i) ==
  CASE i % 3 = 1 ->
         IF i = Len(d) THEN <<d[i] \div 4, (d[i] % 4) * 16, Pad, Pad>>
         ELSE <<d[i] \div 4>>
    [] i % 3 = 2 ->
         IF i = Len(d)
         THEN <<(d[i - 1] % 4) * 16 + d[i] \div 16, (d[i] % 16) * 4, Pad>>
         ELSE <<(d[i - 1] % 4) * 16 + d[i] \div 16>>
    [] i % 3 = 0 -> <<(d[i - 1] % 16) * 4 + d[i] \div 64, d[i] % 64>>

encode(d) == FlattenSeq([i \in 1 .. Len(d) |-> Piece(d, i)])

\* What decode() pushes back for the four characters before position 4 * g + 1,
\* as unsigned char.
Bytes(t, g) ==
  LET c(n) == t[4 * (g - 1) + n]
      first  == (c(1) * 4 + c(2) \div 16) % 256
      second == (c(2) * 16 + c(3) \div 4) % 256
      third  == (c(3) * 64 + c(4)) % 256
  IN  IF c(3) = Pad THEN <<first>>
      ELSE IF c(4) = Pad THEN <<first, second>> ELSE <<first, second, third>>

\* Four characters at a time, until the first that end in padding.
Padded(t) == {g \in 1 .. Len(t) \div 4 : t[4 * g] = Pad \/ t[4 * g - 1] = Pad}
LastGroup(t) == IF Padded(t) = {} THEN Len(t) \div 4 ELSE Min(Padded(t))

decode(t) ==
  IF Len(t) % 4 # 0 THEN <<>>
  ELSE FlattenSeq([g \in 1 .. LastGroup(t) |-> Bytes(t, g)])

Encode ==
  /\ Len(inputs) < MaxCalls
  /\ \E d \in Inputs : inputs' = Append(inputs, d) /\ text' = text \o encode(d)
  /\ UNCHANGED data

Decode ==
  /\ data' = decode(text)   \* into an empty vector
  /\ UNCHANGED <<inputs, text>>

Base64Next == Encode \/ Decode

Base64 == Base64Init /\ [][Base64Next]_base64Vars
-----------------------------------------------------------------------------
\* RFC 4648: three bytes are a number of 24 bits, written as four digits of 6;
\* missing bytes count 0 and their digits are padding.
ByteAt(d, i) == IF i <= Len(d) THEN d[i] ELSE 0
Number24(a, b, c) == a * 65536 + b * 256 + c
Digits(d, g) ==
  LET n == Number24(ByteAt(d, 3 * g - 2), ByteAt(d, 3 * g - 1), ByteAt(d, 3 * g))
  IN  <<(n \div 4096) \div 64, (n \div 4096) % 64,
        IF 3 * g - 1 <= Len(d) THEN (n \div 64) % 64 ELSE Pad,
        IF 3 * g <= Len(d) THEN n % 64 ELSE Pad>>
Standard(d) == FlattenSeq([g \in 1 .. (Len(d) + 2) \div 3 |-> Digits(d, g)])

\* encode() writes the standard text, decode() gives back what was encoded.  A
\* result string used for several calls decodes to all of their data as long
\* as each was a multiple of three bytes; otherwise the data ends, silently,
\* with the first that was not.
Ragged == {i \in 1 .. Len(inputs) : Len(inputs[i]) % 3 # 0}
LastDecoded == IF Ragged = {} THEN Len(inputs) ELSE Min(Ragged)

RoundTrip ==
  /\ text = FlattenSeq([i \in 1 .. Len(inputs) |-> Standard(inputs[i])])
  /\ decode(text) = FlattenSeq(SubSeq(inputs, 1, LastDecoded))
=============================================================================
