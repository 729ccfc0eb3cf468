------------------------------ MODULE MCEvbApp ------------------------------
(***************************************************************************)
(* Instances of HeartBeat, HpvParser and FieldCodec for TLC.  They share   *)
(* no state, so a behaviour has steps of one of them only, chosen at the   *)
(* start.                                                                  *)
(***************************************************************************)
EXTENDS HeartBeat, HpvParser, FieldCodec, TLC

CONSTANTS p1, p2

VARIABLE part

\* Two apps under one code; the second is registered after the first.
MCApps == <<[code |-> 0, prot |-> p1], [code |-> 0, prot |-> p2]>>

\* A mode with a protocol, one without, and two outside a table of two.
MCModes == {-1, 0, 1, 2}

\* A negative number and one of two bytes; an empty string, a plain one, and
\* one with a 0 in it.
MCNumbers == {-1, 300}
MCStrings == {<<>>, <<65>>, <<66, 0, 67>>}

OneOf == Init /\ ParserInit /\ CodecInit /\ part \in {"heart", "parser", "codec"}

Step ==
  /\ UNCHANGED part
  /\ \/ part = "heart" /\ Next /\ UNCHANGED <<parserVars, codecVars>>
     \/ part = "parser" /\ ParserNext /\ UNCHANGED <<vars, codecVars>>
     \/ part = "codec" /\ CodecNext /\ UNCHANGED <<vars, parserVars>>

EvbApp == OneOf /\ [][Step]_<<vars, parserVars, codecVars, part>>

Symmetry == Permutations(Addresses) \cup Permutations(Threads)
=============================================================================
