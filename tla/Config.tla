------------------------------- MODULE Config -------------------------------
(***************************************************************************)
(* Config (config/config.cpp): the constructor reads a file line by line,  *)
(* get() answers from what it kept.                                        *)
(*                                                                         *)
(* A line is what its text means to processLine: an "entry" (key=value,    *)
(* both not blank), a "header" ([name], not blank) or "other", which is    *)
(* skipped; len is its length, without the newline.  line[], MaxLine bytes *)
(* long, is reused for all lines: the last one, if it has no newline, ends *)
(* where an older or an unwritten byte happens to be 0.                    *)
(***************************************************************************)
EXTENDS Integers, Sequences, FiniteSetsExt

CONSTANTS Lines,     \* the lines a file may have
          MaxLines,  \* bound: lines of a file
          MaxLine,   \* MAX_CONFIG_LINE
          Sections, Keys,
          Empty,     \* ""
          Garbled,   \* a text with bytes of another line in it
          Number,    \* of each text what >> int makes of it, 0 if nothing
          GarbledNumbers \* what it may make of a garbled text

ASSUME ConfigAssumption ==
  /\ MaxLines \in Nat /\ MaxLine \in Nat \ {0}
  /\ Lines \subseteq [kind : {"entry"}, key : Keys, val : DOMAIN Number, len : Nat]
                    \cup [kind : {"header"}, name : Sections, len : Nat]
                    \cup [kind : {"other"}, len : Nat]
  /\ Garbled \notin DOMAIN Number
  /\ "null" \notin Sections /\ "wild" \notin Sections

VARIABLES phase,     \* "read" in the constructor, "built" after it
          fp,        \* "null", "open" or "closed"
          file,      \* the lines that were in the file so far
          newline,   \* the last of them ended in a newline
          keyMap,    \* the section of the last header; "null" or "wild" before
          configMap, \* section -> key -> value
          undefined

configVars == <<phase, fp, file, newline, keyMap, configMap, undefined>>

Nothing == [k \in {} |-> Empty]

\* keyMap is not initialised.
ConfigInit ==
  /\ \/ phase = "read" /\ fp = "open"
     \/ phase = "built" /\ fp = "null"
  /\ file = <<>>
  /\ newline = TRUE
  /\ keyMap \in {"null", "wild"}
  /\ configMap = [s \in {} |-> Nothing]
  /\ undefined = FALSE

Put(f, k, v) == [x \in DOMAIN f \cup {k} |-> IF x = k THEN v ELSE f[x]]

\* Mutant of Insert: a later line replaces an earlier one.
InsertLast(f, k, v) == Put(f, k, v)

\* std::map::insert keeps the value that is there.
Insert(f, k, v) == IF k \in DOMAIN f THEN f ELSE Put(f, k, v)

\* processLine(): an entry goes to the section of the last header, a header
\* makes a new, empty section in place of one of the same name.
ProcessLine(l) ==
  CASE l.kind = "entry" /\ keyMap \in Sections ->
         /\ configMap' = [configMap EXCEPT ![keyMap] = Insert(@, l.key, l.val)]
         /\ UNCHANGED <<keyMap, undefined>>
    [] l.kind = "entry" /\ keyMap = "wild" ->
         /\ undefined' = TRUE
         /\ UNCHANGED <<keyMap, configMap>>
    [] l.kind = "header" ->
         /\ configMap' = Put(configMap, l.name, Nothing)
         /\ keyMap' = l.name
         /\ UNCHANGED undefined
    [] OTHER -> UNCHANGED <<keyMap, configMap, undefined>>

Reading == phase = "read" /\ newline /\ Len(file) < MaxLines

\* A line that leaves a byte of line[] for its 0.
ReadLine ==
  /\ Reading
  /\ \E l \in Lines :
       /\ l.len < MaxLine
       /\ file' = Append(file, l)
       /\ ProcessLine(l)
  /\ UNCHANGED <<phase, fp, newline>>

\* A line too long for line[], with its newline or without: the constructor
\* returns, and the file stays open.
GiveUp ==
  /\ Reading
  /\ \E l \in Lines, n \in BOOLEAN :
       /\ l.len > MaxLine \/ (l.len = MaxLine /\ n)
       /\ file' = Append(file, l)
       /\ newline' = n
  /\ phase' = "built"
  /\ UNCHANGED <<fp, keyMap, configMap, undefined>>

\* The byte after an n-byte last line is 0: the last earlier line that was not
\* shorter put its own 0 there.
Terminated(n) ==
  LET reached == {i \in 1 .. Len(file) : file[i].len >= n}
  IN  reached # {} /\ file[Max(reached)].len = n

\* No earlier line reached that byte: what strstr finds there and beyond is
\* not initialised, or not part of line[].
Unwritten(n) == \A i \in 1 .. Len(file) : file[i].len < n

\* What a line may be read as when older bytes follow it.
Overrun(l) ==
  {l} \cup
  CASE l.kind = "entry"  -> {[l EXCEPT !.val = Garbled]}
    [] l.kind = "header" -> {[kind |-> "entry", key |-> Garbled, val |-> Garbled]}
    [] OTHER -> {h \in Lines : h.kind = "header"}
                  \cup {[kind |-> "entry", key |-> k, val |-> Garbled] : k \in Keys}

\* The end of the file, after a line without a newline.
ReadLast ==
  /\ Reading
  /\ \E l \in Lines :
       /\ 0 < l.len /\ l.len <= MaxLine
       /\ file' = Append(file, l)
       /\ \/ \E m \in IF Terminated(l.len) THEN {l} ELSE Overrun(l) : ProcessLine(m)
          \/ Unwritten(l.len) /\ undefined' = TRUE /\ UNCHANGED <<keyMap, configMap>>
  /\ newline' = FALSE
  /\ fp' = "closed"
  /\ phase' = "built"

\* The end of the file, after a newline.
AtEnd ==
  /\ phase = "read" /\ newline
  /\ fp' = "closed"
  /\ phase' = "built"
  /\ UNCHANGED <<file, newline, keyMap, configMap, undefined>>

ConfigNext == ~undefined /\ (ReadLine \/ GiveUp \/ ReadLast \/ AtEnd)

ConfigSpec == ConfigInit /\ [][ConfigNext]_configVars

\* get()
get(s, k) ==
  IF s \in DOMAIN configMap /\ k \in DOMAIN configMap[s]
  THEN configMap[s][k] ELSE Empty

Numbers(text) == IF text = Garbled THEN GarbledNumbers ELSE {Number[text]}

\* How the users of get() read an int: its text through a stringstream and >>,
\* which leaves the variable as it was if there is no text and makes it 0 if
\* the text is no number.
NumberOr(unset, text) == IF text = Empty THEN unset ELSE Numbers(text)
-----------------------------------------------------------------------------
\* Each variable keeps to its type.
ConfigTypeOK ==
  /\ phase \in {"read", "built"} /\ fp \in {"null", "open", "closed"}
  /\ file \in Seq(Lines) /\ Len(file) <= MaxLines /\ newline \in BOOLEAN
  /\ keyMap \in Sections \cup {"null", "wild"}
  /\ DOMAIN configMap \subseteq Sections
  /\ \A s \in DOMAIN configMap : DOMAIN configMap[s] \subseteq Keys \cup {Garbled}
  /\ undefined \in BOOLEAN

\* The lines before one that is too long.
Legible ==
  {i \in 1 .. Len(file) :
     \A j \in 1 .. i :
       file[j].len < MaxLine \/ (j = Len(file) /\ ~newline /\ file[j].len = MaxLine)}

\* What the file says: the last block of a section counts, in it the first
\* line of a key.
Declared(s, k) ==
  LET heads == {i \in Legible : file[i].kind = "header"}
      own   == {i \in heads : file[i].name = s}
      lines == {i \in Legible :
                  /\ file[i].kind = "entry" /\ file[i].key = k
                  /\ \E h \in heads : h < i
                  /\ Max({h \in heads : h < i}) = Max(own)}
  IN  IF own = {} \/ lines = {} THEN Empty ELSE file[Min(lines)].val

\* The last line is unterminated and runs into older bytes.
Runs ==
  LET n == Len(file)
  IN  /\ ~newline /\ n \in Legible
      /\ LET reached == {i \in 1 .. n - 1 : file[i].len >= file[n].len}
         IN  reached = {} \/ file[Max(reached)].len # file[n].len

\* get() answers what the file says up to the first line that is too long,
\* whatever sections and keys are repeated.  If the last line has no newline
\* and runs into older bytes, an entry in it is read whole or Garbled, never as
\* another text of the file; of other such lines nothing is said.
GetIsDeclared ==
  /\ ConfigTypeOK
  /\ phase = "built" /\ ~undefined =>
       \A s \in Sections, k \in Keys :
         \/ get(s, k) = Declared(s, k)
         \/ Runs /\ get(s, k) = Garbled
         \/ Runs /\ file[Len(file)].kind # "entry"
=============================================================================
