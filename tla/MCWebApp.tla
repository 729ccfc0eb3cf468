------------------------------ MODULE MCWebApp ------------------------------
(***************************************************************************)
(* Instances of SqlTemplate, Startup and Base64 for TLC.  They share no    *)
(* state: a behaviour takes steps of one of them, chosen at the start, and *)
(* the others stay in one initial state.  What a Startup starts depends on *)
(* its Config alone, so a behaviour starts the server or the pools, from a *)
(* file with the lines that these read.                                    *)
(***************************************************************************)
EXTENDS SqlTemplate, Startup, Base64, TLC

VARIABLE part

MCPositions == {1, 2}

Entry(k, v, n) == [kind |-> "entry", key |-> k, val |-> v, len |-> n]
Header(s, n) == [kind |-> "header", name |-> s, len |-> n]

\* Two sections, keys more than once, a text that is no number, and lines from
\* shorter than line[] to longer.
ServerLines ==
  {Header("server", 1), Header("mysql", 2),
   Entry("port", "1", 1), Entry("port", "2", 2), Entry("port", "2", 3),
   Entry("thread", "2", 1), Entry("thread", "x", 2), Entry("htp", "x", 2),
   [kind |-> "other", len |-> 4]}

\* The sections of both pools, sizes in either order, a port that is no number,
\* and a password of two words that a URL does not take.
PoolLines ==
  {Header("redis", 1), Header("mysql", 2),
   Entry("port", "x", 1), Entry("initialSize", "2", 1), Entry("maxSize", "1", 2),
   Entry("reapSec", "1", 1), Entry("pass", "my& secret", 2)}

MCLines == ServerLines \cup PoolLines
MCSections == {"server", "redis", "mysql"}
MCKeys ==
  {"port", "thread", "htp", "ip", "db", "user", "pass", "initialSize", "maxSize",
   "reapSec", "timeout"}
MCNumber == "1" :> 1 @@ "2" :> 2 @@ [v \in {"x", "my& secret"} |-> 0]
MCWord == "my& secret" :> "my&" @@ [v \in {"", "garbled", "x", "2", "1"} |-> v]

\* Up to four bytes with all bits 0, all bits 1, and a mixture.
MCInputs == UNION {[1 .. n -> {0, 150, 255}] : n \in 0 .. 4}

OneOf ==
  /\ Init /\ StartupInit /\ Base64Init
  /\ part \in {"sql", "server", "pools", "codec"}
  /\ part # "sql" => pool = {}
  /\ part \notin {"server", "pools"} => phase = "built" /\ keyMap = "null"

Step ==
  /\ UNCHANGED part
  /\ \/ part = "sql" /\ Next /\ UNCHANGED <<startupVars, base64Vars>>
     \/ part = "server" /\ (Configure \/ Serve) /\ file' \in Seq(ServerLines)
        /\ UNCHANGED <<vars, base64Vars>>
     \/ part = "pools" /\ (Configure \/ Equip) /\ file' \in Seq(PoolLines)
        /\ UNCHANGED <<vars, base64Vars>>
     \/ part = "codec" /\ Base64Next /\ UNCHANGED <<vars, startupVars>>

WebApp ==
  /\ OneOf /\ [][Step]_<<vars, startupVars, base64Vars, part>>
  /\ \A c \in Callers : WF_vars(part = "sql" /\ Statement(c))
=============================================================================
