---------------------------- MODULE RedisControl ----------------------------
(***************************************************************************)
(* One Redis connection: RedisCmd (predis/redis_cmd.cpp) inside            *)
(* RedisControl (predis/redis_control.cpp), as a record                    *)
(*                                                                         *)
(*   link     "ok"    the hiredis context has no error                     *)
(*            "io"    err = REDIS_ERR_IO: the next command reconnects      *)
(*            "dead"  any other err (EOF, ...): never leaves it            *)
(*   session  "selected"  AUTH and SELECT were done on this connection     *)
(*            "fresh"     the server sees a new client on database 0       *)
(*   stamp    last_access_: "unset" (not initialised), "recent", or "old"  *)
(*            (more than 60 seconds ago)                                   *)
(*                                                                         *)
(* The server and the network may fail any command, so each operator gives *)
(* the set of controls a call may leave behind.                            *)
(***************************************************************************)
CONSTANT HasPassword  \* password_ is not empty: the server demands AUTH

ASSUME ControlAssumption == HasPassword \in BOOLEAN

Control ==
  [link : {"ok", "io", "dead"}, session : {"selected", "fresh"},
   stamp : {"unset", "recent", "old"}]

\* connect() succeeds: AUTH and SELECT were answered, and the constructor has
\* left last_access_ alone.
Connected == [link |-> "ok", session |-> "selected", stamp |-> "unset"]

\* redisReconnect() opens a new connection; nobody repeats AUTH and SELECT.
Reconnected(c) == [c EXCEPT !.link = "ok", !.session = "fresh"]

\* checkContext(): the states in which a command is put on the wire.
Sendable(c) ==
  CASE c.link = "ok"   -> {c}
    [] c.link = "io"   -> {Reconnected(c)}
    [] c.link = "dead" -> {}

\* A server with a password answers NOAUTH to a client it does not know.
Served(c) == c.session = "selected" \/ ~HasPassword

Broken(c) == {[c EXCEPT !.link = l] : l \in {"io", "dead"}}

\* A command is answered as it should be.
Succeeded(c) == {s \in Sendable(c) : Served(s)}

\* The command was put on the wire: an error reply, or the link broke.
FailedSent(c) == UNION {{s} \cup Broken(s) : s \in Sendable(c)}

\* It was not: the reconnection failed, or the connection is dead.
FailedUnsent(c) ==
  CASE c.link = "ok"   -> {}
    [] c.link = "io"   -> Broken(c)
    [] c.link = "dead" -> {c}

\* A command gets an error reply, or none, or could not be sent.
Failed(c) == FailedSent(c) \cup FailedUnsent(c)

\* set_last_access(time(NULL))
Stamped(c) == [c EXCEPT !.stamp = "recent"]

\* Timeout(now): comparing with a value never written may go either way.
TimedOut(c) ==
  CASE c.stamp = "unset"  -> BOOLEAN
    [] c.stamp = "recent" -> {FALSE}
    [] c.stamp = "old"    -> {TRUE}
=============================================================================
