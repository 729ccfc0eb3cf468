----------------------------- MODULE HttpServer -----------------------------
(***************************************************************************)
(* The start of the HTTP drivers (evdrv/): EvDrvControl::startServer reads *)
(* driver and parameters from the configuration; EvHttpDrv then runs one   *)
(* event loop per thread on one listening socket, EvHtpDrv leaves threads  *)
(* and connections to libevhtp.                                            *)
(***************************************************************************)
EXTENDS Config

CONSTANT Ports  \* values an uninitialised port may have

ASSUME ServerAssumption ==
  /\ "server" \in Sections /\ {"port", "thread", "htp"} \subseteq Keys
  /\ Number \in [DOMAIN Number -> Int] /\ GarbledNumbers \subseteq Int

VARIABLES start,   \* "idle", "looping" in EvHttpDrv::start, "serving" in
                   \* event_base_dispatch of EvHtpDrv::start, "returned"
          driver,  \* "none", "http" or "htp"
          port, threadNum,
          listens, \* a socket listens on port
          loops,   \* how many event loops were started
          serving  \* how many of them have the socket

serverVars == <<start, driver, port, threadNum, listens, loops, serving>>

ServerInit ==
  /\ start = "idle" /\ driver = "none"
  /\ port = 0 /\ threadNum = 1
  /\ listens = FALSE
  /\ loops = 0 /\ serving = 0
-----------------------------------------------------------------------------
\* EvDrvControl::startServer: any text for htp chooses libevhtp.
Driver == IF get("server", "htp") # Empty THEN "htp" ELSE "http"

\* EvDrv::startServer.  Without a text port stays
\* as it is: uninitialised.  threadNum starts as 1.
StartServer ==
  /\ phase = "built" /\ start = "idle"
  /\ driver' = Driver
  /\ port' \in NumberOr(Ports, get("server", "port"))
  /\ threadNum' \in NumberOr({1}, get("server", "thread"))
  /\ start' = "looping"
  /\ UNCHANGED <<listens, loops, serving>>

\* One turn of the loop of EvHttpDrv::start: a loop and its thread.  The first
\* one binds, or start() returns; the others take over its socket, and when
\* evhttp_accept_socket fails, which nobody looks at, their dispatch ends at
\* once for want of events.
StartLoop ==
  /\ start = "looping" /\ driver = "http" /\ loops < threadNum
  /\ \/ /\ loops' = loops + 1 /\ listens' = TRUE
        /\ serving' \in IF loops = 0 THEN {1} ELSE {serving, serving + 1}
        /\ UNCHANGED start
     \/ loops = 0 /\ start' = "returned" /\ UNCHANGED <<loops, listens, serving>>
  /\ UNCHANGED <<driver, port, threadNum>>

LoopsStarted ==
  /\ start = "looping" /\ driver = "http" /\ loops >= threadNum
  /\ start' = "returned"
  /\ UNCHANGED <<driver, port, threadNum, listens, loops, serving>>

\* EvHtpDrv::start: evhtp_bind_socket may fail, which nobody looks at.  Without
\* threads libevhtp calls back in the thread that dispatches.
StartHtp ==
  /\ start = "looping" /\ driver = "htp"
  /\ loops' = IF threadNum > 0 THEN threadNum ELSE 1
  /\ listens' \in BOOLEAN
  /\ serving' = IF listens' THEN loops' ELSE 0
  /\ start' = "serving"
  /\ UNCHANGED <<driver, port, threadNum>>

Start == StartServer \/ StartLoop \/ LoopsStarted \/ StartHtp

-----------------------------------------------------------------------------
\* Each variable keeps to its type.
ServerTypeOK ==
  /\ start \in {"idle", "looping", "serving", "returned"}
  /\ driver \in {"none", "http", "htp"}
  /\ listens \in BOOLEAN
  /\ loops \in Nat /\ serving \in 0 .. loops

\* A server that listens does so as the file says: on the declared port, unless
\* the file gives none, and with the declared driver.  Some loop of EvHttpDrv
\* serves then, never more of them than the declared threads, though not all
\* need to; when its start() returns all loops were started.  A thread count
\* that is no number gives EvHttpDrv no loop and no socket.
ServesAsDeclared ==
  /\ ServerTypeOK
  /\ (listens /\ ~Runs) =>
       /\ Declared("server", "port") # Empty => port = Number[Declared("server", "port")]
       /\ driver = "htp" <=> Declared("server", "htp") # Empty
       /\ LET n == Declared("server", "thread")
              threads == IF n = Empty THEN 1 ELSE Number[n]
          IN  driver = "http" =>
                /\ 0 < serving /\ serving <= loops /\ loops <= threads
                /\ start = "returned" => loops = threads
=============================================================================
