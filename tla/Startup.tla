------------------------------ MODULE Startup ------------------------------
(***************************************************************************)
(* An application starts: it reads its Config, then sets up the pools of   *)
(* Resource and starts the server of EvDrvControl from it, in any order.   *)
(***************************************************************************)
EXTENDS HttpServer, Resource

startupVars == <<configVars, serverVars, resourceVars>>

StartupInit == ConfigInit /\ ServerInit /\ ResourceInit

Configure == ConfigNext /\ UNCHANGED <<serverVars, resourceVars>>

Serve == ~undefined /\ Start /\ UNCHANGED <<configVars, resourceVars>>

Equip ==
  /\ phase = "built" /\ ~undefined
  /\ SetUp
  /\ UNCHANGED <<configVars, serverVars>>

StartupNext == Configure \/ Serve \/ Equip

Startup == StartupInit /\ [][StartupNext]_startupVars
-----------------------------------------------------------------------------
\* What the configuration starts is as the file says: the server with its
\* threads and port, the pools with their sizes and passwords.
StartsAsDeclared == ServesAsDeclared /\ PoolsAsDeclared
=============================================================================
