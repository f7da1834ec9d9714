----------------------------- MODULE MCServerLock -----------------------------
(* Two callers of the api, and the five threads of the server.               *)
EXTENDS ServerLock

CONSTANTS api1, api2
=============================================================================
