----------------------------- MODULE MCShutdown -----------------------------
(* One process with two gRPC calls and a request to the admin panel.        *)
EXTENDS Shutdown, TLC

CONSTANTS Calls      \* the gRPC calls among the requests

MCServerOf == [w \in Work |-> IF w \in Calls THEN "grpc" ELSE "http"]
=============================================================================
