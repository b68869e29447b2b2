-------------------------- MODULE MC_GrpcServicerV3 --------------------------
(* Two workers, a queue of one and three requests: handlers block in put    *)
(* while the queue is full, and stop() finds both workers busy.             *)
EXTENDS GrpcServicerV3
=============================================================================
