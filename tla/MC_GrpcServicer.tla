--------------------------- MODULE MC_GrpcServicer ---------------------------
(* A stream of up to six requests, the third no JSON, the fifth a record   *)
(* that cannot be written, the second of another system.  Two batches of   *)
(* two may run at a time, so a short last batch waits for a permit.        *)
EXTENDS GrpcServicer

CONSTANTS s1, s2

MCSystemOf == [r \in 1..Requests |-> IF r = 2 THEN s2 ELSE s1]
=============================================================================
