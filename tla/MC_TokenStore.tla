--------------------------- MODULE MC_TokenStore ---------------------------
(* TokenStoreSystem on one system, three tokens and two TTLs. *)
EXTENDS TokenStoreSystem, TLC

CONSTANTS s1, t1, t2, t3, b1, b2, b3

Map(t, b, ttl) == [system |-> s1, token |-> t, blob |-> b, ttl |-> ttl]

\* One group; one group with a key twice; two groups, the second expiring.
MCBatches == {(<<1, 1>> :> Map(t1, b1, 0) @@ <<1, 2>> :> Map(t2, b2, 0)),
              (<<1, 1>> :> Map(t1, b1, 1) @@ <<2, 1>> :> Map(t1, b2, 1)),
              (<<1, 1>> :> Map(t2, b1, 0) @@ <<2, 1>> :> Map(t3, b3, 1) @@ <<3, 1>> :> Map(t1, b2, 0))}

MCQueries == {(1 :> <<s1, t1>> @@ 2 :> <<s1, t2>>)}
=============================================================================
