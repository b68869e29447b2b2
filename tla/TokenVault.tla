----------------------------- MODULE TokenVault -----------------------------
(***************************************************************************)
(* What the service promises about tokens, without coroutines, commands or *)
(* encryption: a token is bound to one value for ever, it answers until it *)
(* expires, and a token is promised to a client only once it is bound.     *)
(***************************************************************************)
VARIABLES bound,    \* key -> value, for every key that was ever bound
          live,     \* the keys that answer
          gone,     \* the keys that have expired at some time
          promised  \* the keys clients were given as tokens of their values

vaultVars == <<bound, live, gone, promised>>

VaultInit ==
    /\ bound = [k \in {} |-> k]
    /\ live = {}
    /\ gone = {}
    /\ promised = {}

\* Keys become bound, or answer again under the binding they had.
Bind ==
    /\ UNCHANGED <<gone, promised>>
    /\ live # live'
    /\ live \subseteq live'
    /\ LET now   == bound
           after == bound'
       IN  /\ DOMAIN now \subseteq DOMAIN after
           /\ DOMAIN after \ DOMAIN now \subseteq live'
           /\ live' \subseteq DOMAIN after
           /\ \A k \in DOMAIN now : after[k] = now[k]

\* A key stops answering.
Lapse ==
    /\ \E k \in live : live' = live \ {k} /\ gone' = gone \cup {k}
    /\ UNCHANGED <<bound, promised>>

\* Clients are given bound tokens.
Promise ==
    /\ promised \subseteq promised'
    /\ promised' \subseteq live \cup gone
    /\ UNCHANGED <<bound, live, gone>>

VaultNext == Bind \/ Lapse \/ Promise

VaultSpec == VaultInit /\ [][VaultNext]_vaultVars

\* Every promised key is bound, and answers unless it has expired.
PromiseKept == promised \subseteq live \cup gone
=============================================================================
