----------------------------- MODULE MCMapDump ------------------------------
(* TLC instances of MapDump. *)
EXTENDS MapDump, TLC

\* Chains of two keys, in the first bucket and behind it.
CONSTANTS k1, k2, k3
Hash == k1 :> 1 @@ k2 :> 1 @@ k3 :> 2 @@ Zero :> 2
=============================================================================
