----------------------------- MODULE MCClientIP ------------------------------
(* Small instances of ClientIP for TLC: two hosts in one subnet, one outside.  *)
EXTENDS ClientIP, TLC

CONSTANTS h1, h2, h3, p1, p2, net, other, inside

MCHosts == {h1, h2, h3}
MCProxies == {p1, p2}
MCSubnet == (h1 :> net) @@ (h2 :> net) @@ (h3 :> other) @@ (p1 :> inside) @@ (p2 :> inside)

Neighbours == Permutations({h1, h2}) \cup Permutations({p1, p2})
=============================================================================
