------------------------------ MODULE RouteCache ------------------------------
(* What the route cache promises: for every prefix the peers that claim it,   *)
(* oldest claim first, in at most MaxRoutes claims together.                  *)
EXTENDS Naturals, SequencesExt, Optional

CONSTANTS RoutePeers, Cidrs, MaxRoutes

VARIABLE owners

Claims(o) == FoldFunction(LAMBDA s, n : Len(s) + n, 0, o)
Claimed(o, c, p) ==
    IF Contains(o[c], p) \/ Claims(o) >= MaxRoutes THEN o
    ELSE [o EXCEPT ![c] = Append(@, p)]
Withdrawn(o, p) == [c \in Cidrs |-> Remove(o[c], p)]

CacheInit == owners = [c \in Cidrs |-> <<>>]

\* A peer goes with all its claims; a claim is added or refused; a peer's
\* claims are replaced by one that is taken, after at most one other peer went.
\* Which of these an operation of the table does is for the table to say.
CacheNext ==
    \E p \in RoutePeers :
      \/ owners' = Withdrawn(owners, p)
      \/ \E c \in Cidrs : owners' = Claimed(owners, c, p)
      \/ \E c \in Cidrs, q \in RoutePeers \ {p} :
           /\ Contains(owners'[c], p)
           /\ \/ owners' = Claimed(Withdrawn(owners, p), c, p)
              \/ owners' = Claimed(Withdrawn(Withdrawn(owners, q), p), c, p)

CacheSpec == CacheInit /\ [][CacheNext]_owners
===============================================================================
