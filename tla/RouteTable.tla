------------------------------ MODULE RouteTable ------------------------------
(* The route cache of routing.rs over the trie of prefix_trie.rs, and the     *)
(* replacement of a peer's route in resolver.rs.  Claims live in stable       *)
(* slots; the trie holds, for each prefix, the slot of the oldest claim.      *)
EXTENDS PrefixTrie

CONSTANTS
    RoutePeers,
    Cidrs,          \* prefixes: [root, bits]
    Addresses,      \* addresses: [root, bits], of full length
    MaxRoutes,
    MaxOrder        \* bound: insertions that take a slot

VARIABLES
    routes,         \* entries, slot -> [cidr, peer, order] or None
    trie,           \* the nodes of the trie, with slots for values
    nextOrder,      \* next_insertion_order
    routeFault      \* history: an operation ended in InternalInvariant

routeVars == <<routes, trie, nextOrder, routeFault>>

RouteSlots == 1..MaxRoutes
Table == [routes |-> routes, trie |-> trie, order |-> nextOrder, fault |-> routeFault]
RouteBecame(t) ==
    /\ t.order <= MaxOrder
    /\ routes' = t.routes /\ trie' = t.trie /\ nextOrder' = t.order /\ routeFault' = t.fault

Used(t) == {i \in RouteSlots : t.routes[i] # None}
OwnedBy(t, p) == {i \in Used(t) : t.routes[i].peer = p}
ClaimsOf(t, c) == {i \in Used(t) : t.routes[i].cidr = c}
OldestOf(t, S) == CHOOSE i \in S : \A j \in S : t.routes[i].order <= t.routes[j].order

-------------------------------------------------------------------------------
\* Mutant: a later claim takes the prefix over at once.
InsertedDisplacing(t, c, p) ==
    LET free == RouteSlots \ Used(t)
        i == Min(free)
        put == TrieInsert(t.trie, c.root, c.bits, i)
    IN  IF (\E j \in Used(t) : t.routes[j].cidr = c /\ t.routes[j].peer = p) \/ free = {} THEN t
        ELSE [t EXCEPT !.trie = put.nodes, !.order = @ + 1,
                       !.routes[i] = [cidr |-> c, peer |-> p, order |-> t.order]]

\* Mutant: a claim that is known already is entered again.
InsertedAgain(t, c, p) ==
    LET free == RouteSlots \ Used(t)
        i == Min(free)
        put == TrieInsert(t.trie, c.root, c.bits, i)
        entered == [t EXCEPT !.order = @ + 1,
                             !.routes[i] = [cidr |-> c, peer |-> p, order |-> t.order]]
    IN  IF free = {} THEN t
        ELSE IF TrieGet(t.trie, c.root, c.bits) # None THEN entered
        ELSE [entered EXCEPT !.trie = put.nodes]

\* insert: a known claim is refreshed in place, a later claim of a prefix waits
\* in its slot.  Without a slot (RouteCacheFull) nothing changes.
Inserted(t, c, p) ==
    LET free == RouteSlots \ Used(t)
        i == Min(free)
        put == TrieInsert(t.trie, c.root, c.bits, i)
        entered == [t EXCEPT !.order = @ + 1,
                             !.routes[i] = [cidr |-> c, peer |-> p, order |-> t.order]]
    IN  IF (\E j \in Used(t) : t.routes[j].cidr = c /\ t.routes[j].peer = p) \/ free = {} THEN t
        ELSE IF TrieGet(t.trie, c.root, c.bits) # None THEN entered
        ELSE IF put.ok THEN [entered EXCEPT !.trie = put.nodes]
        ELSE t

\* One round of remove_peer: the next oldest claim of the prefix moves up.
FreedRoute(t, i) ==
    LET c == t.routes[i].cidr
        incumbent == TrieGet(t.trie, c.root, c.bits) = i
        gone == TrieRemove(t.trie, c.root, c.bits)
        others == ClaimsOf(t, c) \ {i}
        put == TrieInsert(gone.nodes, c.root, c.bits, OldestOf(t, others))
        cleared == [t EXCEPT !.routes[i] = None]
    IN  IF ~incumbent THEN cleared
        ELSE IF gone.value # i THEN [t EXCEPT !.fault = TRUE]
        ELSE IF others = {} THEN [cleared EXCEPT !.trie = gone.nodes]
        ELSE IF ~put.ok THEN [t EXCEPT !.fault = TRUE]
        ELSE [cleared EXCEPT !.trie = put.nodes]

\* remove_peer: slot after slot.
WithoutRoutes(t, p) ==
    FoldLeft(LAMBDA u, i : IF u.routes[i] # None /\ u.routes[i].peer = p /\ ~u.fault
                           THEN FreedRoute(u, i) ELSE u,
             t, [i \in RouteSlots |-> i])

InsertRoute(c, p) == RouteBecame(Inserted(Table, c, p))

RemovePeerRoutes(p) == RouteBecame(WithoutRoutes(Table, p))

\* Mutant: the new route is entered before the old ones are taken out.
ReplaceRouteInsertFirst(p, c) ==
    IF Used(Table) # RouteSlots \/ OwnedBy(Table, p) # {}
    THEN RouteBecame(WithoutRoutes(Inserted(Table, c, p), p))
    ELSE \/ \E q \in RoutePeers \ {p} :
              /\ OwnedBy(Table, q) # {}
              /\ RouteBecame(WithoutRoutes(Inserted(WithoutRoutes(Table, q), c, p), p))
         \/ UNCHANGED routeVars

\* replace_dynamic_route: when neither a free slot nor one of its own is there,
\* an idle peer with a route is evicted first, or nothing happens.
ReplaceRoute(p, c) ==
    IF Used(Table) # RouteSlots \/ OwnedBy(Table, p) # {}
    THEN RouteBecame(Inserted(WithoutRoutes(Table, p), c, p))
    ELSE \/ \E q \in RoutePeers \ {p} :
              /\ OwnedBy(Table, q) # {}
              /\ RouteBecame(Inserted(WithoutRoutes(WithoutRoutes(Table, q), p), c, p))
         \/ UNCHANGED routeVars

\* best_match and lookup.
RouteLookup(a) ==
    LET i == TrieLookup(trie, a.root, a.bits) IN IF i = None THEN None ELSE routes[i].peer

RouteInit ==
    /\ routes = [i \in RouteSlots |-> None] /\ trie = EmptyTrie
    /\ nextOrder = 0 /\ routeFault = FALSE

RouteNext ==
    \E p \in RoutePeers :
      \/ RemovePeerRoutes(p)
      \/ \E c \in Cidrs : InsertRoute(c, p) \/ ReplaceRoute(p, c)

RouteSpec == RouteInit /\ [][RouteNext]_routeVars

-------------------------------------------------------------------------------
(* Properties.                                                               *)

\* lookup finds, for every address, the peer with the oldest claim to the
\* longest prefix that contains it, and nothing when there is none.
Contain(c, a) == c.root = a.root /\ IsPrefix(c.bits, a.bits)
LookupExact ==
    \A a \in Addresses :
      LET hits == {i \in Used(Table) : Contain(routes[i].cidr, a)}
          longest == {i \in hits : \A j \in hits : Len(routes[j].cidr.bits) <= Len(routes[i].cidr.bits)}
      IN  RouteLookup(a) = IF hits = {} THEN None ELSE routes[OldestOf(Table, longest)].peer

\* Two nodes per route are enough: no operation runs out of nodes while there
\* is a slot, and none ends in InternalInvariant half way.
NodesSuffice ==
    /\ ~routeFault
    /\ Used(Table) # RouteSlots => \A c \in Cidrs : TrieInsert(trie, c.root, c.bits, 1).ok

\* The trie and the claims waiting in their slots agree after any insertions,
\* removals and replacements: longest prefix, oldest claim, for every address,
\* and no operation fails half way for lack of nodes (lookup, remove_peer,
\* insert).
RoutesExact == LookupExact /\ NodesSuffice

NoOwners == [c \in Cidrs |-> <<>>]
Owners ==
    LET used == Used(Table)
        OwnersOf(c) ==
            LET s == SetToSortSeq({i \in used : routes[i].cidr = c},
                                  LAMBDA i, j : routes[i].order < routes[j].order)
            IN  [k \in DOMAIN s |-> routes[s[k]].peer]
        claimed == {routes[i].cidr : i \in used}
    IN  IF used = {} THEN NoOwners
        ELSE [c \in Cidrs |-> IF c \in claimed THEN OwnersOf(c) ELSE <<>>]
Cache == INSTANCE RouteCache WITH owners <- Owners

PrefixesOf(p) == {routes[i].cidr : i \in OwnedBy(Table, p)}

\* A replacement that changes anything leaves the peer with the new route and no
\* other, and takes at most one other peer's: remove_peer is never followed by an
\* insert that fails.
ReplacedOrKept ==
    UNCHANGED routes \/ \A p \in RoutePeers, c \in Cidrs :
        ReplaceRoute(p, c) =>
            /\ PrefixesOf(p)' = {c}
            /\ \A q, r \in RoutePeers \ {p} : PrefixesOf(q)' # PrefixesOf(q) /\ PrefixesOf(r)' # PrefixesOf(r)
                                               => q = r

\* RouteSlots and insertion orders together are the list of owners of each prefix:
\* whatever is inserted, removed or replaced, and refused for lack of room, the
\* owners change as the abstract cache says; and replace_dynamic_route, which
\* takes the old route out before it enters the new one, never ends between the
\* two.
ImplementsRouteCache == Cache!CacheSpec /\ [][ReplacedOrKept]_routeVars
===============================================================================
