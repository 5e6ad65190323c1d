------------------------------- MODULE MCEngine -------------------------------
(* Four parts that meet in the engine, each in the small instance of a .cfg:   *)
(* the handshake of two engines, one engine's lookups, the gate that load puts *)
(* before handshake messages, and the host's client of the tracker.  A         *)
(* behaviour exercises one of them.                                            *)
EXTENDS Handshake, Resolver, CookieGate, PeerSync, TLC

CONSTANTS
    a, b,
    Parts       \* the parts this instance exercises

VARIABLE part

MCOther == (a :> b) @@ (b :> a)

\* The addresses belong to the one record.
OneOwner == [x \in InnerAddrs |-> CHOOSE k \in PeerKeys : TRUE]

Symmetry == Permutations(Nodes) \cup Permutations(Keys) \cup Permutations(Ids)

partVars == <<part, vars, resolverVars, gateVars, syncVars>>

PartInit ==
    /\ part \in Parts
    /\ Init /\ ResolverInit /\ GateInit /\ SyncInit

PartNext ==
    \/ part = "handshake" /\ Next /\ UNCHANGED <<part, resolverVars, gateVars, syncVars>>
    \/ part = "resolver" /\ ResolverNext /\ UNCHANGED <<part, vars, gateVars, syncVars>>
    \/ part = "gate" /\ GateNext /\ UNCHANGED <<part, vars, resolverVars, syncVars>>
    \/ part = "sync" /\ SyncNext /\ UNCHANGED <<part, vars, resolverVars, gateVars>>

PartSpec == PartInit /\ [][PartNext]_partVars

\* Nothing that must happen is enabled in the initial states of the parts at rest.
FairPartSpec == PartSpec /\ Fairness /\ ResolverFairness /\ GateFairness /\ SyncFairness
===============================================================================
