------------------------------ MODULE MCPeerSync ------------------------------
(* The two clients of the tracker, the host's resolver task and the device's,  *)
(* each in the small instance of a .cfg.  A behaviour exercises one of them.   *)
EXTENDS PeerSync, EmbassySync, TLC

CONSTANTS
    k1,
    Parts       \* the clients this instance exercises

VARIABLE part

\* The addresses belong to the one record.
OneOwner == [x \in InnerAddrs |-> k1]

\* Keys and identifiers are interchangeable where no address names a key.
Symmetry == Permutations(PeerKeys) \cup Permutations(RequestIds)

partVars == <<part, syncVars, embassyVars>>

PartInit ==
    /\ part \in Parts
    /\ SyncInit /\ EmbassyInit

PartNext ==
    \/ part = "host" /\ SyncNext /\ UNCHANGED <<part, embassyVars>>
    \/ part = "device" /\ EmbassyNext /\ UNCHANGED <<part, syncVars>>

PartSpec == PartInit /\ [][PartNext]_partVars
===============================================================================
