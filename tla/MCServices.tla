------------------------------ MODULE MCServices ------------------------------
(* The parts of the tracker, and the two services that stand alone (the CUSE   *)
(* session and the DHCP server), in one run: a behaviour exercises one of them *)
(* and leaves the others in their initial states.  The registry is exercised   *)
(* twice, with the tracker's own tunnel and with remote connections, which     *)
(* only meet in what is published.                                             *)
EXTENDS TrackerRegistry, TrackerAdmission, TrackerNet, DhcpLeases, CuseSession

CONSTANT Parts      \* the parts this instance exercises

VARIABLE part

Peer(n, k, e, r, a) == [name |-> n, key |-> k, endpoint |-> e, relay |-> r, addr |-> a]
Doc(peers) == [kind |-> "loaded", fixed |-> "mtu1", peers |-> peers]

MCFirstDocument == Doc(<<Peer("alice", "a", "e1", "self", "p"), Peer("bob", "b", None, None, "q")>>)

\* A peer that moves or goes, a relay that changes, and a chain of relays, which is
\* refused.
MCDocuments ==
    {MCFirstDocument,
     Doc(<<Peer("alice", "a", "e1", None, "q")>>),
     Doc(<<Peer("alice", "a", "e2", "bob", "p"), Peer("bob", "b", None, None, "q")>>),
     Doc(<<Peer("alice", "a", "e1", "bob", "p"), Peer("bob", "b", None, "self", "q")>>)}

MCClientKey == [h \in Hosts |-> h]

partVars == <<part, registryVars, admissionVars, netVars, dhcpVars, cuseVars>>

PartInit ==
    /\ part \in Parts
    /\ RegistryInit /\ AdmissionInit /\ NetInit /\ DhcpInit /\ CuseInit

PartNext ==
    \/ /\ \/ Publishing /\ part \in {"local", "remote"}
          \/ LocalSide /\ part = "local"
          \/ RemoteSide /\ part = "remote"
       /\ UNCHANGED <<part, admissionVars, netVars, dhcpVars, cuseVars>>
    \/ /\ part = "admission" /\ AdmissionNext
       /\ UNCHANGED <<part, registryVars, netVars, dhcpVars, cuseVars>>
    \/ /\ part = "net" /\ NetNext
       /\ UNCHANGED <<part, registryVars, admissionVars, dhcpVars, cuseVars>>
    \/ /\ part = "dhcp" /\ DhcpNext
       /\ UNCHANGED <<part, registryVars, admissionVars, netVars, cuseVars>>
    \/ /\ part = "cuse" /\ CuseNext
       /\ UNCHANGED <<part, registryVars, admissionVars, netVars, dhcpVars>>

PartSpec == PartInit /\ [][PartNext]_partVars
===============================================================================
