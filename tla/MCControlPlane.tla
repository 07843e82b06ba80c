--------------------------- MODULE MCControlPlane ---------------------------
(* Instances of ControlPlane for TLC: two names over two documents.  The   *)
(* new one makes the spoke n2 a hub and no longer declares n1.             *)
EXTENDS ControlPlane, TLC

Network(hubs, spokes) ==
  [cidr |-> 1..9, mtu |-> 1420, hubListenPort |-> 51820, persistentKeepalive |-> 25000,
   groups |-> <<>>, hubs |-> hubs, agents |-> spokes, acls |-> <<>>]

Hub1 == [name |-> "n1", endpoint |-> "spec1", tunnelIP |-> 1]
Hub2 == [name |-> "n2", endpoint |-> "spec2", tunnelIP |-> 3]
Spoke2 == [name |-> "n2", tunnelIP |-> 2, hub |-> "n1", groups |-> <<>>]

MCDocs == [old |-> Network(<<Hub1>>, <<Spoke2>>),
           new |-> Network(<<Hub2>>, <<>>)]
MCCommits == DOMAIN MCDocs

CallSymmetry == Permutations(Calls)
=============================================================================
