----------------------------- MODULE MCOverlay ------------------------------
(* Instances of Overlay for TLC: up to two hubs and two spokes, a spare     *)
(* address, and five edits: the spokes swap hubs and addresses (Crossed); a *)
(* hub and its spoke change places under the other hub, which moves to      *)
(* another address (Turned); a spoke is replaced by another under its       *)
(* address (Replaced); a hub gives its address to its own spoke and takes   *)
(* another (Moved); the overlay grows and a spoke moves to the new part     *)
(* (Grown).  All but Turned close one direction between the groups.         *)
EXTENDS Overlay

Network(cidr, hubs, agents, acls) ==
  [cidr |-> cidr, mtu |-> 1420, hubListenPort |-> 51820, persistentKeepalive |-> 25000,
   groups |-> <<"g", "h">>,
   hubs |-> [i \in DOMAIN hubs |-> [name |-> hubs[i][1], endpoint |-> "e", tunnelIP |-> hubs[i][2]]],
   agents |-> [i \in DOMAIN agents |-> [name |-> agents[i][1], tunnelIP |-> agents[i][2],
                                        hub |-> agents[i][3], groups |-> <<agents[i][4]>>]],
   acls |-> [i \in DOMAIN acls |-> [from |-> <<acls[i][1]>>, to |-> <<acls[i][2]>>,
                                    action |-> acls[i][3]]]]

Hubs == <<<<"p", 1>>, <<"q", 2>>>>
Open == <<<<"g", "h", "allow">>, <<"h", "g", "allow">>>>
OneWay == <<<<"g", "h", "allow">>>>

Apart == Network(1..5, Hubs, <<<<"a", 3, "p", "g">>, <<"b", 4, "q", "h">>>>, Open)
Crossed == Network(1..5, Hubs, <<<<"a", 4, "q", "g">>, <<"b", 3, "p", "h">>>>, OneWay)
Moved == Network(1..5, <<<<"p", 5>>, <<"q", 2>>>>, <<<<"a", 1, "p", "g">>, <<"b", 4, "q", "h">>>>, OneWay)

Under == Network(1..5, Hubs, <<<<"a", 3, "q", "g">>>>, Open)
Turned == Network(1..5, <<<<"p", 5>>, <<"a", 3>>>>, <<<<"q", 2, "p", "h">>>>, Open)

Alone == Network(1..5, Hubs, <<<<"a", 3, "p", "g">>>>, Open)
Replaced == Network(1..5, Hubs, <<<<"b", 3, "p", "h">>>>, OneWay)

Small == Network(1..4, <<<<"p", 1>>>>, <<<<"a", 3, "p", "g">>, <<"b", 4, "p", "h">>>>, Open)
Grown == Network(1..5, <<<<"p", 1>>>>, <<<<"a", 3, "p", "g">>, <<"b", 5, "p", "h">>>>, OneWay)

MCEdits == <<<<Apart, Crossed>>, <<Under, Turned>>, <<Alone, Replaced>>, <<Apart, Moved>>, <<Small, Grown>>>>
MCMaxFaults == <<1, 2, 1, 1, 1>>
=============================================================================
