----------------------------- MODULE MCFirewall -----------------------------
(* Instances of Firewall for TLC: one hub, three agents and a spare        *)
(* address; two documents in which rules for a pair overlap, contradict    *)
(* each other and name groups with common members.                         *)
EXTENDS Firewall

Network(agents, acls) ==
  [cidr |-> 1..5, mtu |-> 1420, hubListenPort |-> 51820, persistentKeepalive |-> 25000,
   groups |-> <<"web", "db", "ops">>,
   hubs |-> <<[name |-> "hub", endpoint |-> "host:1", tunnelIP |-> 1]>>,
   agents |-> agents, acls |-> acls]

Spoke(name, ip, groups) == [name |-> name, tunnelIP |-> ip, hub |-> "hub", groups |-> groups]
ACL(from, to, action) == [from |-> from, to |-> to, action |-> action]

Contradicting ==
  Network(<<Spoke("b", 3, <<"db">>), Spoke("a", 2, <<"web", "ops">>), Spoke("c", 4, <<"ops">>)>>,
          <<ACL(<<"web">>, <<"db">>, "allow"), ACL(<<"ops">>, <<"web", "db">>, "allow"),
            ACL(<<"web">>, <<"db", "ops">>, "deny")>>)

Renumbered ==
  Network(<<Spoke("a", 4, <<"web">>), Spoke("b", 2, <<"db", "web">>)>>,
          <<ACL(<<"web">>, <<"web">>, "allow"), ACL(<<"db">>, <<"web">>, "deny")>>)

MCDocs == {Contradicting, Renumbered}
=============================================================================
