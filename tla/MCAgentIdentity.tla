-------------------------- MODULE MCAgentIdentity ---------------------------
(* Instances of AgentIdentity for TLC: two hosts with one name, which the  *)
(* second commit takes out of the network and the third puts back.         *)
EXTENDS AgentIdentity

MCNameOf == [h \in Hosts |-> "n"]
MCDeclaredAt == <<{"n"}, {}, {"n"}>>
=============================================================================
