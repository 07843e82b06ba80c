------------------------------ MODULE SpecDoc -------------------------------
(***************************************************************************)
(* The network specification (internal/spec) after YAML decoding, and the  *)
(* lookups the server and the agents make on it.  A Document is a record   *)
(*   cidr      the overlay prefix, as the set of addresses it contains     *)
(*   mtu, hubListenPort, persistentKeepalive (in milliseconds)             *)
(*   groups    sequence of group names                                     *)
(*   hubs      sequence of [name, endpoint, tunnelIP]                      *)
(*   agents    sequence of [name, tunnelIP, hub, groups]                   *)
(*   acls      sequence of [from, to, action]                              *)
(* A tunnel IP is a natural number.  An empty string, 0 for an address and *)
(* {} for the prefix stand for every value the corresponding parser        *)
(* (validName, validateEndpoint, ParseAddr, ParsePrefix) rejects.          *)
(***************************************************************************)
EXTENDS Integers, Sequences, Functions, FiniteSets

(* sort.Slice by the order R over distinct elements: place i goes to the   *)
(* element with i - 1 smaller ones.                                        *)
Sorted(S, R) ==
  [i \in 1..Cardinality(S) |-> CHOOSE x \in S : Cardinality({y \in S : <<y, x>> \in R}) = i - 1]

Ascending(S) == {p \in S \X S : p[1] < p[2]}

(* What a loop that skips some elements of s keeps: those at places I. *)
Selected(s, I) ==
  LET pick[J \in SUBSET DOMAIN s] ==
        [j \in 1..Cardinality(J) |-> s[Sorted(J, Ascending(J))[j]]]
  IN  pick[I]

(* A decoded document. *)
Document ==
  [cidr : SUBSET Nat, mtu : Int, hubListenPort : Int, persistentKeepalive : Int,
   groups : Seq(STRING),
   hubs : Seq([name : STRING, endpoint : STRING, tunnelIP : Nat]),
   agents : Seq([name : STRING, tunnelIP : Nat, hub : STRING, groups : Seq(STRING)]),
   acls : Seq([from : Seq(STRING), to : Seq(STRING), action : STRING])]

U16 == 256 * 256  \* how many values 16 bits have

DefaultMTU == 1420
DefaultPersistentKeepalive == 25000
DefaultHubListenPort == 51820

(* A nil *Hub and a nil *Agent. *)
NoHub == [name |-> "", endpoint |-> "", tunnelIP |-> 0]
NoAgent == [name |-> "", tunnelIP |-> 0, hub |-> "", groups |-> <<>>]

(* The first match of the code's loop is the only one: Validate lets no    *)
(* document with a repeated name through.                                  *)
FindHub(d, name) ==
  IF \E h \in Range(d.hubs) : h.name = name
  THEN CHOOSE h \in Range(d.hubs) : h.name = name
  ELSE NoHub

FindAgent(d, name) ==
  IF \E a \in Range(d.agents) : a.name = name
  THEN CHOOSE a \in Range(d.agents) : a.name = name
  ELSE NoAgent

AgentsForHub(d, hubName) ==
  Selected(d.agents, {i \in DOMAIN d.agents : d.agents[i].hub = hubName})

ApplyDefaults(d) ==
  [d EXCEPT !.mtu = IF @ = 0 THEN DefaultMTU ELSE @,
            !.persistentKeepalive = IF @ = 0 THEN DefaultPersistentKeepalive ELSE @,
            !.hubListenPort = IF @ = 0 THEN DefaultHubListenPort ELSE @]

(* Validate: the document is accepted when no check adds an error. *)
ValidateWireGuard(d) ==
  /\ d.cidr # {} /\ IsFiniteSet(d.cidr)
  /\ d.mtu \in 1280..1500
  /\ d.hubListenPort \in 1..(U16 - 1)

ValidateGroups(d) ==
  \A i \in DOMAIN d.groups :
    /\ d.groups[i] # ""
    /\ \A j \in DOMAIN d.groups : d.groups[i] = d.groups[j] => i = j

(* Names and tunnel IPs are unique across hubs and agents together. *)
ValidateNodes(d) ==
  LET nodes == [i \in DOMAIN d.hubs |-> [name |-> d.hubs[i].name, ip |-> d.hubs[i].tunnelIP]]
               \o [i \in DOMAIN d.agents |-> [name |-> d.agents[i].name, ip |-> d.agents[i].tunnelIP]]
  IN  \A i \in DOMAIN nodes :
        /\ nodes[i].name # ""
        /\ nodes[i].ip # 0 /\ nodes[i].ip \in d.cidr
        /\ \A j \in DOMAIN nodes :
             nodes[i].name = nodes[j].name \/ nodes[i].ip = nodes[j].ip => i = j

ValidateHubs(d) ==
  /\ d.hubs # <<>>
  /\ \A h \in Range(d.hubs) : h.endpoint # ""

ValidateAgents(d) ==
  \A a \in Range(d.agents) :
    /\ \E h \in Range(d.hubs) : h.name = a.hub
    /\ \A i \in DOMAIN a.groups :
         /\ a.groups[i] \in Range(d.groups)
         /\ \A j \in DOMAIN a.groups : a.groups[i] = a.groups[j] => i = j

ValidateACLs(d) ==
  \A r \in Range(d.acls) :
    /\ r.action \in {"allow", "deny"}
    /\ r.from # <<>> /\ Range(r.from) \subseteq Range(d.groups)
    /\ r.to # <<>> /\ Range(r.to) \subseteq Range(d.groups)

Validate(d) ==
  /\ ValidateWireGuard(d)
  /\ ValidateGroups(d)
  /\ ValidateNodes(d)
  /\ ValidateHubs(d)
  /\ ValidateAgents(d)
  /\ ValidateACLs(d)

(* What Parse may return: decoded, defaults filled in, validation passed. *)
Parsed(d) == d \in Document /\ ApplyDefaults(d) = d /\ Validate(d)
=============================================================================
