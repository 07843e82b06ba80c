----------------------------- MODULE NetPolicy ------------------------------
(***************************************************************************)
(* The ACL of a document as firewall rules (internal/netpolicy, Compile    *)
(* and buildRules), how iptables reads such rules, and what the ACL means  *)
(* by itself.  A rule matches a set of sources and a set of destinations.  *)
(***************************************************************************)
EXTENDS SpecDoc

CONSTANT Address  \* every address a forwarded packet may carry

Flow == {f \in Address \X Address : f[1] # f[2]}

(* sortRules. *)
PairOrder(S) ==
  {p \in S \X S : p[1][1] < p[2][1] \/ (p[1][1] = p[2][1] /\ p[1][2] < p[2][2])}

groupMembers(d, g) == {a.tunnelIP : a \in {b \in Range(d.agents) : g \in Range(b.groups)}}

(* The cartesian products of one action's rules; self-loops are skipped    *)
(* and a set has no duplicates.                                            *)
ExpandACLs(d, action) ==
  UNION {UNION {{f \in groupMembers(d, from) \X groupMembers(d, to) : f[1] # f[2]} :
                  from \in Range(r.from), to \in Range(r.to)} :
           r \in {a \in Range(d.acls) : a.action = action}}

Compile(d) ==
  LET allows == ExpandACLs(d, "allow")
      denies == ExpandACLs(d, "deny")
      hubs == {h.tunnelIP : h \in Range(d.hubs)}
  IN  [allows |-> Sorted(allows, PairOrder(allows)),
       denies |-> Sorted(denies, PairOrder(denies)),
       hubIPs |-> Sorted(hubs, Ascending(hubs)),
       overlay |-> d.cidr]

Rule(src, dst, target) == [src |-> src, dst |-> dst, target |-> target]

PairRules(pairs, target) ==
  [i \in DOMAIN pairs |-> Rule({pairs[i][1]}, {pairs[i][2]}, target)]

(* Two rules for each hub, one after the other. *)
HubRules(ips) ==
  [i \in 1..(2 * Len(ips)) |->
     LET ip == {ips[(i + 1) \div 2]}
     IN  IF i % 2 = 1 THEN Rule(ip, Address, "ACCEPT") ELSE Rule(Address, ip, "ACCEPT")]

(* Mutant of buildRules: the order the comment of Reconcile shows          *)
(* (firewall_linux.go:49-50), in which an allow wins over a deny.          *)
buildRulesAllowFirst(c) ==
  HubRules(c.hubIPs)
  \o PairRules(c.allows, "ACCEPT")
  \o PairRules(c.denies, "DROP")
  \o <<Rule(c.overlay, c.overlay, "DROP"), Rule(Address, Address, "RETURN")>>

(* Mutant of buildRules: the default deny before the allows. *)
buildRulesDenyFirst(c) ==
  HubRules(c.hubIPs)
  \o PairRules(c.denies, "DROP")
  \o <<Rule(c.overlay, c.overlay, "DROP")>>
  \o PairRules(c.allows, "ACCEPT")
  \o <<Rule(Address, Address, "RETURN")>>

(* Denies before allows, as its own comment and docs/internal/netpolicy.md *)
(* have it, and not as the listing above Reconcile does.                   *)
buildRules(c) ==
  HubRules(c.hubIPs)
  \o PairRules(c.denies, "DROP")
  \o PairRules(c.allows, "ACCEPT")
  \o <<Rule(c.overlay, c.overlay, "DROP"), Rule(Address, Address, "RETURN")>>

RulesFor(d) == buildRules(Compile(d))

(* iptables: the first rule that matches decides; the end of the chain     *)
(* returns to FORWARD.                                                     *)
Matches(rule, f) == f[1] \in rule.src /\ f[2] \in rule.dst

Verdict(chain, f) ==
  LET hits == {i \in DOMAIN chain : Matches(chain[i], f)}
  IN  IF hits = {} THEN "RETURN"
      ELSE chain[CHOOSE i \in hits : \A j \in hits : i <= j].target

-----------------------------------------------------------------------------
(* The meaning of the ACL, from the document alone: traffic of a hub is    *)
(* free; between agents a flow needs a rule that allows it and none that   *)
(* denies it, whatever the order of the rules; other addresses of the      *)
(* overlay may not talk at all.  Flows that leave the overlay are not      *)
(* decided here.                                                           *)
Covers(d, r, f) ==
  \E a, b \in Range(d.agents) :
    /\ a.tunnelIP = f[1] /\ Range(a.groups) \cap Range(r.from) # {}
    /\ b.tunnelIP = f[2] /\ Range(b.groups) \cap Range(r.to) # {}

Policy(d, f) ==
  LET rules(action) == {r \in Range(d.acls) : r.action = action /\ Covers(d, r, f)}
  IN  IF \E h \in Range(d.hubs) : h.tunnelIP \in {f[1], f[2]} THEN "ACCEPT"
      ELSE IF rules("deny") # {} THEN "DROP"
      ELSE IF rules("allow") # {} THEN "ACCEPT"
      ELSE IF f[1] \in d.cidr /\ f[2] \in d.cidr THEN "DROP"
      ELSE "RETURN"

(* The rules Compile and buildRules make of a document decide every flow   *)
(* as the ACL means it, however its rules overlap, repeat or contradict    *)
(* each other: a deny wins wherever it is listed.  That is what buildRules *)
(* does and says; the listing in the comment of Reconcile                  *)
(* (firewall_linux.go:49-50) would let an allow win.                       *)
DecidesAsPolicy(d) == \A f \in Flow : Verdict(RulesFor(d), f) = Policy(d, f)

RuleSet ==
  [src : SUBSET Address, dst : SUBSET Address, target : {"ACCEPT", "DROP", "RETURN"}]

(* The rules of a document are a list that is not empty and decides as     *)
(* the ACL means it (buildRules ends with two rules in any case).          *)
Compiled(d) ==
  /\ RulesFor(d) \in Seq(RuleSet) /\ RulesFor(d) # <<>>
  /\ DecidesAsPolicy(d)
=============================================================================
