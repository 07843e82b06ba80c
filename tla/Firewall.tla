------------------------------ MODULE Firewall ------------------------------
(***************************************************************************)
(* A hub's enforcement of the ACL: the kernel state its agent manages (the *)
(* link with its peers, the SEINE-FWD chain and the jump to it from        *)
(* FORWARD) and the process that manages it (internal/agentcore, Run and   *)
(* reconcileOnce; internal/netpolicy, Firewall).  Every iptables call is a *)
(* step: packets are forwarded between any two of them, each may fail, and *)
(* the process may die between them while the kernel state stays.          *)
(***************************************************************************)
EXTENDS NetPolicy

CONSTANTS Docs,   \* documents the agent's watcher may cache
          NoDoc   \* none

ASSUME DocsAssumption == /\ NoDoc \notin Docs
                         /\ \A d \in Docs : Parsed(d) /\ d.cidr \subseteq Address

VARIABLES
  spec,      \* the document Current returns
  cancelled, \* the context was cancelled
  pc,        \* where the agent is
  doc,       \* the document of the running cycle
  link,      \* the WireGuard link exists and is up
  peers,     \* it has peers
  exists,    \* the chain SEINE-FWD exists
  chain,     \* its rules
  jumps,     \* jump rules to it in FORWARD
  wrote,     \* history: the document the rules in the chain are from
  whole,     \* history: the document whose rules are completely installed
  enforced   \* history: this process has completed a Reconcile

process == <<spec, cancelled>>
kernel == <<link, peers, exists, chain, jumps>>
history == <<wrote, whole, enforced>>
vars == <<process, pc, doc, kernel, history>>

Init ==
  /\ spec \in Docs /\ cancelled = FALSE
  /\ pc = "exited" /\ doc = NoDoc
  /\ link = FALSE /\ peers = FALSE /\ exists = FALSE /\ chain = <<>> /\ jumps = 0
  /\ wrote = NoDoc /\ whole = NoDoc /\ enforced = FALSE

(* The watcher swaps in another document (SpecSource!Swap). *)
SpecChanges(d) ==
  /\ d # spec
  /\ spec' = d
  /\ UNCHANGED <<cancelled, pc, doc, kernel, history>>

Signal ==
  /\ pc # "exited" /\ ~cancelled
  /\ cancelled' = TRUE
  /\ UNCHANGED <<spec, pc, doc, kernel, history>>

-----------------------------------------------------------------------------
(* Run, up to reconcileLoop.                                               *)

Start ==
  /\ pc = "exited"
  /\ pc' = "bringUp"
  /\ cancelled' = FALSE
  /\ enforced' = FALSE
  /\ UNCHANGED <<spec, doc, kernel, wrote, whole>>

(* Up reuses a link that is there, peers included (ReplacePeers: false). *)
BringUp ==
  /\ pc = "bringUp"
  /\ link' = TRUE
  /\ pc' = "openFirewall"
  /\ UNCHANGED <<process, doc, peers, exists, chain, jumps, history>>

(* Run returns before Down is deferred; the link may have been created. *)
BringUpFails ==
  /\ pc = "bringUp"
  /\ link' \in {link, TRUE}
  /\ pc' = "exited"
  /\ UNCHANGED <<process, doc, peers, exists, chain, jumps, history>>

(* EnsureIPForwarding and NewFirewall, neither of which touches the rules. *)
OpenFirewall ==
  /\ pc = "openFirewall"
  /\ pc' \in {"heartbeat", "linkDown"}
  /\ UNCHANGED <<process, doc, kernel, history>>

-----------------------------------------------------------------------------
(* reconcileOnce and reconcileLoop.                                        *)

Heartbeat ==
  /\ pc = "heartbeat"
  /\ ~cancelled
  /\ pc' = "cycle"
  /\ UNCHANGED <<process, doc, kernel, history>>

(* Mutant of CycleAppliesPeers: the document of the first cycle is kept. *)
CycleKeepsDoc ==
  /\ pc = "cycle"
  /\ doc' = IF doc = NoDoc THEN spec ELSE doc
  /\ peers' \in BOOLEAN
  /\ pc' = "ensureChain"
  /\ UNCHANGED <<process, link, exists, chain, jumps, history>>

(* Current, PeersFor and ApplyPeers succeed. *)
CycleAppliesPeers ==
  /\ pc = "cycle"
  /\ doc' = spec
  /\ peers' \in BOOLEAN
  /\ pc' = "ensureChain"
  /\ UNCHANGED <<process, link, exists, chain, jumps, history>>

(* One of these fails, or the heartbeat only led to a registration: the    *)
(* cycle ends early and leaves the rules as they are.                      *)
CycleEndsEarly ==
  /\ pc \in {"heartbeat", "cycle"}
  /\ peers' \in IF pc = "cycle" THEN BOOLEAN ELSE {peers}
  /\ pc' = "loop"
  /\ UNCHANGED <<process, doc, link, exists, chain, jumps, history>>

ensureChain ==
  /\ pc = "ensureChain"
  /\ exists' = TRUE
  /\ pc' = "ensureForwardJump"
  /\ UNCHANGED <<process, doc, link, peers, chain, jumps, history>>

(* Mutant of ensureForwardJump: no Exists query. *)
insertForwardJump ==
  /\ pc = "ensureForwardJump"
  /\ jumps < 2
  /\ jumps' = jumps + 1
  /\ pc' = "clear"
  /\ UNCHANGED <<process, doc, link, peers, exists, chain, history>>

ensureForwardJump ==
  /\ pc = "ensureForwardJump"
  /\ jumps' = IF jumps = 0 THEN 1 ELSE jumps
  /\ pc' = "clear"
  /\ UNCHANGED <<process, doc, link, peers, exists, chain, history>>

ClearChain ==
  /\ pc = "clear"
  /\ chain' = <<>>
  /\ wrote' = doc
  /\ whole' = NoDoc
  /\ pc' = "append"
  /\ UNCHANGED <<process, doc, link, peers, exists, jumps, enforced>>

(* One turn of the loop over buildRules; the last one ends the cycle. *)
AppendRule ==
  LET rules == RulesFor(doc)
      n == Len(chain) + 1
  IN  /\ pc = "append"
      /\ chain' = Append(chain, rules[n])
      /\ IF n < Len(rules)
         THEN UNCHANGED <<pc, whole, enforced>>
         ELSE pc' = "loop" /\ whole' = doc /\ enforced' = TRUE
      /\ UNCHANGED <<process, doc, link, peers, exists, jumps, wrote>>

(* An iptables call of Reconcile fails: reconcileOnce returns the error,   *)
(* what was done stays.                                                    *)
ReconcileFails ==
  /\ pc \in {"ensureChain", "ensureForwardJump", "clear", "append"}
  /\ pc' = "loop"
  /\ UNCHANGED <<process, doc, kernel, history>>

(* The next tick or update ... *)
LoopWakes ==
  /\ pc = "loop"
  /\ pc' = "heartbeat"
  /\ UNCHANGED <<process, doc, kernel, history>>

(* ... or the end: the deferred calls run last in, first out. *)
LoopDone ==
  /\ pc = "loop"
  /\ cancelled
  /\ pc' = "deleteJump"
  /\ UNCHANGED <<process, doc, kernel, history>>

-----------------------------------------------------------------------------
(* Teardown, whose errors are only logged, then iface.Down.                *)

(* Mutant of TeardownJump: the count of a jump that is not there. *)
TeardownJumpBlind(ok) ==
  /\ pc = "deleteJump"
  /\ jumps' = IF ok THEN jumps - 1 ELSE jumps
  /\ whole' = IF ok THEN NoDoc ELSE whole
  /\ pc' = "flushChain"
  /\ UNCHANGED <<process, doc, link, peers, exists, chain, wrote, enforced>>

TeardownJump(ok) ==
  /\ pc = "deleteJump"
  /\ jumps' = IF ok /\ jumps > 0 THEN jumps - 1 ELSE jumps
  /\ whole' = IF ok THEN NoDoc ELSE whole
  /\ pc' = "flushChain"
  /\ UNCHANGED <<process, doc, link, peers, exists, chain, wrote, enforced>>

TeardownFlush(ok) ==
  /\ pc = "flushChain"
  /\ chain' = IF ok THEN <<>> ELSE chain
  /\ whole' = IF ok THEN NoDoc ELSE whole
  /\ pc' = "deleteChain"
  /\ UNCHANGED <<process, doc, link, peers, exists, jumps, wrote, enforced>>

(* The kernel deletes only an empty chain nothing jumps to. *)
TeardownDelete(ok) ==
  /\ pc = "deleteChain"
  /\ exists' = (exists /\ ~(ok /\ chain = <<>> /\ jumps = 0))
  /\ pc' = "linkDown"
  /\ UNCHANGED <<process, doc, link, peers, chain, jumps, history>>

LinkDown(ok) ==
  /\ pc = "linkDown"
  /\ link' = (link /\ ~ok)
  /\ peers' = (peers /\ ~ok)
  /\ pc' = "exited"
  /\ UNCHANGED <<process, doc, exists, chain, jumps, history>>

(* The process dies; what is in the kernel stays. *)
Crash ==
  /\ pc # "exited"
  /\ pc' = "exited"
  /\ UNCHANGED <<process, doc, kernel, history>>

Teardown == \E ok \in BOOLEAN : TeardownJump(ok) \/ TeardownFlush(ok) \/ TeardownDelete(ok)
Reconcile == ensureChain \/ ensureForwardJump \/ ClearChain \/ AppendRule \/ ReconcileFails

Next ==
  \/ \E d \in Docs : SpecChanges(d)
  \/ Signal \/ Start \/ BringUp \/ BringUpFails \/ OpenFirewall
  \/ Heartbeat \/ CycleAppliesPeers \/ CycleEndsEarly \/ Reconcile
  \/ LoopWakes \/ LoopDone \/ Teardown
  \/ \E ok \in BOOLEAN : LinkDown(ok)
  \/ Crash

Spec == Init /\ [][Next]_vars

(* Go runs the goroutine and the ticker wakes it up. *)
Fairness ==
  /\ WF_vars(LoopWakes) /\ WF_vars(Heartbeat \/ CycleAppliesPeers \/ CycleEndsEarly)
  /\ WF_vars(Reconcile)

FairSpec == Spec /\ Fairness

-----------------------------------------------------------------------------
(* What the hub does to a forwarded flow: without a jump, or when the      *)
(* chain returns, the host's own FORWARD rules go on ("RETURN").           *)
Decision(f) == IF jumps = 0 THEN "RETURN" ELSE Verdict(chain, f)

Running == pc \in {"heartbeat", "cycle", "ensureChain", "ensureForwardJump", "clear", "append",
                    "loop"}

(* Every variable stays in its range. *)
TypeOK ==
  /\ spec \in Docs /\ cancelled \in BOOLEAN
  /\ pc \in {"exited", "bringUp", "openFirewall", "heartbeat", "cycle", "ensureChain",
             "ensureForwardJump", "clear", "append", "loop", "deleteJump", "flushChain",
             "deleteChain", "linkDown"}
  /\ doc \in Docs \cup {NoDoc}
  /\ link \in BOOLEAN /\ peers \in BOOLEAN
  /\ exists \in BOOLEAN
  /\ \A i \in DOMAIN chain : chain[i].target \in {"ACCEPT", "DROP", "RETURN"}
  /\ jumps \in Nat
  /\ wrote \in Docs \cup {NoDoc} /\ whole \in Docs \cup {NoDoc}
  /\ enforced \in BOOLEAN

(* What Compile, buildRules and Reconcile put into the kernel together     *)
(* decides every flow as the document says: deny wins over allow (against  *)
(* the listing in the comment of Reconcile, firewall_linux.go:49-50), hubs *)
(* are reachable, the rest is closed.  It does so from the end             *)
(* of a Reconcile until the next one flushes or Teardown starts, also when *)
(* cycles fail before they get there and across a crash and a restart.     *)
EnforcedUntilRewritten ==
  whole # NoDoc => \A f \in Flow : Decision(f) = Policy(whole, f)

(* A rewrite never cuts a flow off that the new document permits, at       *)
(* whatever rule it stands, stops or fails.                                *)
NeverOverblocks ==
  wrote # NoDoc => \A f \in Flow : Decision(f) = "DROP" => Policy(wrote, f) = "DROP"

(* However often cycles fail and the process dies, packets are handed to   *)
(* the chain at most once, and a jump never dangles.                       *)
OneJump == jumps <= 1 /\ (jumps = 1 => exists)

(* As long as the agent runs and the spec rests, its policy is completely  *)
(* installed again and again, from the time on at which calls no longer    *)
(* fail: no earlier failure, crash or half-written chain is in the way.    *)
PolicyKeepsReturning ==
  \A d \in Docs :
    <>[](spec = d /\ Running) /\ <>[][~(CycleEndsEarly \/ ReconcileFails)]_vars
      => []<>(whole = d)

(* firewall_linux.go on Reconcile: "so the live ruleset always matches the *)
(* spec".  Once installed, some document's rules are complete as long as   *)
(* the agent runs.                                                         *)
LiveRulesetMatchesSpec == enforced /\ Running => whole # NoDoc
=============================================================================
