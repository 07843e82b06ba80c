--------------------------- MODULE FirewallProofs ---------------------------
(***************************************************************************)
(* The enforcement of the ACL, proved for every set of documents and of    *)
(* addresses.                                                              *)
(***************************************************************************)
EXTENDS Firewall, DocumentProofs

Prefix(c, r) == Len(c) <= Len(r) /\ \A i \in 1..Len(c) : c[i] = r[i]

-----------------------------------------------------------------------------
(* What Reconcile installs for a document decides as its ACL means it. *)
LEMMA PolicyCompiled == \A d \in Docs : Compiled(d)
  BY DocsAssumption, CompiledAsMeant

(* A chain cut short after some rule drops a flow only if the whole chain  *)
(* does (Firewall.Reconcile appends in order, iptables takes the first     *)
(* match).                                                                 *)
LEMMA PrefixDrops ==
  ASSUME NEW r \in Seq(RuleSet), NEW c \in Seq(RuleSet), Prefix(c, r), NEW f,
         Verdict(c, f) = "DROP"
  PROVE  Verdict(r, f) = "DROP"
<1> DEFINE hc == {i \in DOMAIN c : Matches(c[i], f)}
           hr == {i \in DOMAIN r : Matches(r[i], f)}
           Least(H, i) == i \in H /\ \A j \in H : i <= j
<1>1. hc # {} /\ hc \subseteq hr /\ hc \subseteq Nat /\ hr \subseteq Nat
  <2>1. hc # {}
    BY DEF Verdict
  <2>2. DOMAIN c = 1..Len(c) /\ DOMAIN r = 1..Len(r) /\ Len(c) \in Nat /\ Len(r) \in Nat
    OBVIOUS
  <2> QED
    BY <2>1, <2>2 DEF Prefix
<1>2. PICK m : Least(hc, m)
  BY <1>1, LeastExists
<1>3. Least(hr, m)
  <2> SUFFICES ASSUME NEW j \in hr PROVE m <= j
    BY <1>1, <1>2
  <2>1. DOMAIN c = 1..Len(c) /\ DOMAIN r = 1..Len(r) /\ Len(c) \in Nat /\ Len(r) \in Nat
    OBVIOUS
  <2>2. m \in 1..Len(c) /\ j \in 1..Len(r)
    BY <1>2, <2>1
  <2>3. CASE j \in 1..Len(c)
    BY <1>2, <2>1, <2>3 DEF Prefix
  <2>4. CASE j \notin 1..Len(c)
    BY <2>1, <2>2, <2>4
  <2> QED
    BY <2>3, <2>4
<1>4. ASSUME NEW H \in {hc, hr}, NEW i, Least(H, i)
      PROVE  i = (CHOOSE k \in H : \A j \in H : k <= j)
  <2> HIDE DEF hc, hr
  <2>1. H \subseteq Nat
    BY <1>1
  <2>2. \A k \in H : (\A j \in H : k <= j) => k = i
    BY <1>4, <2>1
  <2> QED
    BY <1>4, <2>2
<1>5. Verdict(c, f) = c[m].target /\ Verdict(r, f) = r[m].target
  <2>1. m = (CHOOSE k \in hc : \A j \in hc : k <= j)
    BY <1>2, <1>4
  <2>2. m = (CHOOSE k \in hr : \A j \in hr : k <= j)
    BY <1>3, <1>4
  <2> QED
    BY <1>1, <2>1, <2>2, Zenon DEF Verdict
<1> QED
  BY <1>2, <1>5 DEF Prefix

-----------------------------------------------------------------------------
Managing == {"ensureChain", "ensureForwardJump", "clear", "append"}

(* The types, with rules that may be any of RuleSet. *)
Typed ==
  /\ spec \in Docs /\ cancelled \in BOOLEAN
  /\ pc \in Managing \cup {"exited", "bringUp", "openFirewall", "heartbeat", "cycle", "loop",
                           "deleteJump", "flushChain", "deleteChain", "linkDown"}
  /\ doc \in Docs \cup {NoDoc} /\ (pc \in Managing => doc \in Docs)
  /\ link \in BOOLEAN /\ peers \in BOOLEAN /\ exists \in BOOLEAN
  /\ chain \in Seq(RuleSet)
  /\ wrote \in Docs \cup {NoDoc} /\ whole \in Docs \cup {NoDoc}
  /\ enforced \in BOOLEAN

(* There is one jump from ensureForwardJump on, and its chain exists. *)
Jump ==
  /\ jumps \in {0, 1} /\ (jumps = 1 => exists)
  /\ pc = "ensureForwardJump" => exists
  /\ pc \in {"clear", "append"} => jumps = 1

(* The chain is a prefix of the rules it is written from, a proper one as  *)
(* long as the loop over them goes on, and all of them once it is over.    *)
Written ==
  /\ wrote # NoDoc => Prefix(chain, RulesFor(wrote))
  /\ pc = "append" => wrote = doc /\ Len(chain) < Len(RulesFor(doc))
  /\ whole # NoDoc => wrote = whole /\ Len(chain) = Len(RulesFor(whole)) /\ jumps = 1

Inv == Typed /\ Jump /\ Written

(* Before the first start nothing is installed. *)
LEMMA InitInv == Init => Inv
<1> SUFFICES ASSUME Init PROVE Inv
  OBVIOUS
<1>1. Typed
  <2>1. chain \in Seq(RuleSet)
    BY DEF Init
  <2>2. cancelled \in BOOLEAN /\ link \in BOOLEAN /\ peers \in BOOLEAN /\ exists \in BOOLEAN
        /\ enforced \in BOOLEAN
    BY Zenon DEF Init
  <2>3. pc = "exited" /\ spec \in Docs /\ doc = NoDoc /\ wrote = NoDoc /\ whole = NoDoc
    BY DEF Init
  <2> QED
    BY <2>1, <2>2, <2>3 DEF Typed, Managing
<1>2. Jump /\ Written
  BY DocsAssumption DEF Init, Jump, Written
<1> QED
  BY <1>1, <1>2 DEF Inv

(* Every step of the agent keeps the types. *)
LEMMA NextTyped == Inv /\ [Next]_vars => Typed'
<1> SUFFICES ASSUME Inv, [Next]_vars PROVE Typed'
  OBVIOUS
<1> USE DEF Inv, Typed, Managing, process, kernel, history
<1>1. ASSUME NEW d \in Docs, SpecChanges(d) PROVE Typed'
  BY <1>1 DEF SpecChanges
<1>2. CASE Signal \/ Start \/ BringUp \/ BringUpFails \/ OpenFirewall
  <2>1. CASE Signal \/ Start
    BY <2>1 DEF Signal, Start
  <2>2. CASE BringUp \/ OpenFirewall
    BY <2>2 DEF BringUp, OpenFirewall
  <2>3. CASE BringUpFails
    BY <2>3 DEF BringUpFails
  <2> QED
    BY <1>2, <2>1, <2>2, <2>3
<1>3. CASE Heartbeat \/ CycleAppliesPeers \/ CycleEndsEarly
  BY <1>3 DEF Heartbeat, CycleAppliesPeers, CycleEndsEarly
<1>4. CASE ensureChain \/ ensureForwardJump \/ ReconcileFails
  BY <1>4 DEF ensureChain, ensureForwardJump, ReconcileFails
<1>5. CASE ClearChain
  BY <1>5 DEF ClearChain
<1>6. CASE AppendRule
  <2>1. RulesFor(doc) \in Seq(RuleSet) /\ Len(chain) + 1 \in 1..Len(RulesFor(doc))
    BY <1>6, PolicyCompiled DEF AppendRule, Compiled, Written
  <2>2. chain' \in Seq(RuleSet)
    BY <1>6, <2>1 DEF AppendRule
  <2> QED
    BY <1>6, <2>2 DEF AppendRule
<1>7. CASE LoopWakes \/ LoopDone \/ Crash
  BY <1>7 DEF LoopWakes, LoopDone, Crash
<1>8. ASSUME NEW ok \in BOOLEAN, TeardownJump(ok) \/ TeardownFlush(ok) \/ TeardownDelete(ok)
      PROVE  Typed'
  <2>1. CASE TeardownJump(ok)
    BY <1>8, <2>1 DEF TeardownJump
  <2>2. CASE TeardownFlush(ok)
    BY <1>8, <2>2 DEF TeardownFlush
  <2>3. CASE TeardownDelete(ok)
    <3>1. exists' \in BOOLEAN
      BY <2>3, Zenon DEF TeardownDelete
    <3> QED
      BY <2>3, <3>1 DEF TeardownDelete
  <2> QED
    BY <1>8, <2>1, <2>2, <2>3
<1>9. ASSUME NEW ok \in BOOLEAN, LinkDown(ok) PROVE Typed'
  BY <1>9 DEF LinkDown
<1>10. CASE UNCHANGED vars
  BY <1>10 DEF vars
<1> QED
  BY <1>1, <1>2, <1>3, <1>4, <1>5, <1>6, <1>7, <1>8, <1>9, <1>10 DEF Next, Reconcile, Teardown

(* A second jump is never installed and the chain under a jump never goes. *)
LEMMA NextJump == Jump /\ [Next]_vars => Jump'
<1> SUFFICES ASSUME Jump, [Next]_vars PROVE Jump'
  OBVIOUS
<1> USE DEF Jump, process, kernel, history
<1>1. ASSUME NEW d \in Docs, SpecChanges(d) PROVE Jump'
  BY <1>1 DEF SpecChanges
<1>2. CASE Signal \/ Start \/ BringUp \/ BringUpFails \/ OpenFirewall
  BY <1>2 DEF Signal, Start, BringUp, BringUpFails, OpenFirewall
<1>3. CASE Heartbeat \/ CycleAppliesPeers \/ CycleEndsEarly
  BY <1>3 DEF Heartbeat, CycleAppliesPeers, CycleEndsEarly
<1>4. CASE ensureChain \/ ensureForwardJump \/ ReconcileFails
  BY <1>4 DEF ensureChain, ensureForwardJump, ReconcileFails
<1>5. CASE ClearChain
  BY <1>5 DEF ClearChain
<1>6. CASE AppendRule
  BY <1>6 DEF AppendRule
<1>7. CASE LoopWakes \/ LoopDone \/ Crash
  BY <1>7 DEF LoopWakes, LoopDone, Crash
<1>8. ASSUME NEW ok \in BOOLEAN, TeardownJump(ok) \/ TeardownFlush(ok) \/ TeardownDelete(ok)
      PROVE  Jump'
  <2>1. CASE TeardownJump(ok)
    BY <1>8, <2>1 DEF TeardownJump
  <2>2. CASE TeardownFlush(ok)
    BY <2>2 DEF TeardownFlush
  <2>3. CASE TeardownDelete(ok)
    <3>1. pc' = "linkDown" /\ jumps' = jumps
      BY <2>3 DEF TeardownDelete
    <3>2. ASSUME jumps = 1 PROVE exists'
      <4>1. exists /\ jumps # 0
        BY <3>2
      <4> QED
        BY <2>3, <4>1, Zenon DEF TeardownDelete
    <3> QED
      BY <3>1, <3>2
  <2> QED
    BY <1>8, <2>1, <2>2, <2>3
<1>9. ASSUME NEW ok \in BOOLEAN, LinkDown(ok) PROVE Jump'
  BY <1>9 DEF LinkDown
<1>10. CASE UNCHANGED vars
  BY <1>10 DEF vars
<1> QED
  BY <1>1, <1>2, <1>3, <1>4, <1>5, <1>6, <1>7, <1>8, <1>9, <1>10 DEF Next, Reconcile, Teardown

(* The chain is always a prefix of the rules of one document, and complete *)
(* when Reconcile has returned.                                            *)
LEMMA NextWritten == Inv /\ [Next]_vars => Written'
<1> SUFFICES ASSUME Inv, [Next]_vars PROVE Written'
  OBVIOUS
<1> USE DEF Inv, Written, process, kernel, history
<1>0. ASSUME NEW d \in Docs
      PROVE  RulesFor(d) \in Seq(RuleSet) /\ Len(RulesFor(d)) \in Nat \ {0} /\ d # NoDoc
  BY DocsAssumption, PolicyCompiled DEF Compiled
<1>1. ASSUME NEW d \in Docs, SpecChanges(d) PROVE Written'
  BY <1>1 DEF SpecChanges
<1>2. CASE Signal \/ Start \/ BringUp \/ BringUpFails \/ OpenFirewall
  BY <1>2 DEF Signal, Start, BringUp, BringUpFails, OpenFirewall
<1>3. CASE Heartbeat \/ CycleAppliesPeers \/ CycleEndsEarly
  BY <1>3 DEF Heartbeat, CycleAppliesPeers, CycleEndsEarly
<1>4. CASE ensureChain \/ ensureForwardJump \/ ReconcileFails
  BY <1>4 DEF ensureChain, ensureForwardJump, ReconcileFails
<1>5. CASE ClearChain
  <2>1. doc \in Docs
    BY <1>5 DEF ClearChain, Typed, Managing
  <2>2. chain' = <<>> /\ Len(chain') = 0 /\ wrote' = doc /\ doc' = doc /\ whole' = NoDoc
    BY <1>5 DEF ClearChain
  <2> QED
    BY <1>0, <2>1, <2>2 DEF Prefix
<1>6. CASE AppendRule
  <2> DEFINE r == RulesFor(doc)
  <2>1. doc \in Docs /\ wrote = doc /\ Prefix(chain, r) /\ chain \in Seq(RuleSet)
        /\ Len(chain) < Len(r) /\ jumps = 1
    BY <1>0, <1>6 DEF AppendRule, Typed, Managing, Jump
  <2>2. chain' = Append(chain, r[Len(chain) + 1]) /\ doc' = doc /\ wrote' = wrote /\ jumps' = jumps
    BY <1>6 DEF AppendRule
  <2>3. r \in Seq(RuleSet) /\ r[Len(chain) + 1] \in RuleSet
    BY <1>0, <2>1
  <2>4. Len(chain') = Len(chain) + 1 /\ Prefix(chain', r)
    <3> HIDE DEF r
    <3> QED
      BY <2>1, <2>2, <2>3 DEF Prefix
  <2>5. CASE Len(chain) + 1 < Len(r)
    <3>1. pc' = pc /\ whole' = whole
      BY <1>6, <2>5 DEF AppendRule
    <3>2. whole = NoDoc
      BY <2>1
    <3> QED
      BY <2>1, <2>2, <2>4, <2>5, <3>1, <3>2
  <2>6. CASE ~(Len(chain) + 1 < Len(r))
    <3>1. pc' = "loop" /\ whole' = doc
      BY <1>6, <2>6 DEF AppendRule
    <3>2. Len(chain') = Len(r)
      BY <2>1, <2>3, <2>4, <2>6
    <3> QED
      BY <2>1, <2>2, <2>4, <3>1, <3>2
  <2> QED
    BY <2>5, <2>6
<1>7. CASE LoopWakes \/ LoopDone \/ Crash
  BY <1>7 DEF LoopWakes, LoopDone, Crash
<1>8. ASSUME NEW ok \in BOOLEAN, TeardownJump(ok) \/ TeardownFlush(ok) \/ TeardownDelete(ok)
      PROVE  Written'
  <2>1. CASE TeardownJump(ok)
    BY <2>1 DEF TeardownJump
  <2>2. CASE TeardownFlush(ok)
    <3>1. CASE ok
      <4>1. chain' = <<>> /\ Len(chain') = 0 /\ whole' = NoDoc /\ wrote' = wrote /\ pc' # "append"
        BY <2>2, <3>1 DEF TeardownFlush
      <4> QED
        BY <1>0, <4>1 DEF Prefix, Typed
    <3>2. CASE ~ok
      BY <2>2, <3>2 DEF TeardownFlush
    <3> QED
      BY <3>1, <3>2
  <2>3. CASE TeardownDelete(ok)
    BY <2>3 DEF TeardownDelete
  <2> QED
    BY <1>8, <2>1, <2>2, <2>3
<1>9. ASSUME NEW ok \in BOOLEAN, LinkDown(ok) PROVE Written'
  BY <1>9 DEF LinkDown
<1>10. CASE UNCHANGED vars
  BY <1>10 DEF vars
<1> QED
  BY <1>1, <1>2, <1>3, <1>4, <1>5, <1>6, <1>7, <1>8, <1>9, <1>10 DEF Next, Reconcile, Teardown

-----------------------------------------------------------------------------
(* The conjunction the theorems rest on is inductive, across failed calls, *)
(* crashes and restarts.                                                   *)
THEOREM Invariance == Spec => []Inv
<1>1. Inv /\ [Next]_vars => Inv'
  BY NextTyped, NextJump, NextWritten DEF Inv
<1> QED
  BY <1>1, InitInv, PTL DEF Spec

(* The agent and the kernel state it manages stay in their types. *)
THEOREM TypeCorrect == Spec => []TypeOK
<1>1. Inv => TypeOK
  <2> SUFFICES ASSUME Inv PROVE TypeOK
    OBVIOUS
  <2>1. \A i \in DOMAIN chain : chain[i].target \in {"ACCEPT", "DROP", "RETURN"}
    <3>1. \A i \in DOMAIN chain : chain[i] \in RuleSet
      BY DEF Inv, Typed
    <3>2. \A x \in RuleSet : x.target \in {"ACCEPT", "DROP", "RETURN"}
      BY DEF RuleSet
    <3> QED
      BY <3>1, <3>2
  <2>2. jumps \in Nat
    BY DEF Inv, Jump
  <2>3. pc \in {"exited", "bringUp", "openFirewall", "heartbeat", "cycle", "ensureChain",
                "ensureForwardJump", "clear", "append", "loop", "deleteJump", "flushChain",
                "deleteChain", "linkDown"}
    BY DEF Inv, Typed, Managing
  <2> QED
    BY <2>1, <2>2, <2>3 DEF Inv, Typed, TypeOK
<1> QED
  BY <1>1, Invariance, PTL

(* However often cycles fail and the process dies: one jump at most, and   *)
(* never one to a chain that is not there (ensureForwardJump, Teardown).   *)
THEOREM JumpOnce == Spec => []OneJump
<1>1. Init => Jump
  BY InitInv DEF Inv
<1>2. Jump => OneJump
  BY DEF Jump, OneJump
<1> QED
  BY <1>1, <1>2, NextJump, PTL DEF Spec

(* From the end of a Reconcile to the next flush or Teardown, every flow   *)
(* is decided as the document says.                                        *)
THEOREM Enforced == Spec => []EnforcedUntilRewritten
<1>1. Inv => EnforcedUntilRewritten
  <2> SUFFICES ASSUME Inv, whole # NoDoc, NEW f \in Flow
               PROVE  Decision(f) = Policy(whole, f)
    BY DEF EnforcedUntilRewritten
  <2>1. whole \in Docs /\ jumps = 1 /\ chain \in Seq(RuleSet)
        /\ Prefix(chain, RulesFor(whole)) /\ Len(chain) = Len(RulesFor(whole))
    BY DEF Inv, Typed, Written
  <2>2. RulesFor(whole) \in Seq(RuleSet) /\ Verdict(RulesFor(whole), f) = Policy(whole, f)
    BY <2>1, PolicyCompiled DEF Compiled, DecidesAsPolicy
  <2>3. chain = RulesFor(whole)
    BY <2>1, <2>2 DEF Prefix
  <2> QED
    BY <2>1, <2>2, <2>3 DEF Decision
<1> QED
  BY <1>1, Invariance, PTL

(* At whatever rule a rewrite stands, stops or fails, no flow is cut off   *)
(* that the document it is written from permits.                           *)
THEOREM NotOverblocked == Spec => []NeverOverblocks
<1>1. Inv => NeverOverblocks
  <2> SUFFICES ASSUME Inv, wrote # NoDoc, NEW f \in Flow, Decision(f) = "DROP"
               PROVE  Policy(wrote, f) = "DROP"
    BY DEF NeverOverblocks
  <2>1. wrote \in Docs /\ chain \in Seq(RuleSet) /\ Prefix(chain, RulesFor(wrote))
    BY DEF Inv, Typed, Written
  <2>2. RulesFor(wrote) \in Seq(RuleSet) /\ Verdict(RulesFor(wrote), f) = Policy(wrote, f)
    BY <2>1, PolicyCompiled DEF Compiled, DecidesAsPolicy
  <2>3. Verdict(chain, f) = "DROP"
    BY DEF Decision
  <2> QED
    BY <2>1, <2>2, <2>3, PrefixDrops
<1> QED
  BY <1>1, Invariance, PTL
=============================================================================
