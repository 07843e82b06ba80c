-------------------------- MODULE SpecSourceProofs --------------------------
(***************************************************************************)
(* TLAPS proofs about SpecSource: every variable keeps its range, the      *)
(* one-slot channel loses no change, Current shows what was published and  *)
(* the retries follow their schedule, for every set of commits, every delay *)
(* and every number of pushes, failures and restarts.                      *)
(***************************************************************************)
EXTENDS SpecSource, WellFoundedInduction, TLAPS

(* The smaller of two naturals is one of them and below both. *)
LEMMA Min2Fact ==
  ASSUME NEW a \in Nat, NEW b \in Nat
  PROVE  Min2(a, b) \in Nat /\ Min2(a, b) <= a /\ Min2(a, b) <= b /\ Min2(a, b) \in {a, b}
BY DEF Min2

(* The Boolean part of TypeOK, which Zenon proves where SMT does not. *)
Flags ==
  /\ last \in BOOLEAN /\ updates \in BOOLEAN
  /\ settled \in BOOLEAN /\ cancelled \in BOOLEAN

(* Initially everything is in range. *)
LEMMA InitTypeOK == Init => TypeOK
<1> SUFFICES ASSUME Init PROVE TypeOK
  OBVIOUS
<1>1. Flags
  BY Zenon DEF Init, Flags
<1> QED
  BY <1>1, CommitsAssumption, DelayAssumption, BoundAssumption
     DEF Init, Flags, TypeOK, WorkingCopies, PollerSteps, ReaderSteps

(* Every step of the poller, the agent and their environment (watcher.go,  *)
(* source.go, agent.go) keeps every variable in its range.                 *)
LEMMA NextTypeOK == TypeOK /\ [Next]_vars => TypeOK'
<1> SUFFICES ASSUME TypeOK, [Next]_vars
             PROVE  TypeOK'
  OBVIOUS
<1> USE CommitsAssumption, DelayAssumption, BoundAssumption
        DEF TypeOK, WorkingCopies, PollerSteps, ReaderSteps, remote, workdir, poller, shared, agent, process
<1>1. ASSUME NEW c \in Commits, Push(c) PROVE TypeOK'
  BY <1>1 DEF Push
<1>2. CASE Signal
  BY <1>2 DEF Signal
<1>3. ASSUME NEW kept \in BOOLEAN, NEW left \in WorkingCopies, Restart(kept, left)
      PROVE  TypeOK'
  <2>1. Flags'
    BY <1>3, Zenon DEF Restart, Flags
  <2>2. ref' \in Commits \cup {NoCommit} /\ git' \in WorkingCopies
    BY <1>3 DEF Restart
  <2> QED
    BY <1>3, <2>1, <2>2 DEF Restart, Flags
<1>4. CASE PullFails
  <2>1. backoff' \in MinBackoff..MaxBackoff /\ fails' \in 0..MaxFails
    BY <1>4, Min2Fact DEF PullFails, Min2
  <2> QED
    BY <1>4, <2>1 DEF PullFails
<1>5. CASE OpenRepo \/ CloneRepo \/ Fetch \/ ReadSpec
  <2>1. CASE OpenRepo
    BY <2>1 DEF OpenRepo
  <2>2. CASE CloneRepo
    BY <2>2 DEF CloneRepo
  <2>3. CASE Fetch
    BY <2>3 DEF Fetch
  <2>4. CASE ReadSpec
    BY <2>4 DEF ReadSpec
  <2> QED
    BY <1>5, <2>1, <2>2, <2>3, <2>4
<1>6. CASE Swap
  <2>1. last' \in BOOLEAN
    BY <1>6, Zenon DEF Swap
  <2> QED
    BY <1>6, <2>1 DEF Swap
<1>7. CASE Notify
  <2>1. updates' \in BOOLEAN
    BY <1>7, Zenon DEF Notify
  <2> QED
    BY <1>7, <2>1 DEF Notify
<1>8. CASE SleepOver \/ RunReturns
  BY <1>8 DEF SleepOver, RunReturns
<1>9. CASE Consume
  <2>1. updates' \in BOOLEAN /\ settled' \in BOOLEAN
    BY <1>9, Zenon DEF Consume, CheckFirstSpec, AwaitSignal, FirstSpecTimeout, Setup, Beat,
       Reconcile, ReconcileFails, LoopUpdate, LoopTick, LoopDone
  <2> QED
    BY <1>9, <2>1 DEF Consume, CheckFirstSpec, AwaitSignal, FirstSpecTimeout, Setup, Beat,
       Reconcile, ReconcileFails, LoopUpdate, LoopTick, LoopDone
<1>10. CASE UNCHANGED vars
  BY <1>10 DEF vars
<1> QED
  BY <1>1, <1>2, <1>3, <1>4, <1>5, <1>6, <1>7, <1>8, <1>9, <1>10 DEF Next, Poll

(* Type correctness of the watcher and its consumer. *)
THEOREM TypeCorrect == Spec => []TypeOK
BY InitTypeOK, NextTypeOK, PTL DEF Spec

-----------------------------------------------------------------------------
(* NoLostUpdate is inductive relative to TypeOK.  The point of the proof is *)
(* Swap: it is the only step that changes the cached commit, and it leaves *)
(* prev behind for Notify to compare with, so that a change is either not  *)
(* one or is announced.                                                    *)
LEMMA NextNoLostUpdate == TypeOK /\ NoLostUpdate /\ [Next]_vars => NoLostUpdate'
<1> SUFFICES ASSUME TypeOK, NoLostUpdate, [Next]_vars
             PROVE  NoLostUpdate'
  OBVIOUS
<1> USE DEF NoLostUpdate, SendPending, remote, workdir, poller, shared, agent, process
<1>1. ASSUME NEW c \in Commits, Push(c) PROVE NoLostUpdate'
  BY <1>1 DEF Push
<1>2. CASE Signal
  BY <1>2 DEF Signal
<1>3. ASSUME NEW kept \in BOOLEAN, NEW left \in WorkingCopies, Restart(kept, left)
      PROVE  NoLostUpdate'
  BY <1>3 DEF Restart
<1>4. CASE PullFails \/ OpenRepo \/ CloneRepo \/ Fetch \/ ReadSpec \/ SleepOver \/ RunReturns
  BY <1>4 DEF PullFails, OpenRepo, CloneRepo, Fetch, ReadSpec, SleepOver, RunReturns
<1>5. CASE Swap
  <2>1. prev' = state /\ state' = snap /\ snap' = snap /\ pc = "swap" /\ pc' = "notify"
    BY <1>5 DEF Swap
  <2>2. UNCHANGED <<updates, reader, applied, settled>>
    BY <1>5 DEF Swap
  <2> QED
    BY <2>1, <2>2
<1>6. CASE Notify
  <2>1. SendPending => updates'
    BY <1>6 DEF Notify
  <2>2. updates => updates'
    BY <1>6 DEF Notify
  <2>3. UNCHANGED <<state, reader, applied, settled>>
    BY <1>6 DEF Notify
  <2> QED
    BY <2>1, <2>2, <2>3
<1>7. CASE Consume
  BY <1>7 DEF Consume, CheckFirstSpec, AwaitSignal, FirstSpecTimeout, Setup, Beat,
     Reconcile, ReconcileFails, LoopUpdate, LoopTick, LoopDone, CurrentOK
<1>8. CASE UNCHANGED vars
  BY <1>8 DEF vars
<1> QED
  BY <1>1, <1>2, <1>3, <1>4, <1>5, <1>6, <1>7, <1>8 DEF Next, Poll

(* The lossy channel of watcher.go loses no change of the cached commit.   *)
THEOREM ChannelLosesNoUpdate == Spec => []NoLostUpdate
<1>1. Init => NoLostUpdate
  BY DEF Init, NoLostUpdate
<1> QED
  BY <1>1, TypeCorrect, NextNoLostUpdate, PTL DEF Spec

-----------------------------------------------------------------------------
(* The inductive form of CurrentIsPublishedOrError: a commit travels from  *)
(* the branch to the ref, to the pull in progress and to the cache, and    *)
(* every place it stops at holds only commits that were published.         *)
CurrentInv ==
  /\ CurrentIsPublishedOrError
  /\ tip \in published
  /\ ref \in published \cup {NoCommit}
  /\ pc = "swap" => snap \in published

(* Every step keeps CurrentInv (pullOnce, Pull, Current). *)
LEMMA NextCurrentInv == TypeOK /\ CurrentInv /\ [Next]_vars => CurrentInv'
<1> SUFFICES ASSUME TypeOK, CurrentInv, [Next]_vars
             PROVE  CurrentInv'
  OBVIOUS
<1> USE CommitsAssumption
        DEF CurrentInv, CurrentIsPublishedOrError, remote, workdir, poller, shared, agent, process
<1>1. ASSUME NEW c \in Commits, Push(c) PROVE CurrentInv'
  BY <1>1 DEF Push
<1>2. CASE Signal
  BY <1>2 DEF Signal
<1>3. ASSUME NEW kept \in BOOLEAN, NEW left \in WorkingCopies, Restart(kept, left)
      PROVE  CurrentInv'
  BY <1>3 DEF Restart
<1>4. CASE PullFails \/ OpenRepo \/ CloneRepo \/ Fetch \/ SleepOver \/ RunReturns
  BY <1>4 DEF PullFails, OpenRepo, CloneRepo, Fetch, SleepOver, RunReturns
<1>5. CASE ReadSpec
  <2>1. snap' \in published
    BY <1>5 DEF ReadSpec
  <2> QED
    BY <1>5, <2>1 DEF ReadSpec
<1>6. CASE Swap
  <2>1. state' \in published /\ state' # NoCommit
    BY <1>6 DEF Swap, TypeOK
  <2> QED
    BY <1>6, <2>1 DEF Swap
<1>7. CASE Notify
  BY <1>7 DEF Notify
<1>8. CASE Consume
  BY <1>8 DEF Consume, CheckFirstSpec, AwaitSignal, FirstSpecTimeout, Setup, Beat,
     Reconcile, ReconcileFails, LoopUpdate, LoopTick, LoopDone
<1>9. CASE UNCHANGED vars
  BY <1>9 DEF vars
<1> QED
  BY <1>1, <1>2, <1>3, <1>4, <1>5, <1>6, <1>7, <1>8, <1>9 DEF Next, Poll

(* Current (watcher.go) returns a published commit or an error.            *)
THEOREM CurrentSound == Spec => []CurrentIsPublishedOrError
<1>1. Init => CurrentInv
  BY DEF Init, CurrentInv, CurrentIsPublishedOrError
<1>2. CurrentInv => CurrentIsPublishedOrError
  BY DEF CurrentInv
<1> QED
  BY <1>1, <1>2, TypeCorrect, NextCurrentInv, PTL DEF Spec

-----------------------------------------------------------------------------
(* A set of naturals that is not empty has a least element. *)
LEMMA LeastExists ==
  ASSUME NEW H, H \subseteq Nat, H # {}
  PROVE  \E m \in H : \A j \in H : m <= j
<1> DEFINE R == OpToRel(<, Nat)
<1>1. PICK m \in H : \A y \in H : ~(<<y, m>> \in R)
  BY NatLessThanWellFounded, WFMin, Zenon
<1>2. ASSUME NEW j \in H PROVE m <= j
  <2>1. j \in Nat /\ m \in Nat
    OBVIOUS
  <2>2. ~(<<j, m>> \in R)
    BY <1>1
  <2>3. ~(j < m)
    BY <2>1, <2>2, Zenon DEF OpToRel
  <2> QED
    BY <2>1, <2>3
<1> QED
  BY <1>2

(* Doubled is what its recursive definition says: there are such functions *)
(* up to every n, since there is no least n without one.                   *)
LEMMA DoubledFact ==
  /\ Doubled \in [0..MaxFails -> Nat]
  /\ Doubled[0] = MinBackoff
  /\ \A n \in 1..MaxFails : Doubled[n] = 2 * Doubled[n - 1]
<1> DEFINE Good(k, g) == /\ g \in [0..k -> Nat] /\ g[0] = MinBackoff
                         /\ \A n \in 1..k : g[n] = 2 * g[n - 1]
           Bad == {k \in 0..MaxFails : ~\E g : Good(k, g)}
<1>1. MaxFails \in Nat /\ MinBackoff \in Nat
  BY DelayAssumption, BoundAssumption
<1>2. Good(0, [n \in 0..0 |-> MinBackoff])
  BY <1>1
<1>3. ASSUME NEW k \in Nat, NEW g, Good(k, g) PROVE \E h : Good(k + 1, h)
  <2> DEFINE h == [n \in 0..(k + 1) |-> IF n = k + 1 THEN 2 * g[k] ELSE g[n]]
  <2>1. g[k] \in Nat /\ \A n \in 0..k : g[n] \in Nat
    BY <1>3
  <2>2. h \in [0..(k + 1) -> Nat]
    BY <2>1
  <2>3. h[0] = MinBackoff
    BY <1>3
  <2>4. ASSUME NEW n \in 1..(k + 1) PROVE h[n] = 2 * h[n - 1]
    <3>1. CASE n = k + 1
      BY <3>1
    <3>2. CASE n # k + 1
      <4>1. n \in 1..k /\ n \in 0..(k + 1) /\ n - 1 \in 0..(k + 1) /\ n - 1 # k + 1
        BY <3>2
      <4>2. h[n] = g[n] /\ h[n - 1] = g[n - 1]
        BY <3>2, <4>1
      <4> QED
        BY <1>3, <4>1, <4>2
    <3> QED
      BY <3>1, <3>2
  <2> QED
    BY <2>2, <2>3, <2>4
<1> HIDE DEF Good
<1>4. Bad = {}
  <2> SUFFICES ASSUME Bad # {} PROVE FALSE
    OBVIOUS
  <2>1. Bad \subseteq Nat
    BY <1>1
  <2>2. PICK m \in Bad : \A j \in Bad : m <= j
    <3> HIDE DEF Bad
    <3> QED  BY <2>1, LeastExists
  <2>3. m # 0 /\ m - 1 \in 0..MaxFails /\ m - 1 \in Nat /\ m - 1 + 1 = m
    BY <1>1, <1>2
  <2>4. m - 1 \notin Bad
    BY <2>2, <2>3
  <2>5. PICK g : Good(m - 1, g)
    BY <2>3, <2>4
  <2>6. \E h : Good(m - 1 + 1, h)
    BY <1>3, <2>3, <2>5
  <2>7. \E h : Good(m, h)
    BY <2>3, <2>6
  <2> QED
    BY <2>2, <2>7
<1>5. PICK g : Good(MaxFails, g)
  BY <1>1, <1>4
<1>6. g = [n \in 0..MaxFails |-> IF n = 0 THEN MinBackoff ELSE 2 * g[n - 1]]
  BY <1>1, <1>5 DEF Good
<1>7. Doubled = [n \in 0..MaxFails |-> IF n = 0 THEN MinBackoff ELSE 2 * Doubled[n - 1]]
  BY <1>6, Zenon DEF Doubled
<1>8. \A n \in 0..MaxFails : Doubled[n] = IF n = 0 THEN MinBackoff ELSE 2 * Doubled[n - 1]
  BY <1>7
<1>9. \A n \in 0..MaxFails : Doubled[n] \in Nat
  <2> DEFINE Odd == {n \in 0..MaxFails : Doubled[n] \notin Nat}
  <2> SUFFICES ASSUME Odd # {} PROVE FALSE
    OBVIOUS
  <2>1. Odd \subseteq Nat
    BY <1>1
  <2>2. PICK m \in Odd : \A j \in Odd : m <= j
    <3> HIDE DEF Odd
    <3> QED  BY <2>1, LeastExists
  <2>3. m # 0 /\ m - 1 \in 0..MaxFails /\ m - 1 \notin Odd
    BY <1>1, <1>8, <2>2
  <2> QED
    BY <1>8, <2>3
<1>10. Doubled \in [0..MaxFails -> Nat]
  BY <1>7, <1>9
<1> QED
  BY <1>1, <1>8, <1>10

(* The backoff is the delay after the next failure, up to the cap. *)
BackoffInv == BackoffSchedule /\ backoff = Min2(Doubled[fails], MaxBackoff)

(* Each failure sleeps the current backoff and doubles it (Run); where the *)
(* count saturates the cap has been reached.                               *)
LEMMA NextBackoff == TypeOK /\ BackoffInv /\ [Next]_vars => BackoffInv'
<1> SUFFICES ASSUME TypeOK, BackoffInv, [Next]_vars PROVE BackoffInv'
  OBVIOUS
<1> USE DEF BackoffInv, BackoffSchedule, remote, workdir, poller, shared, agent, process
<1>0. /\ MinBackoff \in Nat /\ MaxBackoff \in Nat /\ MinBackoff <= MaxBackoff
      /\ MaxFails \in Nat \ {0} /\ fails \in 0..MaxFails
  BY DelayAssumption, BoundAssumption DEF TypeOK
<1>1. Min2(Doubled[0], MaxBackoff) = MinBackoff
  BY <1>0, DoubledFact DEF Min2
<1>2. ASSUME NEW c \in Commits, Push(c) PROVE BackoffInv'
  BY <1>2 DEF Push
<1>3. ASSUME NEW kept \in BOOLEAN, NEW left \in WorkingCopies, Restart(kept, left)
      PROVE  BackoffInv'
  BY <1>1, <1>3 DEF Restart
<1>4. CASE PullFails
  <2>1. /\ delay' = backoff /\ backoff' = Min2(backoff * 2, MaxBackoff)
        /\ fails' = Min2(fails + 1, MaxFails)
    BY <1>4 DEF PullFails
  <2>2. CASE fails < MaxFails
    <3>1. fails' = fails + 1 /\ fails + 1 \in 1..MaxFails /\ fails + 1 - 1 = fails
      BY <1>0, <2>1, <2>2 DEF Min2
    <3>2. Doubled[fails + 1] = 2 * Doubled[fails] /\ Doubled[fails] \in Nat
      BY <1>0, <3>1, DoubledFact
    <3>3. backoff' = Min2(Doubled[fails'], MaxBackoff)
      BY <1>0, <2>1, <3>1, <3>2 DEF Min2
    <3> QED
      BY <1>0, <2>1, <3>1, <3>3
  <2>3. CASE fails = MaxFails
    <3>1. fails' = MaxFails /\ MaxFails - 1 \in 0..MaxFails
      BY <1>0, <2>1, <2>3 DEF Min2
    <3>2. /\ Doubled[MaxFails - 1] \in Nat /\ Doubled[MaxFails - 1] >= MaxBackoff
          /\ Doubled[MaxFails] = 2 * Doubled[MaxFails - 1]
      BY <1>0, <3>1, DoubledFact, BoundAssumption
    <3>3. /\ Min2(Doubled[MaxFails - 1], MaxBackoff) = MaxBackoff
          /\ Min2(Doubled[MaxFails], MaxBackoff) = MaxBackoff
          /\ Min2(MaxBackoff * 2, MaxBackoff) = MaxBackoff
      BY <1>0, <3>2 DEF Min2
    <3> QED
      BY <1>0, <2>1, <2>3, <3>1, <3>3
  <2> QED
    BY <1>0, <2>2, <2>3
<1>5. CASE Notify
  BY <1>1, <1>5 DEF Notify
<1>6. CASE OpenRepo \/ CloneRepo \/ Fetch \/ ReadSpec \/ Swap \/ SleepOver \/ RunReturns
  BY <1>6 DEF OpenRepo, CloneRepo, Fetch, ReadSpec, Swap, SleepOver, RunReturns
<1>7. CASE Signal \/ Consume
  BY <1>7 DEF Signal, Consume, CheckFirstSpec, AwaitSignal, FirstSpecTimeout, Setup, Beat,
     Reconcile, ReconcileFails, LoopUpdate, LoopTick, LoopDone
<1>8. CASE UNCHANGED vars
  BY <1>8 DEF vars
<1> QED
  BY <1>2, <1>3, <1>4, <1>5, <1>6, <1>7, <1>8 DEF Next, Poll

(* After the n-th failure in a row Run sleeps MinBackoff doubled n - 1     *)
(* times, capped, and after a success Interval.                            *)
THEOREM BackoffAsScheduled == Spec => []BackoffSchedule
<1>1. Init => BackoffInv
  <2>1. Min2(Doubled[0], MaxBackoff) = MinBackoff
    BY DelayAssumption, DoubledFact DEF Min2
  <2> QED
    BY <2>1 DEF Init, BackoffInv, BackoffSchedule
<1>2. BackoffInv => BackoffSchedule
  BY DEF BackoffInv
<1> QED
  BY <1>1, <1>2, NextBackoff, TypeCorrect, PTL DEF Spec
=============================================================================
