----------------------------- MODULE SpecSource -----------------------------
(***************************************************************************)
(* One seine process as a reader of the network specification: the Git     *)
(* working copy (internal/gitsource), the polling goroutine that caches    *)
(* the last valid document (internal/specsource, Watcher.Run) and the      *)
(* goroutine that consumes it (internal/agentcore: waitForFirstSpec and    *)
(* reconcileLoop).  The two goroutines share the cached snapshot, the last *)
(* error and a one-slot channel; everything else is local to one of them.  *)
(*                                                                         *)
(* A commit is a model value.  ValidCommits are the commits at which the   *)
(* configured file exists and spec.Parse accepts it.                       *)
(***************************************************************************)
EXTENDS Naturals

CONSTANTS Commits,       \* commits the tracked branch may point to
          ValidCommits,  \* those whose network.yaml parses and validates
          NoCommit,      \* the empty SHA: nothing cached, no ref
          Interval,      \* Config.Interval
          MinBackoff,    \* Config.MinBackoff
          MaxBackoff,    \* Config.MaxBackoff
          MaxPushes,     \* bound: pushes to the tracked branch
          MaxRestarts,   \* bound: process restarts
          MaxFails       \* bound: where the count of failures saturates

ASSUME CommitsAssumption == /\ ValidCommits \subseteq Commits
                            /\ NoCommit \notin Commits
ASSUME DelayAssumption == /\ Interval \in Nat \ {0}
                          /\ MinBackoff \in Nat \ {0}
                          /\ MaxBackoff \in Nat
                          /\ MinBackoff <= MaxBackoff

(* The n-th delay of Run's retries if it were not capped. *)
Doubled[n \in 0..MaxFails] == IF n = 0 THEN MinBackoff ELSE 2 * Doubled[n - 1]

ASSUME BoundAssumption == /\ MaxPushes \in Nat
                          /\ MaxRestarts \in Nat
                          /\ MaxFails \in Nat \ {0} /\ Doubled[MaxFails - 1] >= MaxBackoff

VARIABLES
  tip,        \* the remote branch head
  pushes,     \* pushes so far
  git,        \* the .git directory in the workdir: "none", "usable" or "broken"
  ref,        \* refs/remotes/origin/<branch> in the workdir
  pc,         \* where the polling goroutine is
  snap,       \* snap.CommitSHA of the pull in progress
  prev,       \* local prev of pullOnce
  backoff,    \* local backoff of Run
  delay,      \* local delay of Run
  state,      \* Watcher.state.commit, NoCommit for a nil state
  last,       \* Watcher.last is a non-nil error
  updates,    \* the one-slot channel holds a value
  reader,     \* where the agent goroutine is
  applied,    \* the commit the last successful reconcile applied
  settled,    \* the last reconcile reached its end without an error
  cancelled,  \* the context was cancelled (SIGINT, SIGTERM)
  restarts,   \* restarts so far
  published,  \* history: every commit the branch pointed to
  fails       \* history: consecutive failed pulls, saturating

remote == <<tip, pushes, published>>
workdir == <<git, ref>>
poller == <<pc, snap, prev, backoff, delay, fails>>
shared == <<state, last, updates>>
agent == <<reader, applied, settled>>
process == <<cancelled, restarts>>
vars == <<remote, workdir, poller, shared, agent, process>>

WorkingCopies == {"none", "usable", "broken"}
PollerSteps == {"open", "fetch", "read", "swap", "notify", "sleep", "returned"}
ReaderSteps == {"first", "await", "setup", "beat", "reconcile", "select", "exit"}

Min2(a, b) == IF a <= b THEN a ELSE b

(* Mutant of Init: New without the "not yet loaded" error. *)
InitNoError ==
  /\ tip \in Commits /\ pushes = 0 /\ published = {tip}
  /\ git = "none" /\ ref = NoCommit
  /\ pc = "open" /\ snap = NoCommit /\ prev = NoCommit
  /\ backoff = MinBackoff /\ delay = 0 /\ fails = 0
  /\ state = NoCommit /\ last = FALSE /\ updates = FALSE
  /\ reader = "first" /\ applied = NoCommit /\ settled = FALSE
  /\ cancelled = FALSE /\ restarts = 0

(* New, and the first lines of Run and of the agent. *)
Init ==
  /\ tip \in Commits /\ pushes = 0 /\ published = {tip}
  /\ git = "none" /\ ref = NoCommit
  /\ pc = "open" /\ snap = NoCommit /\ prev = NoCommit
  /\ backoff = MinBackoff /\ delay = 0 /\ fails = 0
  /\ state = NoCommit /\ last = TRUE /\ updates = FALSE
  /\ reader = "first" /\ applied = NoCommit /\ settled = FALSE
  /\ cancelled = FALSE /\ restarts = 0

-----------------------------------------------------------------------------
(* The environment: the remote repository, signals and crashes.            *)

(* Somebody pushes, possibly with force: any commit may become the tip. *)
Push(c) ==
  /\ pushes < MaxPushes
  /\ c # tip
  /\ tip' = c
  /\ pushes' = pushes + 1
  /\ published' = published \cup {c}
  /\ UNCHANGED <<workdir, poller, shared, agent, process>>

(* main's signal.NotifyContext. *)
Signal ==
  /\ ~cancelled
  /\ cancelled' = TRUE
  /\ UNCHANGED <<remote, workdir, poller, shared, agent, restarts>>

(* The process ends, by exit or by a crash, and is started again.  A       *)
(* configured workdir survives (kept), an owned temporary one is gone.  A  *)
(* process that dies inside the initial clone may leave a .git: one that   *)
(* can be opened and has its remote but no ref yet, or one that PlainOpen  *)
(* or fetch rejects, which openOrClone never replaces.                     *)
Restart(kept, left) ==
  /\ restarts < MaxRestarts
  /\ restarts' = restarts + 1
  /\ git' = IF ~kept THEN "none" ELSE IF git = "none" /\ pc = "open" THEN left ELSE git
  /\ ref' = IF kept THEN ref ELSE NoCommit
  /\ pc' = "open" /\ snap' = NoCommit /\ prev' = NoCommit
  /\ backoff' = MinBackoff /\ delay' = 0 /\ fails' = 0
  /\ state' = NoCommit /\ last' = TRUE /\ updates' = FALSE
  /\ reader' = "first" /\ applied' = NoCommit /\ settled' = FALSE
  /\ cancelled' = FALSE
  /\ UNCHANGED remote

-----------------------------------------------------------------------------
(* Watcher.Run and pullOnce.                                               *)

(* Mutant of PullFails: the backoff doubles without the cap. *)
PullFailsUncapped ==
  /\ pc \in {"open", "fetch", "read"}
  /\ last' = TRUE
  /\ delay' = backoff
  /\ backoff' = backoff * 2
  /\ fails' = Min2(fails + 1, MaxFails)
  /\ pc' = "sleep"
  /\ UNCHANGED <<remote, workdir, snap, prev, state, updates, agent, process>>

(* An error from Pull or Parse: recordError, then Run schedules a retry. *)
PullFails ==
  /\ pc \in {"open", "fetch", "read"}
  /\ last' = TRUE
  /\ delay' = backoff
  /\ backoff' = Min2(backoff * 2, MaxBackoff)
  /\ fails' = Min2(fails + 1, MaxFails)
  /\ pc' = "sleep"
  /\ UNCHANGED <<remote, workdir, snap, prev, state, updates, agent, process>>

(* openOrClone: reuse the repository found in the workdir ... *)
OpenRepo ==
  /\ pc = "open"
  /\ git = "usable"
  /\ pc' = "fetch"
  /\ UNCHANGED <<remote, workdir, snap, prev, backoff, delay, fails, shared, agent, process>>

(* ... or clone the tip of the branch. *)
CloneRepo ==
  /\ pc = "open"
  /\ git = "none"
  /\ ~cancelled
  /\ git' = "usable"
  /\ ref' = tip
  /\ pc' = "fetch"
  /\ UNCHANGED <<remote, snap, prev, backoff, delay, fails, shared, agent, process>>

(* Mutant of Fetch: without force, an existing ref is never moved. *)
FetchKeepsRef ==
  /\ pc = "fetch"
  /\ ~cancelled
  /\ ref' = IF ref = NoCommit THEN tip ELSE ref
  /\ pc' = "read"
  /\ UNCHANGED <<remote, git, snap, prev, backoff, delay, fails, shared, agent, process>>

(* fetch: the forced refspec moves the ref to wherever the tip now is; an  *)
(* up-to-date ref is no error.                                             *)
Fetch ==
  /\ pc = "fetch"
  /\ ~cancelled
  /\ ref' = tip
  /\ pc' = "read"
  /\ UNCHANGED <<remote, git, snap, prev, backoff, delay, fails, shared, agent, process>>

(* Resolve the ref, read the file at it and parse it. *)
ReadSpec ==
  /\ pc = "read"
  /\ ref \in ValidCommits
  /\ snap' = ref
  /\ pc' = "swap"
  /\ UNCHANGED <<remote, workdir, prev, backoff, delay, fails, shared, agent, process>>

(* Mutant of Swap: prev is read after the new state was stored. *)
SwapPrevLate ==
  /\ pc = "swap"
  /\ prev' = snap
  /\ state' = snap
  /\ last' = FALSE
  /\ pc' = "notify"
  /\ UNCHANGED <<remote, workdir, snap, backoff, delay, fails, updates, agent, process>>

(* The critical section of pullOnce. *)
Swap ==
  /\ pc = "swap"
  /\ prev' = state
  /\ state' = snap
  /\ last' = FALSE
  /\ pc' = "notify"
  /\ UNCHANGED <<remote, workdir, snap, backoff, delay, fails, updates, agent, process>>

(* Mutant of Notify: the backoff is not reset after a success. *)
NotifyKeepsBackoff ==
  /\ pc = "notify"
  /\ updates' = (updates \/ prev # snap)
  /\ delay' = Interval
  /\ fails' = 0
  /\ pc' = "sleep"
  /\ UNCHANGED <<remote, workdir, snap, prev, backoff, state, last, agent, process>>

(* After the unlock: the non-blocking send, then Run resets the backoff. *)
Notify ==
  /\ pc = "notify"
  /\ updates' = (updates \/ prev # snap)
  /\ backoff' = MinBackoff
  /\ delay' = Interval
  /\ fails' = 0
  /\ pc' = "sleep"
  /\ UNCHANGED <<remote, workdir, snap, prev, state, last, agent, process>>

(* The select at the end of Run's loop. *)
SleepOver ==
  /\ pc = "sleep"
  /\ pc' = "open"
  /\ UNCHANGED <<remote, workdir, snap, prev, backoff, delay, fails, shared, agent, process>>

(* Mutant of RunReturns: the sleep does not watch ctx.Done. *)
RunNeverReturns ==
  /\ pc = "sleep"
  /\ cancelled
  /\ pc' = "open"
  /\ UNCHANGED <<remote, workdir, snap, prev, backoff, delay, fails, shared, agent, process>>

RunReturns ==
  /\ pc = "sleep"
  /\ cancelled
  /\ pc' = "returned"
  /\ UNCHANGED <<remote, workdir, snap, prev, backoff, delay, fails, shared, agent, process>>

Poll == PullFails \/ OpenRepo \/ CloneRepo \/ Fetch \/ ReadSpec \/ Swap
          \/ Notify \/ SleepOver \/ RunReturns

-----------------------------------------------------------------------------
(* The agent goroutine, as a consumer of Current and Updates.              *)

(* Current returns no error exactly when a snapshot is cached. *)
CurrentOK == state # NoCommit

(* waitForFirstSpec: the check before the loop and the one after a signal. *)
CheckFirstSpec ==
  /\ reader = "first"
  /\ reader' = IF CurrentOK THEN "setup" ELSE "await"
  /\ UNCHANGED <<remote, workdir, poller, shared, applied, settled, process>>

AwaitSignal ==
  /\ reader = "await"
  /\ updates
  /\ updates' = FALSE
  /\ reader' = "first"
  /\ UNCHANGED <<remote, workdir, poller, state, last, applied, settled, process>>

(* The first-load deadline, a child of ctx, is done. *)
FirstSpecTimeout ==
  /\ reader = "await"
  /\ reader' = "exit"
  /\ UNCHANGED <<remote, workdir, poller, shared, applied, settled, process>>

(* FindSelf, the mode check and bringUp either all succeed or end Run. *)
Setup ==
  /\ reader = "setup"
  /\ reader' \in {"beat", "exit"}
  /\ UNCHANGED <<remote, workdir, poller, shared, applied, settled, process>>

(* reconcileOnce, first half: the heartbeat, which precedes Current. *)
Beat ==
  /\ reader = "beat"
  /\ ~cancelled
  /\ reader' = "reconcile"
  /\ UNCHANGED <<remote, workdir, poller, shared, applied, settled, process>>

(* reconcileOnce, second half: everything that follows works on the one    *)
(* document Current returned.                                              *)
Reconcile ==
  /\ reader = "reconcile"
  /\ CurrentOK
  /\ applied' = state
  /\ settled' = TRUE
  /\ reader' = "select"
  /\ UNCHANGED <<remote, workdir, poller, shared, process>>

(* Any error of reconcileOnce, or a re-registration, ends the cycle early. *)
ReconcileFails ==
  /\ reader \in {"beat", "reconcile"}
  /\ settled' = FALSE
  /\ reader' = "select"
  /\ UNCHANGED <<remote, workdir, poller, shared, applied, process>>

(* The three cases of reconcileLoop's select. *)
LoopUpdate ==
  /\ reader = "select"
  /\ updates
  /\ updates' = FALSE
  /\ reader' = "beat"
  /\ UNCHANGED <<remote, workdir, poller, state, last, applied, settled, process>>

LoopTick ==
  /\ reader = "select"
  /\ reader' = "beat"
  /\ UNCHANGED <<remote, workdir, poller, shared, applied, settled, process>>

LoopDone ==
  /\ reader = "select"
  /\ cancelled
  /\ reader' = "exit"
  /\ UNCHANGED <<remote, workdir, poller, shared, applied, settled, process>>

Consume == CheckFirstSpec \/ AwaitSignal \/ FirstSpecTimeout \/ Setup \/ Beat
             \/ Reconcile \/ ReconcileFails \/ LoopUpdate \/ LoopTick \/ LoopDone

-----------------------------------------------------------------------------

Next ==
  \/ \E c \in Commits : Push(c)
  \/ Signal
  \/ \E kept \in BOOLEAN, left \in WorkingCopies : Restart(kept, left)
  \/ Poll
  \/ Consume

Spec == Init /\ [][Next]_vars

(* What the Go scheduler, the timers and a remote that is reachable again  *)
(* and again give.  A step of a goroutine that nothing can block is weakly *)
(* fair.  Steps that need the network or the server are strongly fair:     *)
(* they may fail any number of times, not forever.  A select takes a ready *)
(* ctx.Done case eventually because it chooses at random among the ready   *)
(* ones.                                                                   *)
Fairness ==
  /\ SF_vars(OpenRepo) /\ SF_vars(CloneRepo) /\ SF_vars(Fetch) /\ SF_vars(ReadSpec)
  /\ WF_vars(PullFails) /\ WF_vars(Swap) /\ WF_vars(Notify)
  /\ WF_vars(SleepOver) /\ SF_vars(RunReturns)
  /\ WF_vars(CheckFirstSpec) /\ WF_vars(AwaitSignal)
  /\ WF_vars(cancelled /\ FirstSpecTimeout)
  /\ WF_vars(Setup) /\ SF_vars(Beat) /\ SF_vars(Reconcile) /\ WF_vars(ReconcileFails)
  /\ WF_vars(LoopTick) /\ SF_vars(LoopDone)

FairSpec == Spec /\ Fairness

-----------------------------------------------------------------------------
(* Every variable stays in its range: the cached commit, the goroutines'   *)
(* positions and the retry delays of watcher.go and agent.go.              *)
TypeOK ==
  /\ tip \in Commits /\ pushes \in 0..MaxPushes /\ published \subseteq Commits
  /\ git \in WorkingCopies /\ ref \in Commits \cup {NoCommit}
  /\ pc \in PollerSteps
  /\ snap \in ValidCommits \cup {NoCommit}
  /\ prev \in ValidCommits \cup {NoCommit}
  /\ backoff \in MinBackoff..MaxBackoff
  /\ delay \in {0, Interval} \cup (MinBackoff..MaxBackoff)
  /\ fails \in 0..MaxFails
  /\ state \in ValidCommits \cup {NoCommit}
  /\ last \in BOOLEAN /\ updates \in BOOLEAN
  /\ reader \in ReaderSteps
  /\ applied \in ValidCommits \cup {NoCommit}
  /\ settled \in BOOLEAN
  /\ cancelled \in BOOLEAN /\ restarts \in 0..MaxRestarts

(* Notify will put a value into the channel. *)
SendPending == pc = "notify" /\ prev # snap

(* The lossy channel loses no change (watcher.go, pullOnce and Updates):   *)
(* when the agent waits in reconcileLoop's select after a cycle that       *)
(* succeeded, and the cache no longer holds the commit that cycle applied, *)
(* a wake-up is in the channel or about to be sent.  The same holds for    *)
(* waitForFirstSpec, which waits for the first snapshot only on the        *)
(* channel.                                                                *)
NoLostUpdate ==
  /\ reader = "select" /\ settled /\ applied # state => updates \/ SendPending
  /\ reader = "await" /\ state # NoCommit => updates \/ SendPending

(* Whatever failed, was pushed by force or was restarted in between: what  *)
(* Current hands out was published on the branch, and when there is        *)
(* nothing to hand out there is an error to return instead, so a caller    *)
(* that checks err never holds a nil document.                             *)
CurrentIsPublishedOrError ==
  IF state = NoCommit THEN last ELSE state \in published

(* Run's retry schedule in closed form: after the n-th failure in a row    *)
(* the poller sleeps MinBackoff doubled n - 1 times, at most MaxBackoff,   *)
(* and after a success exactly Interval.                                   *)
BackoffSchedule ==
  pc = "sleep" =>
    delay = IF fails = 0 THEN Interval
            ELSE Min2(Doubled[fails - 1], MaxBackoff)

(* A branch that comes to rest at a valid commit is followed: the agent    *)
(* ends up having applied that commit for good, however often pulls,       *)
(* parses, heartbeats and reconciles failed before.  The condition on the  *)
(* working copy is needed: a .git that a dead clone left unusable is       *)
(* opened again in every pull and never cloned anew.                       *)
FollowsTip ==
  \A c \in ValidCommits :
    <>[](tip = c /\ git # "broken" /\ ~cancelled /\ reader # "exit")
      => <>[](applied = c)

(* After a signal both goroutines come to an end (unless the process is    *)
(* restarted first).                                                       *)
ShutdownCompletes ==
  cancelled ~> (~cancelled \/ (reader = "exit" /\ pc = "returned"))
=============================================================================
