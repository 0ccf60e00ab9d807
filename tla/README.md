# Fangorn: a TLA+ model

Fangorn creates, runs and removes *Workspaces*: a Git Worktree with the
Services that run in it, recorded in a SQLite Registry. Every command is a
short-lived process. There is no daemon, so everything that makes Fangorn hard
happens between processes: two commands for one Workspace at the same time, a
command that is killed half way through an effect, Git processes that outlive
the command that started them, and a command that is simply given again.

This directory holds TLA+ modules that model those parts of the code, TLC
configurations that check them on small instances, and TLAPS proofs about the
core. Definitions keep the names of the code where they can; `PROJECT.json` maps
each one to the lines it stands for.

    tlc -workers 2 -config Fence.cfg MCInvocationFence
    tlapm InvocationFenceProofs.tla

## 1. Inventory

Paths are below `src/src/fangorn/`.

| component | state | operations | modelled in |
|---|---|---|---|
| Mutation lease (`registry.py`) | `mutation_leases` row per scope (owner, operation, epoch, aggregate version, active), `operation_steps` | `acquire_lease` (two transactions, probe between), `_require_lease`, `start_operation_step`, `finish_operation_step`, `release_lease`, `fail_create_operation`, `finish_lifecycle` | `MutationLease` |
| Invocation marker, owner probe (`workspaces.py`) | one marker file per command, its `flock`, its content | `_invocation_process_identity`, `_owner_status`, `_finish_invocation` | `InvocationFence` |
| Guardian, cleaner (`_git_guardian.py`, `_invocation_cleaner.py`) | inherited descriptor, failure count | watch a process group, `_persist_unknown`; wait for the lock and unlink | `InvocationFence` |
| Git supervision (`git_worktree.py`, `_git_supervisor.py`, `_git_anchor.py`) | process group, anchor, control and completion pipes, deadlines | `_run_supervised_git`: start, time out, escalate, prove quiescence; `_supervise`, `_drain`; the anchor's `main` | `GitSupervision`; what follows from its outcome in `InvocationFence` |
| Lifecycle commands (`workspaces.py`, `_lifecycle.py`, `registry.py`) | aggregate (state, version, current operation, tombstone), journal | start, stop, restart, delete, forget: `_operate` over `begin_lifecycle` and `finish_lifecycle` | `LifecyclePlan`, `WorkspaceLifecycle` |
| Resource adapters (`resource_adapters.py`) | none of their own | probe and mutate a Service | as the commands see them, in `WorkspaceLifecycle` and `WorkspaceCreate` |
| Creation (`workspaces.py`, `registry.py`) | create intents, aggregate, operation, steps | `create`: begin, resolve, enrich, record the definition, run the plan, complete or fail | `LifecyclePlan`, `WorkspaceCreate` |
| Worktree staging (`git_worktree.py`) | target, staging directory, receipt, branch | `create_worktree` | `WorkspaceCreate` |
| Repository cache (`git_worktree.py`, `workspaces.py`) | bare repository per source, private clones, receipts, cache entries | `_prepare_repository`, `_materialize_remote_cache`, `_cleanup_abandoned_clones` | `RepositoryCache` |
| Generation markers (`git.py`) | marker files and their lock | `observe_worktree`, `_generation`, `_create_generation_marker` | `Adoption` |
| Adoption (`workspaces.py`, `registry.py`) | `repositories`, `workspaces` rows, the write lock | `adopt`, `marker_creation_requirements`, `_adopt_once`, `_reject_incomplete_create_target` | `Adoption` |
| Configuration and consent (`configuration.py`) | snapshot, digest, consent file | fix, consent, require, revoke | no (see section 6) |
| Registry file, migrations, permissions | schema version | open, check, migrate | no (sequential, before any operation) |
| Command line, scripts | none | parse, print | no |

### How they interact

A command opens an invocation marker, inspects the Registry, takes the lease of
its scope, journals a plan, and runs the plan step by step: a transaction that
starts the step, an effect (Git in a supervised process group, or an adapter),
a transaction that records it. It ends with one transaction that writes the
final state and frees the lease, or it dies and the next command has to take
the lease over. For that, `acquire_lease` calls back into `_owner_status`,
outside of any transaction, and `_owner_status` looks at the process table, the
marker's lock and the marker's content. The marker's descriptor is inherited by
the Git process groups and by a detached guardian for each, so that the lock
outlives the command for as long as its effects do.

### What is hard

* *Leases across processes.* Two transactions with a probe between; a fence
  that compares operation and epoch but not the owner; operations that several
  invocations resume under one id.
* *Effects that outlive their command.* A dead process says nothing about its
  Git group; the group may close the descriptor it inherited; the process table
  may be unreadable; hosts reboot.
* *Crashes between effect and record*, at every step, and retries that must
  neither repeat what must not be repeated nor refuse what they left themselves.
* *Snapshots read before the lease* and used under it.
* *Proof by scanning*: whether a group of processes ended is read from a process
  table that changes while it is read, under deadlines, signals and interrupts.
* *Identity by marker*: a directory is known by a file in it that several
  processes may want to create, that may get lost, and that a replaced directory lacks.
* *Partial failure*: independent cleanup goes on after a safe failure, and
  everything that depends on the failed part must be held back.
* *The outside world*: Services drift, the base moves, branches and targets
  appear, Worktrees and caches are removed, origins move or go offline.

### What makes each component correct

* Lease: one writer at a time, terms that only grow, steps that keep their owner.
* Markers and helpers: no lease changes hands while effects of its owner run,
  and every lease can be taken over in the end or waits for the operator.
* Lifecycle: state and journal tell the same story at every crash point; nothing
  starts before everything stopped; success is declared only on what was seen;
  the Worktree goes last; tombstones and receipts are final.
* Supervision: a caller that gives its lease back has proof that the group ended,
  no anchored group outlives its command and its supervisor, and every call ends.
* Markers of identity and adoption: one marker per directory, one Workspace per Worktree,
  reported as created by its maker alone, facts that never go back, creates left alone.
* Creation: resolved once, completed once, completed only with its Worktree in
  place, never resurrected, and never in its own way.
* Cache: a create never resolves its base in a cache older than its request, a
  source keeps its identity, and nobody removes a clone that Git still writes.

## 2. Modules

    SingleWriter                       the promise of a lease (abstract)
      ^ implemented by
    MutationLease                      under a probe that may answer anything
      ^ implemented by                 MutationLeaseProofs
    InvocationFence                    under the program's own probe
                                       InvocationFenceProofs
      ^ taken as given by
    WorkspaceLifecycle  WorkspaceCreate  RepositoryCache
      \_____ LifecyclePlan _____/

    WorkspaceLifecycleProofs  WorkspaceCreateProofs  RepositoryCacheProofs

    GitSupervision                     how InvocationFence's groups are proven to have ended
                                       GitSupervisionProofs
    Adoption                           markers, adoption, and a create beside them
                                       AdoptionProofs  AdoptionRegistryProofs

`MC*` modules give the constants of small instances.

**SingleWriter** is what the rest of Fangorn relies on: at most one writer per
scope, each with a term of its own; only the writer changes the journal, except
that a new writer writes off the step that its predecessor left running.

**MutationLease** has one action per transaction of the Registry (SQLite runs
each under `BEGIN IMMEDIATE`): `Inspect` and `Granted`/`Refused` are the two
halves of `acquire_lease`, with `Probe` between them; `StartStep`, `FinishStep`,
`Complete`, `FailLifecycle`, `FailCreate` and `Release` all require `Fenced`,
which is `_require_lease`. The probe answers anything, so a live owner may be
superseded; what it does next is `Rejected`. `lease` is the row, `journal` the
in-flight step of each operation, `epoch[i]` what the acquisition of `i`
returned. `ImplementsSingleWriter` is the refinement: the writer is the owner
of the active row, its term the epoch.

**InvocationFence** extends it with markers (`marker` is the content, `holds[i]`
who keeps the descriptor that locks it), process groups, guardians, cleaners,
exits, kills and reboots. `Judge` is `_owner_status`. Everybody who reads,
writes or unlinks a marker holds its lock, so each such section is one action. What
the operating system may do is a parameter: the groups of the invocations in
`Dropping` may close the inherited descriptor, `GuardianMayGiveUp` lets the
process table stay unreadable until the guardian persists
`quiescence-unknown`. Its lease half is written with the actions of `MutationLease`, so that
what is proved of the lease under any probe carries over (lemma `LeaseStep`).

**LifecyclePlan** is `_lifecycle.py`: the states a command accepts, the steps it
journals, the state it ends in, for lifecycle commands and for create.

**WorkspaceLifecycle** is `Workspaces._operate` for one created Workspace.
`run[i]` is the local state of one invocation: its stage, the snapshot (`base`) it
planned from (with what `_service_cleanup_receipt` and the deletion's start in the journal said
then), the operation it resumes, the step it is at, the Services that failed
safely. `Plan` reads before the lease, `Recheck` compares under it, `Begin` is
`begin_lifecycle`, `Survey` decides on replay, `StartStep`, `ServiceStep` or
`WorktreeStep`, `Record`/`RecordFailure` are one step, `Fails` is an error between steps, or
of `finish_operation_step` itself after an effect; `Commit` and `FinishFailed`
are the two forms of `finish_lifecycle`. `LetGo` releases the lease and leaves
the journal (interrupts, errors before `begin_lifecycle`), `Vanish` keeps it (killed, or
effects not proven to have stopped). `Drift` and `WorktreeVanishes` are others. `seen` (who last
looked at a Service, and what it saw) and `undermined` (others removed the Worktree after a barrier
had been passed) are not state of the code: no guard reads them, only properties do.

**WorkspaceCreate** is `Workspaces.create` over the create intents, with
`create_worktree` inside it: `ClaimStaging` (receipt first), `AddWorktree`,
`Mark`, `Checkout`, `Publish` (the move to the target), `Tidy`. Each can be
the last thing an attempt does. `Meddle` bounds what others do: move the base, make the branch,
occupy or empty the target, disturb a Service, run a lifecycle command.

**RepositoryCache** is `_prepare_repository` with `_materialize_remote_cache`:
under the lease of the source, find the cache and fetch into it, or clone
privately and publish; leave a receipt; register. After the release, resolve in a
cache that others may refresh. Origins move and go offline, caches are removed,
and `lingering` is a process that is gone while its Git group is not.

**GitSupervision** is one call of `_run_supervised_git`: `parent` is its stage (those
of the exception handler begin with `h`), `outcome` how it will end, `supervisor` and
`anchor` the helpers, `told` the completion pipe, `proc` the members of the group. A
scan is two actions: `Lists` notes who is there, `Clean` finds all of those gone, and
who was forked in between by one that ended is missed (`proof` says so). Every timed wait is
an action that may be taken at any moment, the supervisor may die or hang, Git forks at will, the
parent may be killed anywhere, and a SIGINT may arrive in the stages of `InterruptedIn`.
`Orphaned` is what the anchor sees when the last copies of its pipe are closed.

**Adoption** has the directories at each place one after the other (`current`, `marker`,
`lock`), so that a descriptor that was opened earlier keeps naming the old one.
`OpenDirectory`, `Lock`, `Reread`, `Verify`, `Publish` are `_create_generation_marker`, which
adopters and the create share. `Observe`, `RequireRepository`, `RequireWorkspace` (one
statement of `marker_creation_requirements` each), `ObserveEstablished`, `BeginAdoption` (`BEGIN
IMMEDIATE` and the observation under it), `CommitAdoption` and `Report` are `adopt`; a kill between
the last two leaves a row and no report. The create goes
through `BeginIntent`, `Resolve`, `Stage`, `MoveToTarget`, `Complete` and may be killed and called
again. Outsiders commit, remove markers, replace directories and forget Workspaces.
An observation is one look: it compares two captures, each of which compares the directories
and markers before and after what it reads, and identities do not come back.

The three upper modules take the lease as given: an acquisition is one action, and a
fenced transaction is one that the holder performs. That is what the lower
modules establish, and the one exception to it (finding 1 below) is left to them.

## 3. Runs

`Deadlock` is never checked: every command ends, and when all have, nothing is
left to do. The numbers are distinct states.

| run | instance and bounds | what it shows |
|---|---|---|
| `mutation_lease` | 2 invocations resume one create, 1 forgets; the probe answers anything | the fence names the owner and keeps a step with it; the lease implements `SingleWriter` |
| `fence` (0.27 M) | 2 invocations, the group of one may close the descriptor, guardians may give up | no owner whose evidence cannot get lost (`Sure`) is found dead while its group runs, and its effects stay under its lease; no live holder loses its lease; a killed owner is never found dead while its group runs; a fenced marker stays; leases become recoverable, markers are cleaned |
| `fence_finish` | as `fence`, both groups may close it | finding 1 |
| `lifecycle` (2.8 M) | 2 overlapping start, restart, delete or forget commands, 2 Services, absent or ready, 1 drift, the Worktree may vanish | state matches journal at every point; success is what was seen, and deleted is proven, unless others undermined a receipt (see *bounds*); the Worktree goes last and only from where nothing runs; a restart starts nothing unless it has itself seen every Service down, or ready after starting it; tombstones stay |
| `lifecycle_journal` | 3 invocations, 1 Service | finding 2 |
| `create_meddling` (2.3 M) | 2 invocations of one create, 1 Service, 2 faults, 1 change by others of any of six kinds | records agree at every crash point; journal complete; staging has its receipt; completed is there; resolved once; final; no resurrection |
| `create_recovers` (0.4 M) | 2 invocations, 2 requests for one target path, 2 faults | no attempt is refused for what another left; a repeated create completes |
| `create_branch` | 1 invocation, 1 branch made by others | finding 3 |
| `cache_shared` (3.2 M) | 2 invocations, 2 creates of one source and 1 of another, 2 versions, 2 faults | fresh resolution, a source keeps its identity, clones are kept under their Git group, no origin is needed once a receipt is on disk |
| `supervision` (0.4 M) | Git and 2 descendants, 1 SIGINT outside the handler and the last look, kills of everybody | whoever gives the lease back has proof and leaves nothing running, an anchored group ends, the call ends |
| `supervision_interrupt` | as `supervision` with 1 descendant, the SIGINT also during the last look | finding 4 |
| `adoption` (1.4 M) | 2 adopters, a create, 2 Worktrees of one Repository, 1 kill, 1 act of outsiders | one marker per directory; all adoptions of a Worktree return its one Workspace, and its maker alone reports the creation, unless killed between commit and report; facts never go back; creates are not disturbed |

### Why these bounds are enough to be of interest

* *Two invocations* are what every hazard in `PROJECT.json` but two needs: a holder
  and somebody who takes over, or two that planned from the same snapshot.
  Invocations that failed may start again in `WorkspaceCreate` and
  `RepositoryCache` (the caller retries), so attempts are not bounded by their
  number there. The hazard that needs a third command (a retry that overtakes
  a retry) has a run with three.
* *Two Services* in `lifecycle` distinguish order, the barrier and partial failure; a
  third repeats what the second does.
* What two invocations do not reach in `lifecycle` is the case that `DeletedIsProven` and the
  resumed-delete clause of `CommitIsSeen` exempt (`undermined`): it takes a third one to
  resume a delete whose receipt the second contradicted (section 4, *receipts*). The properties say so
  themselves, and the theorems `Proven` and `CommitSeen` hold for any number of invocations.
* *Two descendants* of Git: one that a scan lists and one that is forked meanwhile.
* *One act of outsiders, one kill* in `adoption`: each of the two can fall between any two
  steps of the three processes. With two adopters and a create, every pair
  races for every marker and every row.
* *One drift*, *one change by others*, *two faults*: enough for a failure
  of a retry after a failure, with one disturbance at any point of either.
* *Two versions*: whatever is older than the request is version 1.
* Epochs, versions and generations are bounded by the number of acquisitions.
* Invocations are symmetric where all have the same possibilities, except in
  runs that check liveness.

### Fairness

`InvocationFence!FairSpec`: a guardian that is not blocked leaves or gives up,
and a cleaner that can have the lock runs. Both are loops in detached processes
that do nothing else: `_git_guardian.main` polls, and every poll either proves
the group gone or counts towards `PROBE_FAILURE_LIMIT`; `_invocation_cleaner.main`
is a blocking `flock`. Nothing is assumed about commands, users or groups: the
properties speak of owners and groups that are gone. Cleaners do not survive a
reboot, so `MarkersCleaned` exempts markers of an earlier boot.

`WorkspaceCreate!FairSpec`: attempts that are not killed go on, and callers
repeat a create that has not succeeded. The second half is an assumption about
callers, and the property reads accordingly: a create *that is repeated* gets
completed. Faults are bounded by `MaxFaults`, so it says: some time after the
last fault.

`GitSupervision!FairSpec`: the parent takes its steps, since all its waits end by their
time limits, and the anchor's timer runs. Nothing is assumed of the supervisor, Git or
its descendants, all of which may hang. `NobodyRunsOn` and the last part of
`StoppedWhenReleased` exempt a group whose anchor outsiders killed alone, or whose Git was
started after the anchor had ended: there only the scans remain, and they may miss somebody.

### Findings

1. `fence_finish`: `_finish_invocation` unlinks its own marker without reading
   it. If the guardian gave up, what is left of the group closed the descriptor,
   and the command that retained the lease then ends by itself, the
   `quiescence-unknown` fence goes with the marker and a later probe finds the
   owner dead while the group runs. The README of Fangorn promises the contrary. An
   owner that is *killed* leaves its marker: `CrashFence` holds.
2. `lifecycle_journal`: whether a retried delete replays its Service steps is decided
   from steps read before the lease, which are not part of what is compared
   under it. A retry that overtakes its predecessor's removal replays a
   step that needs the Worktree, and the operation can complete with that step failed.
3. `create_branch`: a branch that others made at the resolved commit is refused by
   the first attempt and accepted by the second, as what an interrupted create left.
4. `supervision_interrupt`: when the supervisor reports that it could not prove the group
   stopped, the parent looks once more, outside of what its handler protects: only a
   `GitError` becomes the `GitQuiescenceError` that keeps the lease. A first SIGINT during
   these five seconds ends the call as `KeyboardInterrupt`, on which the callers
   release the lease, with Git possibly running. `InterruptedIn` names the stages: the run
   `supervision` excludes this one, and the exception handler itself (section 6).

## 4. Proofs

TLAPS proves the following for every value of the constants: any finite or infinite
sets of invocations, operations, requests, sources, adopters and Worktrees, any list of
Services, any bounds on faults, drift, kills and the acts of others, and any behaviour of the
host. The assumptions are those that the modules declare (`LeaseAssumption`,
`HostAssumption`, `LifecycleAssumption`, `CreateAssumption` and so on); where a theorem needs
a hypothesis of its own, the table says so.

| theorem | property |
|---|---|
| `LeaseInvariant`, `FenceSafety`, `VersionSafety`, `StepSafety`, `EpochSafety` | `LeaseInv` (with `LeaseTypeOK`), `FenceNamesOwner`, `VersionKept`, `StepKeptByFence`, `EpochsGrow` |
| `SingleWriterRefinement` | `LeaseSpec => ImplementsSingleWriter` |
| `FenceTypeCorrect` | `FenceTypeOK` |
| `HolderSafety`, `CrashSafety`, `FencePersists` | `HoldersKeepLease`, `CrashFence`, `FenceKept` |
| `EffectExclusion`, `NoGroupCalledDead` | `EffectsUnderLease`, `NoFalseDeathWhenSure` |
| `AdoptionTypeCorrect`, `OneMarkerSafety` | `TypeOK` of `Adoption` (which no run checks), `OneMarker` |
| `FactsSafety`, `ConvergenceSafety` | `FactsMoveForward`, `Converged` |
| `CreateSafety` | `CreateUndisturbed` |
| `CacheInvariant`, `Fresh` | `CacheInv`, `ResolvesFresh` |
| `EntriesStay`, `ClonesKeptFromCleaners`, `OriginNotNeeded` | `EntryStays`, `CloneKept`, `NeedsNoOrigin` |
| `TypeCorrect` of `GitSupervisionProofs` | `TypeOK` |
| `Stopped` if `InterruptedIn \subseteq Main` | `StoppedWhenReleased` |
| `CreateInvariant`, `TypeCorrect` of `WorkspaceCreateProofs` | `CreateInv`, `TypeOK` (which no run checks) |
| `RecordsAgree`, `JournalComplete`, `StagingReceipts`, `WorktreeIsThere` | `CreateStateAgrees`, `CreateJournalComplete`, `StagingHasReceipt`, `CompletedIsThere` |
| `Immutable`, `Final`, `NotResurrected` | `ResolvedOnce`, `CreateIsFinal`, `NoResurrection` |
| `NobodyElses`, `NoneInTheWay` if `BranchesApart` | `ClearInv`, `NeverInItsOwnWay` |
| `LifecycleInvariant`, `TypeCorrect` of `WorkspaceLifecycleProofs` | `LifecycleInv`, `TypeOK` |
| `StateAndJournal`, `Tombstones` | `StateMatchesJournal`, `TombstonesStay` |
| `StopsFirst`, `RemovedLast` | `StopsBeforeStarts`, `RemovalAfterBarrier` |
| `Proven`, `CommitSeen` | `DeletedIsProven`, `CommitIsSeen` |

*The lease.* `FenceNamesOwner` is not inductive: the fence compares the operation
and the epoch, and two invocations share an operation. `LeaseInv` adds
`EpochOfOwner` - no invocation has an epoch above the row's, and only the owner
has the row's own - and `ActiveRow`. Every acquisition takes an epoch that nobody
has, and nothing else touches epochs, so the epoch singles out the owner. The
version half is `VersionKept`: only an ending raises the version, and every
ending frees the row. `StepKeptByFence` then follows because a step is settled
only with the row, and a takeover changes its epoch. The refinement maps each
transaction to `Install`, `Record` or `Leave`, and everything else to a stutter.

*The fence.* A step of the composed system is a step of the lease or leaves it alone
(`LeaseStep`), so `LeaseInv` holds of it too. For `HoldersKeepLease`
the invariant `FenceInv` follows a verdict from the probe to the claim: what was
called dead was over (`DeadIsOver`), stays over, and is still the owner of the
row that was inspected (`ProbeAsksOnce`, `OwnerHasBegun`), or the claim is refused.
`GroupIsGuarded` carries `CrashFence`: the marker of a killed owner
is locked or fenced for as long as its group runs. `QuietInv` adds that
the marker of a running group is locked by the group or its guardian, for every
invocation that is `Sure`: its group keeps the descriptor or guardians do not give up. For the
others `fence_finish` has the counterexample.

*Markers.* Of what a writer of a marker knows, only two things last until it writes
(`LockedWrites`): it has the lock of the directory it opened, and it found no marker there
after it got the lock. So nobody else publishes there meanwhile, which is `OneMarker`. That the
directory is still the one at its place was checked earlier and may no longer be true; no
property here needs it.

*Rows.* `FactsInv` says that the transaction of an adoption is alone from its observation to its
commit (`TransactionIsAlone`), so its observation is no older than the row (`FactsMoveForward`).
This is what would be lost with the observation made before the transaction. `ResultsInv`
relates rows to what adoptions return: the Workspace of a row names the one adoption
that committed it (`OnlyByCommit`), which has yet to report, has reported it as created, or was killed
since (`CreatorCommitted`, `Outlived`); whoever reports without having made it does not claim its
creation. `Converged` is read off that.

*The create.* An adoption that saw the Worktree before it was completed saw it at its target or in
staging, after the intent was resolved (`MadeAfterIntent`), and is refused by the intent
(`AdopterWaits`). So whoever gets past `RequireRepository` with this Worktree, and may open
its directory, comes after the completion. `Unborn` and `OpenedExists` say that a directory put in
its place has no marker and that nobody has it open.

*The cache.* Between the start of a preparation and its end the entry of a source stands still,
because only the holder of its lease writes it (`LeaseInv`, `EntryInv`). The difficulty is that a create
resolves its base after that lease is given back, in a cache that others refresh or publish
meanwhile. So `FreshInv` does not speak of one create but of all that were *served* (got past their refresh):
neither the cache of a source nor a clone about to be published there is older than the
request of any of them. `ReceiptInv` is the same for receipts and identities, unless somebody
removed the cache; with `ServedInv` it gives `NeedsNoOrigin`.

*Supervision.* No parent returns while its anchor is armed, and an anchor that fired left nobody
alive (`AnchorInv`). What a scan proved may be outdone by a supervisor that starts Git late; `ProofInv`
names the stages in which that can still happen (`LateStart`), and `SupervisorInv` the ones in which
the supervisor is known to be gone. Outside of them a sound proof means that nothing
runs. The hypothesis `InterruptedIn \subseteq Main` is not a convenience: without it
the statement is false, which is finding 4. Its instance is the run `supervision`; typing
needs no such hypothesis.

*Creation.* An attempt works alone on the records of its request while it has the
lease, so what it read of them is what they say (`OwnerInv`, `ProgressInv`), and the records agree
with each other at every transaction (`RecordsInv`). On disk it is not alone: targets are shared by path,
staging directories and receipts by ownership token. Paths belong to known requests (`PathsInv`), and
a token to the attempt and request that drew it (`Tokens`, `Definite`), so that no
other request writes to them. `StagingInv` then says: what is being built has a receipt and nobody's
Worktree in its way, and what is published under a token has left the staging directory. The last
makes `WorktreeIsThere` hold for retries that adopt a target instead of moving one.

*Creation: nothing in the way.* `create_worktree` refuses what it cannot attribute to an earlier
attempt, so the question is whether it can attribute everything that one may have left.
`NoneInTheWay` says so, for any number of attempts, failures and kills. While nobody else meddled,
what is at a target, in a staging directory, in the receipts and on a branch was made for one
resolved request, with its commit, branch and token (`MadeInv`), and a request with any such trace
has a create step that is no longer pending (`TraceInv`): the step is journaled as running before
anything is done, and settling it after a kill makes it unknown, never pending. Hence `Reconcile`
holds whenever there is something to reconcile. `AheadInv` and `ServiceInv` do the same for the
later looks: after the first step the Worktree is there, and a Service whose start is behind runs,
because no create comes after a start (`ShapeInv`, proved of the plan for every list of Services).
The hypothesis `BranchesApart`, that requests for different targets ask for different branches, is
needed: otherwise the second request is refused for the branch of the first, which is what the code
is meant to do.

*Lifecycle: plans.* The journal of a command is `LifecyclePlan` applied to the list of Services, whatever
its length. `StopPlan`, `StartPlan` and `DeletePlan` say of every list what is at each
position; `PlanOrder` and `PlanCovers` are what the invariants use: every stop is before
every start, every Service has its step, the barrier is after every Service and before the removal.
These are statements about concatenations and reversals by position, so they need no induction.

*Lifecycle: the commands.* `LifecycleInv` has, from the records inwards: `Typing`; `OwnInv`,
whoever is in its critical section is the owner; `JournalInv`, every journal is its plan with
statuses; `CurrentInv`, what the owner planned from is still so; `BlameInv`, what a
failure will be recorded as; `StateMatchesJournal`; `AtInv`, steps behind are done or
excused; `ResumeInv`, a resumed delete found its receipts; `SeenInv`, for each Service step behind, the last look
at the Service was this command's and had the result its step demands - or, for a stop, `ready` if
the plan has started the Service since (`Restarted`); `StartedInv`, a start that is behind is recorded as
completed; `RemovedInv`. `StopsFirst` and `RemovedLast` are then read off `SeenInv` with the order of
the plan. `StopsFirst` is exact about a stop that failed safely: such a Service was seen `ready` too,
but no start of it is behind, so a restart that went on to start anything would violate it.

*Lifecycle: receipts.* A delete that was interrupted after the removal resumes: it does not look at the
Services again, whose working directory is gone, and goes by the barrier that is recorded as completed
(`_service_cleanup_receipt`). `ReceiptInv` says when that is sound. A delete that replays the Services
still has the Worktree until it comes to remove it (`PresentInv`), so once the Worktree is gone, every
Service was absent when last looked at, or no barrier was ever completed (`NeverBarred`), or others
removed the Worktree when one had been (`BarrierInv`). The last case is a true exception: the first attempt
completes its barrier, starts the removal and is killed; a Service comes back, the second attempt sees it
running and is killed; others remove the Worktree; and the third finds a completed barrier and a
removal that was started, and calls the Workspace deleted, without having looked at the Service that was
last seen running. `undermined` records just this act of others, and both `DeletedIsProven` and the
resumed-delete clause of `CommitIsSeen` exempt it; nothing else is exempt, whatever others
remove and whenever. That a deleted Workspace has no Worktree, and that a command which resumes nothing
has itself seen every Service last, holds in that case too.

## 5. Only model-checked

* Liveness (`Recoverable`, `MarkersCleaned`, `Recovers`, `CommandEnds`, `NobodyRunsOn`): the
  prover handles neither fairness nor `ENABLED`.
* The properties of the runs that expect a violation are false.

## 6. What is not modelled, and what was left out

* *Supervision*: descendants that leave the process group (`setsid`), the values of the
  time limits, the captured output. That a limit was met is a choice at any moment. The stage
  in which a finishing command may still complete its work is there, the time it has is not.
* *Markers*: what is in a pending or malformed file. A pending file is only ever touched under
  the lock, and the next holder removes it first.
* *The Worktree's branch and path in the Registry row*: rows carry the head for all current facts.
* *The observation clock*: tokens are reserved in the transaction that writes a row, under the
  write lock, so `last_observation_token < ?` always holds in it. The tokens of the
  observations outside of it are not used.
* *Workspaces that never got a definition*, or whose create was killed: `WorkspaceLifecycle` starts
  when a create has completed or failed with its definition recorded. A lifecycle command that
  takes the lease of a create over is `Supersede` in `WorkspaceCreate`; the deletion of a Workspace
  without a definition, which only checks that nothing is at the target path, is left out.
* *Consent and the configuration snapshot*: the snapshot is pure parsing. Consent is checked before
  each effect and may be revoked between check and effect; the code promises no more, so a
  module would only order the two. An attempt fixes its definition
  (`RecordDefinition`); consent refused is one of the ways a step fails.
* *Directory entries*: the permission, symlink and device checks on every
  path fail the operation and are covered by failures that may happen anywhere.
* *SQLite*: transactions are atomic and durable. A transaction that cannot start is a failure.
* *The lock file of the Registry, migrations, CLI, publication script*: sequential.
* `parent_id` and child Workspaces exist in the schema, and no command reaches them.

Observations that are not runs, because no document speaks of them or because
they concern what the code cannot reach:

* With others removing the Worktree, a resumed delete accepts the barrier of an earlier
  attempt although a Service was seen running since (`_service_cleanup_receipt`; section 4,
  *receipts*). `DeletedIsProven` and `CommitIsSeen` exempt this (`undermined`). docs/adapters.md says that the retry relies on "the durable barrier", which
  it does; a barrier that a later attempt contradicted is not withdrawn.
* After a cache directory was removed by hand every new create of that source
  fails with "Repository cache identity changed", since the entry keeps its generation.
* `os.replace` of a directory onto one that is not empty raises `OSError`, not
  `FileExistsError`; Fangorn's own invocations do not reach that branch, since they
  publish under the lease of the source.
* A forget of a *deleted* Workspace that is interrupted makes a repeated deletion an
  error ("Workspace is deleted") instead of its receipt: `begin_lifecycle` returns the receipt
  only to the operation recorded last. Nothing is changed by it.
* Once `markerless_reobserved` is spent, a marker that appears between the two
  looks of an adoption and is lost again, or a third operation that registers the Repository
  meanwhile, is reported as identity drift, where a repetition would succeed.
* An adopter that was told to create a marker creates it even if the Repository got registered
  and lost its marker since; likewise `create` (`repository_generation(create=True)`).
  The Registry then rejects the new marker, and every adoption of that Repository from then on.
* `ADOPTION_ATTEMPTS` is 3, and the third attempt is never reached.
* A SIGINT inside the exception handler of `_run_supervised_git`, when the exception it handles is
  no interrupt, also escapes without proof; it needs a failure first, and is left out of
  `InterruptedIn` in both runs.

## 7. Plan

Done, in this order: the lease and its promise; the fence; proofs of both;
lifecycle commands; creation and staging; the Repository cache; supervision; markers and
adoption, with their proofs; proofs of the cache, supervision, creation and
the lifecycle commands.

Next: an abstract Workspace (absent, creating, usable, deleted, forgotten) that both
`WorkspaceCreate` and `WorkspaceLifecycle` implement, the step simulation proved.
