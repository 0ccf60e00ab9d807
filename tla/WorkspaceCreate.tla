--------------------------- MODULE WorkspaceCreate --------------------------
(***************************************************************************)
(* The creation of Workspaces: Workspaces.create (src/fangorn/             *)
(* workspaces.py) over the Registry's create intents, and create_worktree  *)
(* (src/fangorn/git_worktree.py), which builds the Worktree in a staging   *)
(* directory beside its target.                                            *)
(*                                                                         *)
(* A request is journaled as an intent before anything else happens.  Its  *)
(* attempts resolve the base to a commit, fix the definition, and run the  *)
(* plan; any of them may fail (the journal says so) or be killed at any    *)
(* point (the next attempt takes its lease over), and any later attempt    *)
(* continues.  Meanwhile others move the base, create branches, occupy     *)
(* target paths and remove Worktrees, and a lifecycle command may get in.  *)
(*                                                                         *)
(* The lease is what MutationLease and InvocationFence show it to be, as   *)
(* in WorkspaceLifecycle.  RepositoryCache has the preparation of a        *)
(* repository that is cloned: here it is at hand.                          *)
(***************************************************************************)
EXTENDS LifecyclePlan, FiniteSets

CONSTANTS Invocation,     \* the processes that run create commands
          Requests,       \* what they may ask for: [id, path, branch, start]
          Services,       \* the Services of the configuration, in order
          Commit,
          NoOne, NoId, NoCommit, NoBranch,
          Meddling,       \* what others do, a subset of Meddlings
          MaxMeddling,    \* bound: how often they do it
          MaxFaults       \* bound: failures and kills

Meddlings == {"base", "branch", "target", "remove", "service", "lifecycle"}

ASSUME CreateAssumption ==
    /\ Requests \subseteq [id : STRING \cup {NoId}, path : STRING, branch : STRING,
                           start : BOOLEAN]
    /\ Services \in Seq(ToSet(Services))
    /\ "worktree" \notin ToSet(Services)
    /\ Meddling \subseteq Meddlings
    /\ MaxMeddling \in Nat
    /\ MaxFaults \in Nat
    /\ NoOne \notin Invocation
    /\ NoCommit \notin Commit
    /\ NoBranch \notin {r.branch : r \in Requests}
    /\ IsFiniteSet(Invocation)

VARIABLES intents,      \* workspace_create_intents, by request
          aggregates,   \* workspace_aggregates, by request
          journal,      \* the create operation of each request and its steps
          superseded,   \* requests whose Workspace has a lifecycle record
          holder,       \* the owner of the active lease of each Workspace
          run,          \* the local state of each invocation of create
          target,       \* what is at each target path
          staging,      \* what is at the staging path of each ownership token
          receipts,     \* the ownership tokens with a staging receipt
          refs,         \* the branches of the repository
          base,         \* the commit the requested base is at
          service,      \* what each Service of each Workspace is doing
          faults, meddled,
          touched       \* observability: branches others made, targets they removed

disk == <<target, staging, receipts, refs, service>>
registry == <<intents, aggregates, journal, superseded>>
others == <<base, faults, meddled, touched>>
vars == <<intents, aggregates, journal, superseded, holder, run, target, staging,
          receipts, refs, base, service, faults, meddled, touched>>

Path == {r.path : r \in Requests}
Branch == {r.branch : r \in Requests}
Service == ToSet(Services)
Resources == <<"worktree">> \o Services

(* Ownership tokens: every resolution of a request draws a new one, and    *)
(* only one that gets into the intent of its request is ever used.         *)
Tokens == Invocation \X Requests

(* A Worktree, by the token in its generation marker.                      *)
Tree(token, branch, head) == [token |-> token, branch |-> branch, head |-> head]
Absent == Tree(NoOne, NoBranch, NoCommit)
Foreign == Tree(<<>>, NoBranch, NoCommit)

(* What an intent resolves to, once: the commit and the ownership token.   *)
Unresolved == [sha |-> NoCommit, token |-> NoOne]
NoIntent == [status |-> "none", sha |-> NoCommit, resolved |-> Unresolved]
NoAggregate == [state |-> "none", definition |-> Unresolved, completed |-> FALSE]

(* Stages of create; in create_worktree from "target" to "tidy".           *)
InWorktree == {"target", "staging", "mark", "checkout", "publish", "tidy"}
Owning == {"leased", "resolved", "enriched", "stepping", "service", "inspect",
           "recording", "observed", "failing"} \cup InWorktree
Stage == {"idle", "begun", "done", "gone"} \cup Owning

Idle == [stage |-> "idle", request |-> NoId, snap |-> NoIntent, resolved |-> Unresolved,
         at |-> 0, previous |-> "none"]

Status == {"none", "preparing", "creating", "create_failed", "completed"}

TypeOK ==
    /\ \A r \in Requests :
          /\ intents[r].status \in Status
          /\ intents[r].resolved \in [sha : Commit, token : Tokens] \cup {Unresolved}
          /\ intents[r].resolved # Unresolved => intents[r].sha = intents[r].resolved.sha
          /\ aggregates[r].definition \in {Unresolved, intents[r].resolved}
          /\ aggregates[r].state \in {"none", "creating", "starting", "create_failed",
                                      CreatedState(r.start)}
          /\ \A p \in DOMAIN journal[r].steps :
                journal[r].steps[p].status \in {"pending", "running", "completed", "unknown"}
    /\ holder \in [Requests -> Invocation \cup {NoOne}]
    /\ \A i \in Invocation :
          /\ run[i].stage \in Stage
          /\ run[i].stage \in Owning => holder[run[i].request] = i
    /\ receipts \subseteq Tokens
    /\ faults \in 0 .. MaxFaults
    /\ meddled \in 0 .. MaxMeddling

-----------------------------------------------------------------------------
Request(i) == run[i].request
Token(i) == run[i].resolved.token
Sha(i) == run[i].resolved.sha
Steps(i) == journal[Request(i)].steps
At(i) == Steps(i)[run[i].at]
To(i, stage) == run' = [run EXCEPT ![i].stage = stage]
Advance(i) == run' = [run EXCEPT ![i].stage = "stepping", ![i].at = @ + 1]
Reconcile(i) == run[i].previous # "pending"

SettledPending(steps) ==
    [p \in DOMAIN steps |->
        IF steps[p].status = "running" THEN [steps[p] EXCEPT !.status = "pending"] ELSE steps[p]]

Settled(steps) ==
    [p \in DOMAIN steps |->
        IF steps[p].status = "running" THEN [steps[p] EXCEPT !.status = "unknown"] ELSE steps[p]]

(* A Worktree that is the one the definition describes.                    *)
MatchesAny(i, tree) == tree # Absent

Matches(i, tree) == tree = Tree(Token(i), Request(i).branch, Sha(i))

(* The lease is free, or its owner is gone together with its effects.      *)
Available(r) == holder[r] # NoOne => run[holder[r]].stage = "gone"

CheckedOut ==
    {staging[t].branch : t \in Tokens} \cup {target[p].branch : p \in Path}

Init ==
    /\ intents = [r \in Requests |-> NoIntent]
    /\ aggregates = [r \in Requests |-> NoAggregate]
    /\ journal = [r \in Requests |-> [status |-> "none", steps |-> <<>>]]
    /\ superseded = {}
    /\ holder = [r \in Requests |-> NoOne]
    /\ run = [i \in Invocation |-> Idle]
    /\ target = [p \in Path |-> Absent]
    /\ staging = [t \in Tokens |-> Absent]
    /\ receipts = {}
    /\ refs = [b \in Branch |-> NoCommit]
    /\ base \in Commit
    /\ service = [r \in Requests |-> [s \in Service |-> "absent"]]
    /\ faults = 0
    /\ meddled = 0
    /\ touched = {}

-----------------------------------------------------------------------------
(* begin_create_intent.  A request is found again by its idempotency key   *)
(* or by being the same request.                                           *)
Known(r) == intents[r].status # "none"
KeyTaken(r) == \E q \in Requests \ {r} : Known(q) /\ q.id = r.id /\ r.id # NoId
PathTaken(r) == \E q \in Requests \ {r} : Known(q) /\ q.path = r.path

Join(i, r, intent) ==
    run' = [run EXCEPT ![i] = [Idle EXCEPT !.stage = "begun", !.request = r, !.snap = intent]]

MayBeginAnywhere(r) == ~Known(r) /\ ~KeyTaken(r)

MayBegin(r) == ~Known(r) /\ ~KeyTaken(r) /\ ~PathTaken(r)

BeginIntent(i, r) ==
    /\ run[i].stage = "idle"
    /\ MayBegin(r)
    /\ intents' = [intents EXCEPT ![r].status = "preparing"]
    /\ journal' = [journal EXCEPT ![r].status = "running"]
    /\ Join(i, r, intents'[r])
    /\ UNCHANGED <<aggregates, superseded, holder, disk, others>>

FindIntent(i, r) ==
    /\ run[i].stage = "idle"
    /\ Known(r)
    /\ Join(i, r, intents[r])
    /\ UNCHANGED <<registry, holder, disk, others>>

(* The intent was completed already, when it was read or when the lease    *)
(* was asked for: the completed Workspace is returned.                     *)
ReturnCompleted(i) ==
    /\ run[i].stage = "begun"
    /\ intents[Request(i)].status = "completed"
    /\ run[i].snap.status = "completed" \/ Request(i) \notin superseded
    /\ To(i, "done")
    /\ UNCHANGED <<registry, holder, disk, others>>

(* acquire_lease with update_operation, and what it starts anew.           *)
MayResumeDeleted(r) == intents[r].status # "completed" /\ Available(r)

MayResumeCompleted(r) == r \notin superseded /\ Available(r)

MayResume(r) == r \notin superseded /\ intents[r].status # "completed" /\ Available(r)

Acquire(i) ==
    LET r == Request(i) IN
    /\ run[i].stage = "begun"
    /\ run[i].snap.status # "completed"
    /\ MayResume(r)
    /\ journal' = [journal EXCEPT ![r] =
                      [status |-> "running",
                       steps |-> IF holder[r] = NoOne THEN @.steps ELSE Settled(@.steps)]]
    /\ intents' = [intents EXCEPT ![r].status = "creating"]
    /\ aggregates' = [aggregates EXCEPT ![r].state = IF @ = "none" THEN @ ELSE "creating"]
    /\ holder' = [holder EXCEPT ![r] = i]
    /\ To(i, "leased")
    /\ UNCHANGED <<superseded, disk, others>>

(* Refused the lease: busy, or no longer a create; the caller may retry.   *)
TurnedAway(i) ==
    LET r == Request(i) IN
    /\ run[i].stage = "begun"
    /\ run[i].snap.status # "completed"
    /\ \/ r \in superseded
       \/ ~Available(r)
    /\ run' = [run EXCEPT ![i] = Idle]
    /\ UNCHANGED <<registry, holder, disk, others>>

-----------------------------------------------------------------------------
(* persist_resolved_sha: the first resolution stays, wherever the base has *)
(* moved, and the intent read before the lease may not know it.            *)
ResolutionAfresh(r) == base

Resolution(r) == IF intents[r].sha = NoCommit THEN base ELSE intents[r].sha

Resolve(i) ==
    LET r == Request(i)
        sha == Resolution(r)
    IN  /\ run[i].stage = "leased"
        /\ run[i].snap.resolved = Unresolved
        /\ intents' = [intents EXCEPT ![r].sha = sha]
        /\ run' = [run EXCEPT ![i].stage = "resolved",
                              ![i].resolved = [sha |-> sha, token |-> <<i, r>>]]
        /\ UNCHANGED <<aggregates, journal, superseded, holder, disk, others>>

(* enrich_create_intent: journals the plan, or returns what an earlier     *)
(* attempt resolved.                                                       *)
Enrich(i) ==
    LET r == Request(i) IN
    /\ run[i].stage = "resolved"
    /\ IF intents[r].resolved # Unresolved
       THEN /\ run' = [run EXCEPT ![i].stage = "enriched", ![i].resolved = intents[r].resolved]
            /\ UNCHANGED <<intents, journal>>
       ELSE /\ intents' = [intents EXCEPT ![r].resolved = run[i].resolved]
            /\ journal' = [journal EXCEPT ![r].steps = CreateSteps(Resources, r.start)]
            /\ To(i, "enriched")
    /\ UNCHANGED <<aggregates, superseded, holder, disk, others>>

UseResolved(i) ==
    /\ run[i].stage = "leased"
    /\ run[i].snap.resolved # Unresolved
    /\ run' = [run EXCEPT ![i].stage = "enriched", ![i].resolved = run[i].snap.resolved]
    /\ UNCHANGED <<registry, holder, disk, others>>

(* record_workspace_definition: immutable once recorded.                   *)
RecordDefinition(i) ==
    LET r == Request(i) IN
    /\ run[i].stage = "enriched"
    /\ aggregates[r].definition \in {Unresolved, run[i].resolved}
    /\ aggregates' = IF aggregates[r].definition = Unresolved
                     THEN [aggregates EXCEPT ![r] =
                              [@ EXCEPT !.definition = run[i].resolved, !.state = "creating"]]
                     ELSE aggregates
    /\ run' = [run EXCEPT ![i].stage = "stepping", ![i].at = 1]
    /\ UNCHANGED <<intents, journal, superseded, holder, disk, others>>

(* start_operation_step: a Worktree that was started or inspected is not   *)
(* started or inspected again; everything else is reconciled.              *)
Reconciled(step) == step.action = "create" \/ step.resource # "worktree"

SkipsUnknown(step) == step.status \in {"completed", "unknown"} /\ ~Reconciled(step)

Skips(step) == step.status = "completed" /\ ~Reconciled(step)

StartStep(i) ==
    LET r == Request(i)
        skips == Skips(At(i))
    IN  /\ run[i].stage = "stepping"
        /\ run[i].at <= Len(Steps(i))
        /\ journal' = IF skips THEN journal
                      ELSE [journal EXCEPT ![r].steps[run[i].at].status = "running"]
        /\ aggregates' = IF At(i).action = "start" /\ At(i).resource = "worktree"
                         THEN [aggregates EXCEPT ![r].state = "starting"] ELSE aggregates
        /\ run' = [run EXCEPT
              ![i].previous = At(i).status,
              ![i].at = IF skips THEN @ + 1 ELSE @,
              ![i].stage = IF skips THEN "stepping"
                           ELSE IF At(i).resource # "worktree" THEN "service"
                           ELSE IF At(i).action = "create" THEN "target" ELSE "inspect"]
        /\ UNCHANGED <<intents, superseded, holder, disk, others>>

-----------------------------------------------------------------------------
(* create_worktree.  What is where, for the request of an invocation.      *)
There(i) == target[Request(i).path]
Staged(i) == staging[Token(i)]
Ref(i) == refs[Request(i).branch]

(* An existing target is only accepted from an earlier attempt.            *)
MayAdopt(i) == There(i) # Absent /\ Reconcile(i) /\ Matches(i, There(i))

AdoptTarget(i) ==
    /\ run[i].stage = "target"
    /\ MayAdopt(i)
    /\ To(i, "tidy")
    /\ UNCHANGED <<registry, holder, disk, others>>

(* A receipt is written before the staging directory is, and required of a *)
(* staging directory that is there.                                        *)
MayClaimAnew(i) ==
    There(i) = Absent /\ Staged(i) = Absent /\ Token(i) \notin receipts

MayClaim(i) ==
    /\ There(i) = Absent
    /\ IF Reconcile(i) THEN Staged(i) # Absent => Token(i) \in receipts
                       ELSE Staged(i) = Absent /\ Token(i) \notin receipts

Receiptless(i) == receipts

Receipted(i) == receipts \cup {Token(i)}

ClaimStaging(i) ==
    /\ run[i].stage = "target"
    /\ MayClaim(i)
    /\ receipts' = Receipted(i)
    /\ To(i, "staging")
    /\ UNCHANGED <<registry, holder, target, staging, refs, service, others>>

MayContinue(i) ==
    /\ Staged(i) # Absent
    /\ Staged(i).token \in {NoOne, Token(i)}
    /\ Staged(i).head = Sha(i)
    /\ Staged(i).branch \in {NoBranch, Request(i).branch}

ContinueStaging(i) ==
    /\ run[i].stage = "staging"
    /\ MayContinue(i)
    /\ To(i, "mark")
    /\ UNCHANGED <<registry, holder, disk, others>>

(* A branch that exists is refused, unless an earlier attempt may have     *)
(* made it and it is where that attempt would have left it.                *)
MayAdd(i) ==
    /\ Staged(i) = Absent
    /\ Ref(i) # NoCommit => Reconcile(i) /\ Ref(i) = Sha(i)

AddWorktree(i) ==
    /\ run[i].stage = "staging"
    /\ MayAdd(i)
    /\ staging' = [staging EXCEPT ![Token(i)] = Tree(NoOne, NoBranch, Sha(i))]
    /\ To(i, "mark")
    /\ UNCHANGED <<registry, holder, target, receipts, refs, service, others>>

(* establish_worktree_generation.                                          *)
Mark(i) ==
    /\ run[i].stage = "mark"
    /\ staging' = [staging EXCEPT ![Token(i)].token = Token(i)]
    /\ To(i, "checkout")
    /\ UNCHANGED <<registry, holder, target, receipts, refs, service, others>>

(* git checkout [-b]: refused where the branch is checked out elsewhere,   *)
(* and in vain where the branch has moved.                                 *)
MayCheckout(i) == Matches(i, Staged(i)) \/ Request(i).branch \notin CheckedOut

Checkout(i) ==
    LET head == IF Ref(i) = NoCommit THEN Sha(i) ELSE Ref(i) IN
    /\ run[i].stage = "checkout"
    /\ MayCheckout(i)
    /\ IF Matches(i, Staged(i)) THEN To(i, "publish") /\ UNCHANGED <<staging, refs>>
       ELSE /\ staging' = [staging EXCEPT ![Token(i)] =
                              Tree(Token(i), Request(i).branch, head)]
            /\ refs' = [refs EXCEPT ![Request(i).branch] = head]
            /\ To(i, IF head = Sha(i) THEN "publish" ELSE "failing")
    /\ UNCHANGED <<registry, holder, target, receipts, service, others>>

(* git worktree move.  Into a directory that somebody made at the target   *)
(* meanwhile, Git moves the Worktree below it, or refuses.                 *)
Publish(i) ==
    /\ run[i].stage = "publish"
    /\ IF There(i) = Absent
       THEN /\ target' = [target EXCEPT ![Request(i).path] = Staged(i)]
            /\ staging' = [staging EXCEPT ![Token(i)] = Absent]
            /\ To(i, "tidy")
       ELSE /\ \/ staging' = [staging EXCEPT ![Token(i)] = Absent]
               \/ UNCHANGED staging
            /\ To(i, "failing")
            /\ UNCHANGED target
    /\ UNCHANGED <<registry, holder, receipts, refs, service, others>>

MayTidy(i) == There(i) \notin {Absent, Foreign}

Tidy(i) ==
    /\ run[i].stage = "tidy"
    /\ MayTidy(i)
    /\ receipts' = receipts \ {Token(i)}
    /\ To(i, "recording")
    /\ UNCHANGED <<registry, holder, target, staging, refs, service, others>>

(* inspect_owned_worktree.                                                 *)
Inspect(i) ==
    /\ run[i].stage = "inspect"
    /\ Matches(i, There(i))
    /\ To(i, "recording")
    /\ UNCHANGED <<registry, holder, disk, others>>

-----------------------------------------------------------------------------
(* _service_step.  A create that may have happened is not repeated, unless *)
(* there is no Service and no receipt of its creation.                     *)
ReconciledService(i, status) ==
    CASE At(i).action = "inspect" -> TRUE
      [] At(i).action = "start" -> status = "ready"
      [] At(i).action = "create" ->
            /\ run[i].previous # "pending"
            /\ \/ status \in {"stopped", "ready"}
               \/ status = "absent" /\ run[i].previous = "completed"

ServiceStep(i) ==
    LET r == Request(i)
        s == At(i).resource
    IN  /\ run[i].stage = "service"
        /\ \E left \in IF ReconciledService(i, service[r][s]) THEN {service[r][s]}
                       ELSE Created(At(i).action = "start") :
              service' = [service EXCEPT ![r][s] = left]
        /\ To(i, "recording")
        /\ UNCHANGED <<registry, holder, target, staging, receipts, refs, others>>

(* finish_operation_step.                                                  *)
Record(i) ==
    /\ run[i].stage = "recording"
    /\ journal' = [journal EXCEPT ![Request(i)].steps[run[i].at].status = "completed"]
    /\ Advance(i)
    /\ UNCHANGED <<intents, aggregates, superseded, holder, disk, others>>

(* The last look at every resource, and finish_create.                     *)
Proven(i) ==
    /\ Matches(i, There(i))
    /\ \A s \in Service : service[Request(i)][s] \in Created(Request(i).start)

Observe(i) ==
    /\ run[i].stage = "stepping"
    /\ run[i].at > Len(Steps(i))
    /\ Proven(i)
    /\ To(i, "observed")
    /\ UNCHANGED <<registry, holder, disk, others>>

(* complete_workspace_create.                                              *)
Complete(i) ==
    LET r == Request(i) IN
    /\ run[i].stage = "observed"
    /\ aggregates[r].definition = run[i].resolved
    /\ ~aggregates[r].completed
    /\ aggregates' = [aggregates EXCEPT ![r] =
                         [@ EXCEPT !.state = CreatedState(r.start), !.completed = TRUE]]
    /\ intents' = [intents EXCEPT ![r].status = "completed"]
    /\ journal' = [journal EXCEPT ![r].status = "completed"]
    /\ holder' = [holder EXCEPT ![r] = NoOne]
    /\ To(i, "done")
    /\ UNCHANGED <<superseded, disk, others>>

-----------------------------------------------------------------------------
(* What an attempt meets on its way that it cannot accept.                 *)
Refused(i) ==
    CASE run[i].stage = "target" -> ~MayAdopt(i) /\ ~MayClaim(i)
      [] run[i].stage = "staging" -> ~MayContinue(i) /\ ~MayAdd(i)
      [] run[i].stage = "checkout" -> ~MayCheckout(i)
      [] run[i].stage = "tidy" -> ~MayTidy(i)
      [] run[i].stage = "inspect" -> ~Matches(i, There(i))
      [] run[i].stage = "stepping" -> run[i].at > Len(Steps(i)) /\ ~Proven(i)
      [] OTHER -> FALSE

Refuse(i) ==
    /\ Refused(i)
    /\ To(i, "failing")
    /\ UNCHANGED <<registry, holder, disk, others>>

(* An error or an interrupt anywhere; a Service may be left in any state,  *)
(* but is not started by its create.                                       *)
Fails(i) ==
    /\ run[i].stage \in Owning \ {"failing"}
    /\ faults < MaxFaults
    /\ faults' = faults + 1
    /\ \/ UNCHANGED service
       \/ /\ run[i].stage = "service"
          /\ \E left \in {"absent", "stopped", "ready"} :
                /\ At(i).action # "inspect"
                /\ left = "ready" => At(i).action = "start"
                /\ service' = [service EXCEPT ![Request(i)][At(i).resource] = left]
    /\ To(i, "failing")
    /\ UNCHANGED <<registry, holder, target, staging, receipts, refs, base, meddled, touched>>

(* fail_create_operation.  The caller may try again.                       *)
FailedStateKept(r) == aggregates[r].state

FailedState(r) == IF aggregates[r].state = "none" THEN "none" ELSE "create_failed"

FailCreate(i) ==
    LET r == Request(i) IN
    /\ run[i].stage = "failing"
    /\ journal' = [journal EXCEPT ![r] = [status |-> "failed", steps |-> Settled(@.steps)]]
    /\ intents' = [intents EXCEPT ![r].status = "create_failed"]
    /\ aggregates' = [aggregates EXCEPT ![r].state = FailedState(r)]
    /\ holder' = [holder EXCEPT ![r] = NoOne]
    /\ run' = [run EXCEPT ![i] = Idle]
    /\ UNCHANGED <<superseded, disk, others>>

(* Killed, or unable to prove that Git stopped: the lease stays.  (Bound:   *)
(* somebody is left to retry.)                                             *)
Vanish(i) ==
    /\ run[i].stage \in Owning
    /\ \E j \in Invocation \ {i} : run[j].stage # "gone"
    /\ faults < MaxFaults
    /\ faults' = faults + 1
    /\ To(i, "gone")
    /\ UNCHANGED <<registry, holder, disk, base, meddled, touched>>

-----------------------------------------------------------------------------
(* Others.                                                                 *)
Meddle(kind) ==
    /\ kind \in Meddling
    /\ meddled < MaxMeddling
    /\ meddled' = meddled + 1
    /\ UNCHANGED <<run, staging, receipts, faults>>

BaseMoves ==
    /\ Meddle("base")
    /\ \E sha \in Commit \ {base} : base' = sha
    /\ UNCHANGED <<registry, holder, target, refs, service, touched>>

BranchAppears(b) ==
    /\ Meddle("branch")
    /\ refs[b] = NoCommit
    /\ \E sha \in Commit : refs' = [refs EXCEPT ![b] = sha]
    /\ touched' = touched \cup {b}
    /\ UNCHANGED <<registry, holder, target, service, base>>

TargetAppears(p) ==
    /\ Meddle("target")
    /\ target[p] = Absent
    /\ target' = [target EXCEPT ![p] = Foreign]
    /\ UNCHANGED <<registry, holder, refs, service, base, touched>>

TargetRemoved(p) ==
    /\ Meddle("remove")
    /\ target[p] # Absent
    /\ target' = [target EXCEPT ![p] = Absent]
    /\ touched' = touched \cup {p}
    /\ UNCHANGED <<registry, holder, refs, service, base>>

ServiceDrifts(r, s) ==
    /\ Meddle("service")
    /\ \E status \in {"absent", "stopped", "ready"} :
          service' = [service EXCEPT ![r][s] = status]
    /\ UNCHANGED <<registry, holder, target, refs, base, touched>>

(* A lifecycle command of a Workspace that has a definition (see           *)
(* WorkspaceLifecycle); a delete also removes the Worktree.                *)
Supersede(r) ==
    /\ Meddle("lifecycle")
    /\ aggregates[r].definition # Unresolved
    /\ Available(r)
    /\ superseded' = superseded \cup {r}
    /\ holder' = [holder EXCEPT ![r] = NoOne]
    /\ journal' = [journal EXCEPT ![r].steps =
                      IF holder[r] = NoOne THEN @ ELSE Settled(@)]
    /\ target' \in {target, [target EXCEPT ![r.path] = Absent]}
    /\ UNCHANGED <<intents, aggregates, refs, service, base, touched>>

Create(i) ==
    \/ \E r \in Requests : BeginIntent(i, r) \/ FindIntent(i, r)
    \/ ReturnCompleted(i) \/ Acquire(i) \/ TurnedAway(i)
    \/ Resolve(i) \/ Enrich(i) \/ UseResolved(i) \/ RecordDefinition(i) \/ StartStep(i)
    \/ AdoptTarget(i) \/ ClaimStaging(i) \/ ContinueStaging(i) \/ AddWorktree(i) \/ Mark(i)
    \/ Checkout(i) \/ Publish(i) \/ Tidy(i) \/ Inspect(i) \/ ServiceStep(i) \/ Record(i)
    \/ Observe(i) \/ Complete(i) \/ Refuse(i) \/ FailCreate(i)

Next ==
    \/ \E i \in Invocation : Create(i) \/ Fails(i) \/ Vanish(i)
    \/ BaseMoves
    \/ \E b \in Branch : BranchAppears(b)
    \/ \E p \in Path : TargetAppears(p) \/ TargetRemoved(p)
    \/ \E r \in Requests : Supersede(r) \/ \E s \in Service : ServiceDrifts(r, s)

Spec == Init /\ [][Next]_vars

(* Callers repeat a create that has not succeeded, and attempts get on     *)
(* with it.                                                                *)
FairSpec == Spec /\ \A i \in Invocation : WF_vars(Create(i))

-----------------------------------------------------------------------------
(* Properties.                                                             *)

(* At every point, crashes included, the intent, the operation and the     *)
(* aggregate tell the same story of one create.                            *)
CreateStateAgrees ==
    \A r \in Requests :
        LET intent == intents[r]
            aggregate == aggregates[r]
        IN  /\ intent.status = "completed" <=> aggregate.completed
            /\ intent.status = "completed" <=> journal[r].status = "completed"
            /\ intent.status = "create_failed" <=> journal[r].status = "failed"
            /\ aggregate.state # "none" =>
                  CASE aggregate.completed -> aggregate.state = CreatedState(r.start)
                    [] intent.status = "create_failed" -> aggregate.state = "create_failed"
                    [] OTHER -> aggregate.state \in {"creating", "starting"}

(* The journal of a completed create has every step completed, whichever   *)
(* attempts did them.                                                      *)
CreateJournalComplete ==
    \A r \in Requests :
        intents[r].status = "completed" =>
            \A p \in DOMAIN journal[r].steps : journal[r].steps[p].status = "completed"

(* A staging directory always has its receipt, so that no interrupted      *)
(* create leaves one that every retry must refuse.                         *)
StagingHasReceipt == \A t \in Tokens : staging[t] # Absent => t \in receipts

(* "succeeds only after the Worktree Resource is observed at its resolved  *)
(* created_from_sha, requested branch, and immutable ownership token", and *)
(* "an existing target is accepted only when retry evidence proves it":    *)
(* unless somebody removed it, that is what is at the target of a          *)
(* completed create.                                                       *)
CompletedIsThere ==
    \A r \in Requests :
        aggregates[r].completed /\ r \notin superseded /\ r.path \notin touched =>
            target[r.path] = Tree(aggregates[r].definition.token, r.branch,
                                  aggregates[r].definition.sha)

(* "Workspace branch already exists": the branch of a completed create is  *)
(* one that the create made.                                               *)
BranchIsNew ==
    \A r \in Requests : aggregates[r].completed => r.branch \notin touched

(* "--base REF to resolve another commit once": what a request resolves to *)
(* and the definition of its Workspace never change again.                 *)
ResolvedOnce ==
    [][ \A r \in Requests :
            /\ intents[r].sha # NoCommit => intents'[r].sha = intents[r].sha
            /\ intents[r].resolved # Unresolved =>
                  intents'[r].resolved = intents[r].resolved
            /\ aggregates[r].definition # Unresolved =>
                  aggregates'[r].definition = aggregates[r].definition ]_vars

(* "Equivalent retries return the same Workspace and completed operation": *)
(* a completed create is final, whatever attempts were under way.          *)
CreateIsFinal ==
    [][ \A r \in Requests :
            aggregates[r].completed =>
                /\ intents'[r] = intents[r]
                /\ aggregates'[r] = aggregates[r]
                /\ journal'[r] = journal[r] ]_vars

(* "Forgotten and deleted identities cannot be resurrected by create       *)
(* retries": once a lifecycle command got in, no attempt changes the       *)
(* records or puts a Worktree at the target.                               *)
NoResurrection ==
    [][ \A r \in superseded :
            /\ intents'[r] = intents[r]
            /\ aggregates'[r] = aggregates[r]
            /\ target'[r.path] # target[r.path] => target'[r.path] \in {Absent, Foreign} ]_vars

(* What interrupted attempts leave behind never stands in the way of the   *)
(* next: an attempt is only refused when others meddled.                   *)
NeverInItsOwnWay == [][ \A i \in Invocation : Refuse(i) => meddled > 0 ]_vars

(* So a create that is repeated after failures and kills gets completed.   *)
Recovers == \A r \in Requests : Known(r) ~> aggregates[r].completed
=============================================================================
