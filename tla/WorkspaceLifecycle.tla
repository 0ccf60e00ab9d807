-------------------------- MODULE WorkspaceLifecycle -------------------------
(***************************************************************************)
(* The lifecycle commands of one created Workspace: Workspaces._operate    *)
(* (src/fangorn/workspaces.py) over the Registry's begin_lifecycle,        *)
(* start_operation_step, finish_operation_step and finish_lifecycle.       *)
(*                                                                         *)
(* A command reads a snapshot and plans before it holds the lease, checks  *)
(* the snapshot again once it does, journals its plan, and runs the steps  *)
(* one by one.  It can fail, be interrupted (the lease is released, the    *)
(* journal stays) or disappear with the lease (killed, or unable to prove  *)
(* that its effects stopped); a repeated command resumes its operation.    *)
(*                                                                         *)
(* The lease is what MutationLease and InvocationFence show it to be: one  *)
(* owner at a time, taken over only from an owner that is gone together    *)
(* with its effects.  So an acquisition is one action here, an effect is   *)
(* one, and a fenced transaction is one that the holder performs.          *)
(***************************************************************************)
EXTENDS LifecyclePlan

CONSTANTS Invocation,          \* one command of one process
          Services,            \* Service names, in declaration order
          ServiceStatus,       \* bound: what others, and failures, leave Services in
          Creation,            \* the create operation of the Workspace
          NoOne,
          Commands,            \* the commands users give
          MaxDrift,            \* bound: changes of Services by others
          WorktreeMayVanish    \* whether others may remove the Worktree

ASSUME LifecycleAssumption ==
    /\ Commands \subseteq Command
    /\ ServiceStatus \subseteq {"absent", "stopped", "ready", "degraded"}
    /\ MaxDrift \in Nat
    /\ WorktreeMayVanish \in BOOLEAN
    /\ Creation \notin Invocation
    /\ NoOne \notin Invocation
    /\ Services \in Seq(ToSet(Services))
    /\ "worktree" \notin ToSet(Services)

VARIABLES workspace,    \* the aggregate: state, version, operation, tombstone
          operations,   \* the journal: operations and operation_steps
          holder,       \* the owner of the active lease
          run,          \* the local state of each invocation of _operate
          worktree,     \* what is on disk
          service,      \* what each Service is really doing
          drifts,       \* how many changes others have made
          seen,         \* observability: the last observation of each Service
          undermined    \* observability: others removed the Worktree of a passed barrier

vars == <<workspace, operations, holder, run, worktree, service, drifts, seen, undermined>>

Service == ToSet(Services)
Resources == <<"worktree">> \o Services
Operation == Invocation \cup {Creation}

Goal == [start |-> {"ready"}, stop |-> {"stopped", "absent"}, delete |-> {"absent"}]

(* Stages of _operate.                                                     *)
Owning == {"acquired", "checked", "begun", "stepping", "effect", "recording", "failing"}
Bound == Owning \cup {"planned"}
Stage == {"idle", "done", "gone"} \cup Bound

Recorded(steps, action, resource, statuses) ==
    \E p \in DOMAIN steps :
        /\ steps[p].action = action
        /\ steps[p].resource = resource
        /\ steps[p].status \in statuses

(* _service_cleanup_receipt: the barrier was passed and every Service's    *)
(* absence recorded.                                                       *)
CleanupReceipt(steps) ==
    /\ Recorded(steps, "barrier", "worktree", {"completed"})
    /\ \A s \in Service : Recorded(steps, "absence", s, {"completed"})

RemovalBegun(steps) ==
    Recorded(steps, "delete", "worktree", {"running", "completed", "failed", "unknown"})

(* What an inspection reads of the Workspace: its current operation, and   *)
(* whether the steps of this let a delete go on from the removal.          *)
Snapshot ==
    LET op == operations[workspace.op] IN
    [state |-> workspace.state, version |-> workspace.version, op |-> workspace.op,
     kind |-> op.kind, status |-> op.status,
     receipt |-> CleanupReceipt(op.steps) /\ RemovalBegun(op.steps)]

Unused == [kind |-> "none", status |-> "none", steps |-> <<>>]

Idle == [stage |-> "idle", command |-> "none", force |-> FALSE, base |-> <<>>, op |-> NoOne,
         at |-> 0, outcome |-> "none", failed |-> {}, blame |-> "none", resume |-> FALSE]

Finished == [Idle EXCEPT !.stage = "done"]

TypeOK ==
    /\ workspace.state \in {"ready", "stopped", "create_failed", "starting", "stopping",
                            "deleting", "start_failed", "stop_failed", "delete_failed",
                            "deleted"}
    /\ workspace.op \in Operation
    /\ \A o \in Operation :
          /\ operations[o].kind \in Command \cup {"none", "create"}
          /\ operations[o].status \in {"none", "running", "completed", "failed"}
          /\ \A p \in DOMAIN operations[o].steps :
                operations[o].steps[p].status \in
                    {"pending", "running", "completed", "failed", "unknown"}
    /\ holder \in Invocation \cup {NoOne}
    /\ \A i \in Invocation :
          /\ run[i].stage \in Stage
          /\ run[i].stage \in Owning => holder = i
          /\ run[i].outcome \in {"none", "ok", "safe", "stuck"}
          /\ run[i].failed \subseteq Service
    /\ worktree \in {"present", "absent"}
    /\ service \in [Service -> {"absent", "stopped", "ready", "degraded"}]
    /\ drifts \in 0 .. MaxDrift
    /\ undermined \in BOOLEAN

-----------------------------------------------------------------------------
(* The step an invocation is at, and small changes of local state.         *)
Steps(i) == operations[run[i].op].steps
At(i) == Steps(i)[run[i].at]
To(i, stage) == run' = [run EXCEPT ![i].stage = stage]
Advance(i) == [run[i] EXCEPT !.stage = "stepping", !.at = @ + 1, !.outcome = "none"]
Blame(i, action) == [run[i] EXCEPT !.stage = "failing", !.blame = action,
                                  !.outcome = "none", !.failed = {}]

(* The steps of an operation with what was running turned into status.     *)
Settled(steps, status) ==
    [p \in DOMAIN steps |->
        IF steps[p].status = "running" THEN [steps[p] EXCEPT !.status = status] ELSE steps[p]]

Marked(i, status) ==
    operations' = [operations EXCEPT ![run[i].op].steps[run[i].at].status = status]

Saw(i, s, status) == seen' = [seen EXCEPT ![s] = [by |-> i, status |-> status]]

-----------------------------------------------------------------------------
(* A Workspace whose create has ended.                                     *)
Init ==
    /\ \E state \in {"ready", "stopped", "create_failed"} :
          /\ workspace = [state |-> state, version |-> 0, op |-> Creation, forgotten |-> FALSE]
          /\ operations = [o \in Operation |->
                IF o = Creation
                THEN [kind |-> "create", steps |-> <<>>,
                      status |-> IF state = "create_failed" THEN "failed" ELSE "completed"]
                ELSE Unused]
          /\ worktree \in IF state = "create_failed" THEN {"present", "absent"} ELSE {"present"}
          /\ \E status \in CASE state = "ready" -> {"ready"}
                             [] state = "stopped" -> {"stopped", "absent"}
                             [] OTHER -> ServiceStatus :
                service = [s \in Service |-> status]
    /\ holder = NoOne
    /\ run = [i \in Invocation |-> Idle]
    /\ drifts = 0
    /\ seen = [s \in Service |-> [by |-> NoOne, status |-> "unknown"]]
    /\ undermined = FALSE

(* Before the lease: a snapshot, a plan, and the operation to resume or a  *)
(* new one.  force matters to delete only.                                 *)
Plan(i, command, force) ==
    /\ run[i].stage = "idle"
    /\ force => command = "delete"
    /\ ~workspace.forgotten
    /\ command = "forget" => holder = NoOne
    /\ Accepts(command, workspace.state)
    /\ run' = [run EXCEPT ![i] =
                  [@ EXCEPT !.stage = "planned", !.command = command, !.force = force,
                            !.base = Snapshot,
                            !.op = IF /\ Snapshot.kind = command
                                      /\ Snapshot.status \in {"running", "failed"}
                                   THEN Snapshot.op ELSE i]]
    /\ UNCHANGED <<workspace, operations, holder, worktree, service, drifts, seen, undermined>>

(* acquire_lease: a lease whose owner is gone can be taken over, though    *)
(* not by forget; the step it left running has an unknown outcome.         *)
Acquire(i) ==
    /\ run[i].stage = "planned"
    /\ \/ holder = NoOne /\ UNCHANGED operations
       \/ /\ holder # NoOne
          /\ run[holder].stage = "gone"
          /\ run[i].command # "forget"
          /\ operations' =
                [operations EXCEPT ![run[holder].op].steps = Settled(@, "unknown")]
    /\ holder' = i
    /\ To(i, "acquired")
    /\ UNCHANGED <<workspace, worktree, service, drifts, seen, undermined>>

(* Not planned, refused the lease, or given up before asking for it.       *)
TurnedAway(i) ==
    /\ run[i].stage \in {"idle", "planned"}
    /\ run' = [run EXCEPT ![i] = Finished]
    /\ UNCHANGED <<workspace, operations, holder, worktree, service, drifts, seen, undermined>>

(* The operation and the aggregate are as planned for; steps may differ.   *)
Unchanged(i) ==
    [run[i].base EXCEPT !.receipt = FALSE] = [Snapshot EXCEPT !.receipt = FALSE]

Recheck(i) ==
    /\ run[i].stage = "acquired"
    /\ Unchanged(i)
    /\ To(i, "checked")
    /\ UNCHANGED <<workspace, operations, holder, worktree, service, drifts, seen, undermined>>

(* The command repeats the operation that last completed.  A delete then   *)
(* returns; others do if a fresh look at every resource agrees.            *)
Repeats(i) ==
    /\ run[i].command # "forget"
    /\ run[i].base.kind = run[i].command
    /\ run[i].base.status = "completed"
    /\ run[i].base.state = SuccessState(run[i].command, run[i].base.state)

(* Release without a word in the journal: the repeated command returns, an *)
(* error stops the command before begin_lifecycle or in it, or an          *)
(* interrupt stops it anywhere.                                            *)
LetGo(i) ==
    /\ run[i].stage \in Owning
    /\ holder' = NoOne
    /\ run' = [run EXCEPT ![i] = Finished]
    /\ UNCHANGED <<workspace, operations, worktree, service, drifts, seen, undermined>>

(* Killed, or unable to prove that an effect stopped: the lease stays.     *)
Vanish(i) ==
    /\ run[i].stage \in Owning
    /\ run' = [run EXCEPT ![i] = [Idle EXCEPT !.stage = "gone", !.op = run[i].op]]
    /\ UNCHANGED <<workspace, operations, holder, worktree, service, drifts, seen, undermined>>

EnterStateFinal(i) == SuccessState(run[i].command, run[i].base.state)

EnterState(i) ==
    CASE run[i].command \in {"stop", "restart"} -> "stopping"
      [] run[i].command = "start" -> "starting"
      [] run[i].command = "delete" -> "deleting"
      [] run[i].command = "forget" -> run[i].base.state

(* begin_lifecycle: the journal keeps the steps of an earlier attempt.     *)
Begin(i) ==
    LET mine == operations[run[i].op]
    IN  /\ run[i].stage = "checked"
        /\ ~(Repeats(i) /\ run[i].command = "delete")
        /\ ~workspace.forgotten
        /\ workspace.state = "deleted" => run[i].command = "forget"
        /\ workspace.op # Creation => workspace.op = run[i].base.op
        /\ mine.kind \in {"none", run[i].command}
        /\ operations' = [operations EXCEPT ![run[i].op] =
              [kind |-> run[i].command, status |-> "running",
               steps |-> IF mine.kind # "none" THEN mine.steps
                         ELSE CommandSteps(run[i].command, Resources)]]
        /\ workspace' = [workspace EXCEPT !.op = run[i].op, !.state = EnterState(i)]
        /\ To(i, "begun")
        /\ UNCHANGED <<holder, worktree, service, drifts, seen, undermined>>

-----------------------------------------------------------------------------
(* A delete resumed after the Worktree went away replays no Service step.  *)
(* It goes by the steps that were read before the lease was held.          *)
ResumesRemoved(i) ==
    /\ run[i].command = "delete"
    /\ run[i].base.op = run[i].op
    /\ run[i].base.receipt
    /\ worktree = "absent"

SurveyWithoutReceipt(i) ==
    /\ run[i].stage = "begun"
    /\ run' = [run EXCEPT ![i].stage = "stepping", ![i].at = 1,
                          ![i].resume = run[i].command = "delete" /\ worktree = "absent",
                          ![i].base.receipt = FALSE]
    /\ UNCHANGED <<workspace, operations, holder, worktree, service, drifts, seen, undermined>>

(* Every attempt goes through the steps from the first.  The steps of the  *)
(* snapshot are not read again.                                            *)
Survey(i) ==
    /\ run[i].stage = "begun"
    /\ run' = [run EXCEPT ![i].stage = "stepping", ![i].at = 1,
                          ![i].resume = ResumesRemoved(i),
                          ![i].base.receipt = FALSE]
    /\ UNCHANGED <<workspace, operations, holder, worktree, service, drifts, seen, undermined>>

(* Steps that a resumed delete does not replay.                            *)
Unreplayed(i) == run[i].resume /\ (At(i).resource # "worktree" \/ At(i).action = "barrier")

HaltsDeletes(i) ==
    /\ ~Unreplayed(i)
    /\ run[i].failed # {}
    /\ run[i].command = "delete" /\ At(i).resource = "worktree"

(* Nothing starts, and the Worktree is left alone, after failed cleanup.   *)
Halts(i) ==
    /\ ~Unreplayed(i)
    /\ run[i].failed # {}
    /\ At(i).action = "start" \/ At(i).resource = "worktree"

Skipped(i) == Unreplayed(i) \/ (~Halts(i) /\ At(i).resource \in run[i].failed)

MoreSteps(i) == run[i].stage = "stepping" /\ run[i].at <= Len(Steps(i))

Skip(i) ==
    /\ MoreSteps(i)
    /\ Skipped(i)
    /\ run' = [run EXCEPT ![i] = Advance(i)]
    /\ UNCHANGED <<workspace, operations, holder, worktree, service, drifts, seen, undermined>>

(* The first failure is the one the error is blamed on.                    *)
Halt(i) ==
    /\ MoreSteps(i)
    /\ Halts(i)
    /\ run' = [run EXCEPT ![i] = Blame(i, run[i].blame)]
    /\ UNCHANGED <<workspace, operations, holder, worktree, service, drifts, seen, undermined>>

(* start_operation_step with reconcile_completed: the step runs again.     *)
StartStep(i) ==
    /\ MoreSteps(i)
    /\ ~Skipped(i)
    /\ ~Halts(i)
    /\ Marked(i, "running")
    /\ workspace' = IF At(i).action = "start"
                    THEN [workspace EXCEPT !.state = "starting"] ELSE workspace
    /\ To(i, "effect")
    /\ UNCHANGED <<holder, worktree, service, drifts, seen, undermined>>

-----------------------------------------------------------------------------
(* The effect of a step, and what the invocation makes of it: "ok", a      *)
(* failure that is "safe" to go on from, or one that is not ("stuck").     *)
Result(i, outcome) == run' = [run EXCEPT ![i].stage = "recording", ![i].outcome = outcome]

PassesUnverified(step, status) ==
    step.action = "absence" => status = "absent"

(* Whether a step that only looks is content with what it sees.            *)
Passes(step, status) ==
    /\ step.verify => status \in Goal[step.action]
    /\ step.action = "absence" => status = "absent"

(* A probe that cannot tell, or any failure on the way to it.              *)
ProbeUnknown(i) ==
    /\ Saw(i, At(i).resource, "unknown")
    /\ Result(i, "stuck")
    /\ UNCHANGED service

(* Steps that mutate a Service that is not where they want it.             *)
Mutates(i) ==
    /\ ~At(i).verify
    /\ At(i).action \in DOMAIN Goal
    /\ service[At(i).resource] \notin Goal[At(i).action]

(* Steps that look, and mutations that find their goal already reached.    *)
LookOnly(i) ==
    LET s == At(i).resource IN
    /\ ~Mutates(i)
    /\ Saw(i, s, service[s])
    /\ Result(i, IF Passes(At(i), service[s]) THEN "ok" ELSE "stuck")
    /\ UNCHANGED service

(* The adapter leaves the Service in any state.  If it reports success the *)
(* state is observed again; its failures may be safe or not.               *)
Mutate(i) ==
    LET s == At(i).resource IN
    /\ Mutates(i)
    /\ \E left \in ServiceStatus :
          /\ service' = [service EXCEPT ![s] = left]
          /\ \/ \E again \in {left, "unknown"} :
                   /\ Saw(i, s, again)
                   /\ Result(i, IF again \in Goal[At(i).action] THEN "ok" ELSE "stuck")
             \/ \E outcome \in {"safe", "stuck"} :
                   Saw(i, s, service[s]) /\ Result(i, outcome)

(* _service_step, for which the Worktree must be there.                    *)
ServiceStep(i) ==
    /\ run[i].stage = "effect"
    /\ At(i).resource # "worktree"
    /\ worktree = "present"
    /\ ProbeUnknown(i) \/ LookOnly(i) \/ Mutate(i)
    /\ UNCHANGED <<workspace, operations, holder, worktree, drifts, undermined>>

(* _fresh_services(state="deleted").                                       *)
Fresh == \A s \in Service : service[s] = "absent"

Barrier(i) ==
    /\ \/ /\ Fresh
          /\ seen' = [s \in Service |-> [by |-> i, status |-> service[s]]]
          /\ Result(i, "ok")
       \/ \E s \in Service :
             /\ Saw(i, s, IF service[s] = "absent" THEN "unknown" ELSE service[s])
             /\ Result(i, "stuck")
    /\ UNCHANGED worktree

(* delete_owned_worktree and the look after it: a dirty or unowned         *)
(* Worktree stays, and an error may also follow the removal.               *)
RemoveWorktree(i) ==
    /\ \/ worktree' = "absent" /\ \E outcome \in {"ok", "stuck"} : Result(i, outcome)
       \/ worktree' = worktree /\ Result(i, "stuck")
    /\ UNCHANGED seen

LookAtWorktree(i) ==
    /\ Result(i, CASE At(i).action \in {"forget", "ownership"} -> "ok"
                   [] At(i).action = "absence" -> IF worktree = "absent" THEN "ok" ELSE "stuck"
                   [] OTHER -> IF worktree = "present" THEN "ok" ELSE "stuck")
    /\ UNCHANGED <<worktree, seen>>

WorktreeStep(i) ==
    /\ run[i].stage = "effect"
    /\ At(i).resource = "worktree"
    /\ CASE At(i).action = "barrier" -> Barrier(i)
         [] At(i).action = "delete" -> RemoveWorktree(i)
         [] OTHER -> LookAtWorktree(i)
    /\ UNCHANGED <<workspace, operations, holder, service, drifts, undermined>>

-----------------------------------------------------------------------------
(* finish_operation_step of a step that succeeded.                         *)
Record(i) ==
    /\ run[i].stage = "recording"
    /\ run[i].outcome = "ok"
    /\ Marked(i, "completed")
    /\ run' = [run EXCEPT ![i] = Advance(i)]
    /\ UNCHANGED <<workspace, holder, worktree, service, drifts, seen, undermined>>

(* Independent cleanup goes on after a safe failure, for delete by force.  *)
GoesOn(i) ==
    /\ At(i).action \in {"stop", "delete"}
    /\ run[i].outcome = "safe"
    /\ run[i].command = "delete" => run[i].force

(* finish_operation_step of a Service step that failed.                    *)
RecordFailure(i) ==
    /\ run[i].stage = "recording"
    /\ run[i].outcome # "ok"
    /\ At(i).resource # "worktree"
    /\ Marked(i, "failed")
    /\ run' = [run EXCEPT ![i] =
                  IF ~GoesOn(i) THEN Blame(i, At(i).action)
                  ELSE [Advance(i) EXCEPT !.failed = @ \cup {At(i).resource},
                                          !.blame = IF @ = "none" THEN At(i).action ELSE @]]
    /\ UNCHANGED <<workspace, holder, worktree, service, drifts, seen, undermined>>

(* The step an error is blamed on: the one the loop is at or ended with.   *)
LastAction(i) ==
    CASE run[i].stage = "begun" -> IF run[i].command = "restart" THEN "stop" ELSE run[i].command
      [] run[i].stage = "stepping" /\ ~MoreSteps(i) -> Last(Steps(i)).action
      [] OTHER -> At(i).action

(* A Worktree step that failed, or any error in a transaction or between   *)
(* two, that of finish_operation_step after an effect included: the        *)
(* running step is settled by finish_lifecycle.                            *)
Fails(i) ==
    /\ run[i].stage \in {"begun", "stepping", "effect", "recording"}
    /\ run' = [run EXCEPT ![i] = Blame(i, LastAction(i))]
    /\ UNCHANGED <<workspace, operations, holder, worktree, service, drifts, seen, undermined>>

FailedStateOfAction(i) == run[i].blame \o "_failed"

FailedStateUnmoved(i) == run[i].base.state

FailedState(i) ==
    CASE run[i].command = "delete" -> "delete_failed"
      [] run[i].command = "forget" -> run[i].base.state
      [] OTHER -> IF run[i].blame = "start" THEN "start_failed" ELSE "stop_failed"

(* finish_lifecycle(error=...): a new version, and the lease is free.      *)
FinishFailed(i) ==
    /\ run[i].stage = "failing"
    /\ workspace' = [workspace EXCEPT !.state = FailedState(i), !.version = @ + 1]
    /\ operations' = [operations EXCEPT ![run[i].op].status = "failed",
                                        ![run[i].op].steps = Settled(@, "failed")]
    /\ holder' = NoOne
    /\ run' = [run EXCEPT ![i] = Finished]
    /\ UNCHANGED <<worktree, service, drifts, seen, undermined>>

(* finish_lifecycle: the success state, once every step is behind.         *)
Commit(i) ==
    /\ run[i].stage = "stepping"
    /\ run[i].at > Len(Steps(i))
    /\ run[i].failed = {}
    /\ workspace' = [workspace EXCEPT
                        !.state = SuccessState(run[i].command, run[i].base.state),
                        !.version = @ + 1, !.forgotten = run[i].command = "forget"]
    /\ operations' = [operations EXCEPT ![run[i].op].status = "completed"]
    /\ holder' = NoOne
    /\ run' = [run EXCEPT ![i] = Finished]
    /\ UNCHANGED <<worktree, service, drifts, seen, undermined>>

-----------------------------------------------------------------------------
(* Others: Services change by themselves, or by hand, and so may the       *)
(* Worktree.                                                               *)

(* A barrier is on record, or was when some command read its snapshot.     *)
BarrierPassed ==
    \/ \E o \in Operation : Recorded(operations[o].steps, "barrier", "worktree", {"completed"})
    \/ \E i \in Invocation : run[i].stage \in Bound /\ run[i].base.receipt

Drift(s) ==
    /\ drifts < MaxDrift
    /\ \E status \in ServiceStatus \ {service[s]} :
          service' = [service EXCEPT ![s] = status]
    /\ drifts' = drifts + 1
    /\ UNCHANGED <<workspace, operations, holder, run, worktree, seen, undermined>>

WorktreeVanishes ==
    /\ WorktreeMayVanish
    /\ worktree = "present"
    /\ worktree' = "absent"
    /\ undermined' = (undermined \/ BarrierPassed)
    /\ UNCHANGED <<workspace, operations, holder, run, service, drifts, seen>>

Operate(i) ==
    \/ \E command \in Commands, force \in BOOLEAN : Plan(i, command, force)
    \/ Acquire(i) \/ TurnedAway(i) \/ Recheck(i) \/ LetGo(i) \/ Vanish(i)
    \/ Begin(i) \/ Survey(i) \/ Skip(i) \/ Halt(i) \/ StartStep(i)
    \/ ServiceStep(i) \/ WorktreeStep(i)
    \/ Record(i) \/ RecordFailure(i) \/ Fails(i) \/ FinishFailed(i) \/ Commit(i)

Next ==
    \/ \E i \in Invocation : Operate(i)
    \/ \E s \in Service : Drift(s)
    \/ WorktreeVanishes

Spec == Init /\ [][Next]_vars

-----------------------------------------------------------------------------
(* Properties.                                                             *)

(* The states a command of each kind fails in, and is under way in.        *)
Failing == [start |-> {"start_failed"}, stop |-> {"stop_failed"},
            restart |-> {"stop_failed", "start_failed"}, delete |-> {"delete_failed"}]

Underway == [start |-> {"starting"}, stop |-> {"stopping"},
             restart |-> {"stopping", "starting"}, delete |-> {"deleting"}]

(* At every point, crashes included, the state of the aggregate and the    *)
(* journal's current operation tell the same story: an interrupted command *)
(* shows as under way, a failed one as failed, and never the reverse.      *)
StateMatchesJournal ==
    LET op == operations[workspace.op] IN
    \/ op.kind = "create" /\ ~workspace.forgotten
    \/ op.kind = "forget" /\ (workspace.forgotten <=> op.status = "completed")
    \/ /\ op.kind \in DOMAIN Failing
       /\ \/ op.status = "completed" /\ workspace.state = SuccessState(op.kind, workspace.state)
          \/ op.status = "failed" /\ workspace.state \in Failing[op.kind]
          \/ op.status = "running" /\ workspace.state \in Underway[op.kind]

(* A Workspace is called deleted only when its Worktree is gone.  Every    *)
(* Service was absent when last observed, too - the receipt a resumed      *)
(* delete relies on is not older than what was seen since - unless others  *)
(* removed the Worktree after a barrier had been passed.                   *)
DeletedIsProven ==
    workspace.state = "deleted" =>
        /\ worktree = "absent"
        /\ ~undermined => \A s \in Service : seen[s].status = "absent"

(* Every step of a completed operation is completed - the steps that a     *)
(* resumed delete does not replay among them.                              *)
JournalComplete ==
    \A o \in Invocation :
        operations[o].status = "completed" =>
            \A p \in DOMAIN operations[o].steps : operations[o].steps[p].status = "completed"

(* "the Worktree remains until every Service is freshly proven absent":    *)
(* whoever removes it is the last to have observed each Service, as absent.*)
RemovalAfterBarrier ==
    [][ \A i \in Invocation :
            WorktreeStep(i) /\ worktree' # worktree =>
                \A s \in Service : seen[s] = [by |-> i, status |-> "absent"] ]_vars

(* An attempt has itself started a Service: its start step is behind, and  *)
(* recorded as completed.                                                  *)
HasStarted(i, s) ==
    \E p \in DOMAIN Steps(i) :
        /\ p < run[i].at
        /\ Steps(i)[p].action = "start" /\ Steps(i)[p].resource = s
        /\ Steps(i)[p].status = "completed"

(* "Restart completes stop before any start": no Service is started by a   *)
(* restart that has not itself seen every Service last - down, but for     *)
(* those it has started since, which it saw ready.                         *)
StopsBeforeStarts ==
    [][ \A i \in Invocation :
            /\ run[i].command = "restart"
            /\ run[i].stage = "effect"
            /\ ServiceStep(i)
            /\ Mutates(i)
            /\ At(i).action = "start"
            => \A s \in Service :
                  /\ seen[s].by = i
                  /\ seen[s].status \in
                        IF HasStarted(i, s) THEN {"ready"} ELSE {"stopped", "absent"} ]_vars

(* "ready/stopped transitions require fresh observations of every          *)
(* Resource": a command that succeeds has itself observed every Service    *)
(* last, in the state it declares; a resumed delete relies on observations *)
(* of the attempts it resumes, and others who removed the Worktree after a *)
(* barrier may have made these out of date.                                *)
CommitIsSeen ==
    [][ \A i \in Invocation :
            Commit(i) /\ run[i].command # "forget" =>
                \A s \in Service :
                    /\ seen[s].by = i \/ run[i].resume
                    /\ \/ run[i].resume /\ undermined
                       \/ seen[s].status \in
                             CASE run[i].command = "delete" -> {"absent"}
                               [] run[i].command = "stop" -> {"stopped", "absent"}
                               [] OTHER -> {"ready"} ]_vars

(* Deleted and forgotten Workspaces are never brought back, a failed       *)
(* forget does not undo a deletion, and no operation on a forgotten        *)
(* Workspace begins or ends.  (The running step of an interrupted one may  *)
(* still be found to have an unknown outcome, by a takeover that fails.)   *)
TombstonesStay ==
    [][ /\ workspace.state = "deleted" => workspace'.state = "deleted"
        /\ workspace.forgotten =>
              /\ UNCHANGED workspace
              /\ \A o \in Operation :
                    /\ operations'[o].kind = operations[o].kind
                    /\ operations'[o].status = operations[o].status ]_vars

=============================================================================
