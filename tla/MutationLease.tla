---------------------------- MODULE MutationLease ---------------------------
(***************************************************************************)
(* The Registry's mutation lease for one scope, and the operation journal  *)
(* it fences (src/fangorn/registry.py: acquire_lease, _require_lease,      *)
(* start_operation_step, finish_operation_step, release_lease,             *)
(* fail_create_operation, finish_lifecycle).                               *)
(*                                                                         *)
(* An invocation acquires the lease in two transactions with a probe of    *)
(* the recorded owner between them, outside any transaction.  The Registry *)
(* takes the probe as a callback and must stay safe whatever it answers:   *)
(* here the answer is arbitrary, so a live owner may be taken for dead and *)
(* go on working under a lease it has lost.  InvocationFence adds the      *)
(* callback the program passes in.                                         *)
(*                                                                         *)
(* Each transaction is one action: SQLite runs it under BEGIN IMMEDIATE.   *)
(* The journal keeps the one step of an operation that is in flight;       *)
(* steps of an operation run one after another.                            *)
(***************************************************************************)
EXTENDS Naturals

CONSTANTS Invocation,    \* one command of one process, with its own marker
          Operation,     \* journalled operations of the scope
          OperationOf,   \* the operation an invocation carries out or resumes
          Forgetting,    \* the invocations that acquire with reject_active
          NoOne          \* nobody, or no operation

ASSUME LeaseAssumption ==
    /\ OperationOf \in [Invocation -> Operation]
    /\ Forgetting \subseteq Invocation
    /\ NoOne \notin Invocation
    /\ NoOne \notin Operation

VARIABLES lease,       \* the scope's row in mutation_leases
          version,     \* the scope's aggregate_version
          journal,     \* operation_steps: each operation's in-flight step
          pc,          \* where each invocation is
          inspected,   \* the row an invocation saw before its probe
          verdict,     \* what its probe of the row's owner answered
          epoch        \* the epoch its acquisition returned, 0 before

leaseVars == <<lease, version, journal, pc, inspected, verdict, epoch>>

Verdict == {"live", "dead", "inconclusive"}
Status == {"none", "running", "completed", "failed", "unknown"}
Stage == {"idle", "begun", "probing", "claiming", "holding", "stepping",
          "finishing", "done", "exited", "killed"}

(* The row before the first acquisition: none.                             *)
NoRow == [op |-> NoOne, owner |-> NoOne, epoch |-> 0, version |-> 0, active |-> FALSE]

Row == [op : Operation \cup {NoOne}, owner : Invocation \cup {NoOne},
        epoch : Nat, version : Nat, active : BOOLEAN]

NoStep == [status |-> "none", by |-> NoOne]

LeaseTypeOK ==
    /\ lease \in Row
    /\ version \in Nat
    /\ journal \in [Operation -> [status : Status, by : Invocation \cup {NoOne}]]
    /\ pc \in [Invocation -> Stage]
    /\ inspected \in [Invocation -> Row]
    /\ verdict \in [Invocation -> Verdict \cup {"none"}]
    /\ epoch \in [Invocation -> Nat]

-----------------------------------------------------------------------------
Go(i, stage) == pc' = [pc EXCEPT ![i] = stage]

Alive(i) == pc[i] \notin {"idle", "exited", "killed"}

FencedByOperation(i) ==
    /\ lease.active
    /\ lease.op = OperationOf[i]
    /\ lease.version = version

(* _require_lease: what every mutating transaction checks first.           *)
Fenced(i) ==
    /\ lease.active
    /\ lease.op = OperationOf[i]
    /\ lease.epoch = epoch[i]
    /\ lease.version = version

SettledNothing(o, status) == journal

(* operation_steps of operation o, its running step turned into status.    *)
Settled(o, status) ==
    [p \in Operation |->
        IF p = o /\ journal[p].status = "running"
        THEN [journal[p] EXCEPT !.status = status]
        ELSE journal[p]]

(* The row an acquisition writes: the next epoch, the current version.     *)
ClaimedRowBackwards(i) ==
    [op |-> OperationOf[i], owner |-> i, epoch |-> lease.epoch - 1,
     version |-> version, active |-> TRUE]

ClaimedRowSameEpoch(i) ==
    [op |-> OperationOf[i], owner |-> i, epoch |-> IF lease.active THEN lease.epoch ELSE lease.epoch + 1,
     version |-> version, active |-> TRUE]

ClaimedRowOldVersion(i) ==
    [op |-> OperationOf[i], owner |-> i, epoch |-> lease.epoch + 1,
     version |-> lease.version, active |-> TRUE]

ClaimedRow(i) ==
    [op |-> OperationOf[i], owner |-> i, epoch |-> lease.epoch + 1,
     version |-> version, active |-> TRUE]

(* The row a release leaves.                                               *)
Free == [lease EXCEPT !.active = FALSE]

-----------------------------------------------------------------------------
LeaseInit ==
    /\ lease = NoRow
    /\ version = 0
    /\ journal = [o \in Operation |-> NoStep]
    /\ pc = [i \in Invocation |-> "idle"]
    /\ inspected = [i \in Invocation |-> NoRow]
    /\ verdict = [i \in Invocation |-> "none"]
    /\ epoch = [i \in Invocation |-> 0]

(* The invocation has an identity to put in the row's owner columns.       *)
Begin(i) ==
    /\ pc[i] = "idle"
    /\ Go(i, "begun")
    /\ UNCHANGED <<lease, version, journal, inspected, verdict, epoch>>

(* acquire_lease, first transaction: read the row.                         *)
Inspect(i) ==
    /\ pc[i] = "begun"
    /\ inspected' = [inspected EXCEPT ![i] = lease]
    /\ Go(i, IF lease.active THEN "probing" ELSE "claiming")
    /\ UNCHANGED <<lease, version, journal, verdict, epoch>>

(* acquire_lease, between its transactions: ask about the row's owner.     *)
Probe(i, answer) ==
    /\ pc[i] = "probing"
    /\ verdict' = [verdict EXCEPT ![i] = answer]
    /\ Go(i, "claiming")
    /\ UNCHANGED <<lease, version, journal, inspected, epoch>>

MayClaimUnchecked(i) ==
    /\ ~(i \in Forgetting /\ lease.active)
    /\ lease.active => verdict[i] = "dead"

(* acquire_lease, second transaction: refused if forget meets an active    *)
(* lease, the row changed during the probe, or its owner is not dead.      *)
MayClaim(i) ==
    /\ ~(i \in Forgetting /\ lease.active)
    /\ inspected[i] = lease
    /\ lease.active => verdict[i] = "dead"

Refused(i) ==
    /\ pc[i] = "claiming"
    /\ ~MayClaim(i)
    /\ Go(i, "finishing")
    /\ UNCHANGED <<lease, version, journal, inspected, verdict, epoch>>

(* The same transaction, granted: the next epoch, the owner and the        *)
(* current version go into the row; a step that a superseded owner left    *)
(* running has an unknown outcome.                                         *)
Granted(i) ==
    /\ pc[i] = "claiming"
    /\ MayClaim(i)
    /\ lease' = ClaimedRow(i)
    /\ epoch' = [epoch EXCEPT ![i] = ClaimedRow(i).epoch]
    /\ journal' = IF lease.active THEN Settled(lease.op, "unknown") ELSE journal
    /\ Go(i, "holding")
    /\ UNCHANGED <<version, inspected, verdict>>

(* start_operation_step: the step runs again whatever its last outcome.    *)
StartStep(i) ==
    /\ pc[i] = "holding"
    /\ Fenced(i)
    /\ journal' = [journal EXCEPT ![OperationOf[i]] = [status |-> "running", by |-> i]]
    /\ Go(i, "stepping")
    /\ UNCHANGED <<lease, version, inspected, verdict, epoch>>

(* finish_operation_step: only a running step takes an outcome.            *)
FinishStep(i, outcome) ==
    /\ pc[i] = "stepping"
    /\ Fenced(i)
    /\ journal[OperationOf[i]].status = "running"
    /\ journal' = [journal EXCEPT ![OperationOf[i]].status = outcome]
    /\ Go(i, "holding")
    /\ UNCHANGED <<lease, version, inspected, verdict, epoch>>

(* complete_workspace_create and finish_lifecycle(error=None): the         *)
(* terminal state, the next version and the release in one transaction.    *)
Complete(i) ==
    /\ pc[i] = "holding"
    /\ Fenced(i)
    /\ version' = version + 1
    /\ lease' = Free
    /\ Go(i, "finishing")
    /\ UNCHANGED <<journal, inspected, verdict, epoch>>

(* finish_lifecycle(error=...): a running step failed; a new version.      *)
FailLifecycle(i) ==
    /\ pc[i] \in {"holding", "stepping"}
    /\ Fenced(i)
    /\ version' = version + 1
    /\ lease' = Free
    /\ journal' = Settled(OperationOf[i], "failed")
    /\ Go(i, "finishing")
    /\ UNCHANGED <<inspected, verdict, epoch>>

(* fail_create_operation: a running step is unknown; the version stays.    *)
FailCreate(i) ==
    /\ pc[i] \in {"holding", "stepping"}
    /\ Fenced(i)
    /\ lease' = Free
    /\ journal' = Settled(OperationOf[i], "unknown")
    /\ Go(i, "finishing")
    /\ UNCHANGED <<version, inspected, verdict, epoch>>

(* release_lease: no new version, and the journal is left as it is (the    *)
(* fast path of a repeated command, a failure before begin_lifecycle, an   *)
(* interrupt in the middle of a step, the Repository scope).               *)
Release(i) ==
    /\ pc[i] \in {"holding", "stepping"}
    /\ Fenced(i)
    /\ lease' = Free
    /\ Go(i, "finishing")
    /\ UNCHANGED <<version, journal, inspected, verdict, epoch>>

(* GitQuiescenceError: the invocation ends without giving the lease up.    *)
Retain(i) ==
    /\ pc[i] \in {"holding", "stepping"}
    /\ Go(i, "finishing")
    /\ UNCHANGED <<lease, version, journal, inspected, verdict, epoch>>

(* Every mutation of a superseded invocation fails at _require_lease, its  *)
(* error handler's own mutations included: it ends changing nothing.       *)
Rejected(i) ==
    /\ pc[i] \in {"holding", "stepping"}
    /\ ~Fenced(i)
    /\ Go(i, "finishing")
    /\ UNCHANGED <<lease, version, journal, inspected, verdict, epoch>>

(* _finish_invocation: the command returns; its process may live on.       *)
Finish(i) ==
    /\ pc[i] = "finishing"
    /\ Go(i, "done")
    /\ UNCHANGED <<lease, version, journal, inspected, verdict, epoch>>

(* Processes exit, or are killed at any point, all of them if the host     *)
(* goes down.                                                              *)
Die(ends) ==
    /\ ends # {}
    /\ \A i \in ends : Alive(i)
    /\ pc' = [i \in Invocation |->
                IF i \notin ends THEN pc[i]
                ELSE IF pc[i] = "done" THEN "exited" ELSE "killed"]
    /\ UNCHANGED <<lease, version, journal, inspected, verdict, epoch>>

Stepping(i) == \E outcome \in {"completed", "failed"} : FinishStep(i, outcome)

LeaseNext ==
    \/ \E i \in Invocation :
          \/ Begin(i) \/ Inspect(i)
          \/ \E answer \in Verdict : Probe(i, answer)
          \/ Refused(i) \/ Granted(i)
          \/ StartStep(i) \/ Stepping(i)
          \/ Complete(i) \/ FailLifecycle(i) \/ FailCreate(i) \/ Release(i)
          \/ Retain(i) \/ Rejected(i) \/ Finish(i)
    \/ \E ends \in SUBSET Invocation : Die(ends)

LeaseSpec == LeaseInit /\ [][LeaseNext]_leaseVars

-----------------------------------------------------------------------------
(* Properties.                                                             *)

(* Only the invocation named in the row passes the fence.  The fence itself *)
(* never looks at the owner: it compares operation and epoch, and a resumed *)
(* operation has several invocations under one operation id.                *)
FenceNamesOwner == \A i \in Invocation : Fenced(i) => lease.owner = i

(* The aggregate version recorded at acquisition is current for as long as  *)
(* the lease is active: the version half of the fence never turns away the  *)
(* rightful holder.                                                         *)
VersionKept == lease.active => lease.version = version

(* Whoever passes the fence in the middle of a step still finds that step   *)
(* running and started by itself: its outcome cannot land on a step that a  *)
(* takeover wrote off or a successor restarted, and finish_operation_step   *)
(* never reports the step of the rightful holder as unavailable.            *)
StepKeptByFence ==
    \A i \in Invocation :
        Fenced(i) /\ pc[i] = "stepping" =>
            journal[OperationOf[i]] = [status |-> "running", by |-> i]

(* A lease that changes hands, or is activated again, has a larger epoch.   *)
EpochsGrow ==
    [][ lease'.owner # lease.owner \/ (lease'.active /\ ~lease.active)
            => lease'.epoch > lease.epoch ]_leaseVars

(* The lease implements the single writer: the active row's owner writes.   *)
Writer ==
    INSTANCE SingleWriter WITH
        writer <- IF lease.active THEN lease.owner ELSE NoOne,
        writing <- lease.op,
        term <- lease.epoch

ImplementsSingleWriter == Writer!Promise
=============================================================================
