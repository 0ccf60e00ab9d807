------------------------- MODULE MutationLeaseProofs ------------------------
(***************************************************************************)
(* Proofs about the mutation lease for any set of invocations and          *)
(* operations, whatever owner probes answer.                               *)
(*                                                                         *)
(* The fence compares an operation and an epoch and never the owner.  That *)
(* it nevertheless singles out the owner rests on epochs: no invocation    *)
(* has an epoch above the row's, and only the owner has the row's          *)
(* (EpochOfOwner).  Everything else follows from that.                     *)
(***************************************************************************)
EXTENDS MutationLease, TLAPS

EpochOfOwner ==
    \A i \in Invocation :
        /\ epoch[i] =< lease.epoch
        /\ epoch[i] # 0 /\ epoch[i] = lease.epoch => lease.owner = i

ActiveRow ==
    lease.active =>
        /\ lease.owner \in Invocation
        /\ lease.op = OperationOf[lease.owner]
        /\ lease.epoch # 0

LeaseInv ==
    /\ LeaseTypeOK
    /\ EpochOfOwner
    /\ ActiveRow
    /\ VersionKept
    /\ StepKeptByFence

USE LeaseAssumption

-----------------------------------------------------------------------------
(* The fence singles out the owner because epochs do.                      *)
LEMMA OwnerFromEpoch ==
    ASSUME EpochOfOwner, ActiveRow PROVE FenceNamesOwner
BY DEF EpochOfOwner, ActiveRow, FenceNamesOwner, Fenced

LEMMA SettledType ==
    ASSUME LeaseTypeOK, NEW o, NEW status \in Status
    PROVE  Settled(o, status) \in [Operation -> [status : Status, by : Invocation \cup {NoOne}]]
BY DEF LeaseTypeOK, Settled

LEMMA FreeType ==
    ASSUME LeaseTypeOK PROVE Free \in Row
BY DEF LeaseTypeOK, Free, Row

(* Every transaction and every step between transactions keeps the types.  *)
LEMMA TypeStep ==
    ASSUME LeaseTypeOK, [LeaseNext]_leaseVars PROVE LeaseTypeOK'
<1> USE DEF LeaseTypeOK, Go, Status, Stage, Verdict
<1>1. ASSUME NEW i \in Invocation, Begin(i) PROVE LeaseTypeOK'
  BY <1>1 DEF Begin
<1>2. ASSUME NEW i \in Invocation, Inspect(i) PROVE LeaseTypeOK'
  BY <1>2 DEF Inspect
<1>3. ASSUME NEW i \in Invocation, NEW answer \in Verdict, Probe(i, answer)
      PROVE LeaseTypeOK'
  BY <1>3 DEF Probe
<1>4. ASSUME NEW i \in Invocation, Refused(i) PROVE LeaseTypeOK'
  BY <1>4 DEF Refused
<1>5. ASSUME NEW i \in Invocation, Granted(i) PROVE LeaseTypeOK'
  <2>1. lease' \in Row /\ epoch' \in [Invocation -> Nat]
    BY <1>5 DEF Granted, ClaimedRow, Row
  <2>2. journal' \in [Operation -> [status : Status, by : Invocation \cup {NoOne}]]
    BY <1>5, SettledType DEF Granted
  <2> QED BY <1>5, <2>1, <2>2 DEF Granted
<1>6. ASSUME NEW i \in Invocation, StartStep(i) PROVE LeaseTypeOK'
  BY <1>6 DEF StartStep
<1>7. ASSUME NEW i \in Invocation, Stepping(i) PROVE LeaseTypeOK'
  BY <1>7 DEF Stepping, FinishStep
<1>8. ASSUME NEW i \in Invocation, Complete(i) PROVE LeaseTypeOK'
  BY <1>8, FreeType DEF Complete
<1>9. ASSUME NEW i \in Invocation, FailLifecycle(i) PROVE LeaseTypeOK'
  <2>1. Settled(OperationOf[i], "failed") \in [Operation -> [status : Status, by : Invocation \cup {NoOne}]]
    BY SettledType
  <2> QED BY <1>9, <2>1, FreeType DEF FailLifecycle
<1>10. ASSUME NEW i \in Invocation, FailCreate(i) PROVE LeaseTypeOK'
  <2>1. Settled(OperationOf[i], "unknown") \in [Operation -> [status : Status, by : Invocation \cup {NoOne}]]
    BY SettledType
  <2> QED BY <1>10, <2>1, FreeType DEF FailCreate
<1>11. ASSUME NEW i \in Invocation, Release(i) PROVE LeaseTypeOK'
  BY <1>11, FreeType DEF Release
<1>12. ASSUME NEW i \in Invocation, Retain(i) \/ Rejected(i) \/ Finish(i)
       PROVE LeaseTypeOK'
  BY <1>12 DEF Retain, Rejected, Finish
<1>13. ASSUME NEW ends \in SUBSET Invocation, Die(ends) PROVE LeaseTypeOK'
  BY <1>13 DEF Die
<1>14. CASE UNCHANGED leaseVars
  BY <1>14 DEF leaseVars
<1> QED
  BY <1>1, <1>2, <1>3, <1>4, <1>5, <1>6, <1>7, <1>8, <1>9, <1>10, <1>11,
     <1>12, <1>13, <1>14 DEF LeaseNext
-----------------------------------------------------------------------------
LEMMA InitInv == ASSUME LeaseInit PROVE LeaseInv
BY DEF LeaseInit, LeaseInv, LeaseTypeOK, EpochOfOwner, ActiveRow, VersionKept,
       StepKeptByFence, NoRow, NoStep, Row, Status, Stage, Verdict, Fenced

(* An acquisition installs its invocation under an epoch nobody else has.  *)
LEMMA GrantedKeeps ==
    ASSUME LeaseInv, NEW j \in Invocation, Granted(j)
    PROVE  EpochOfOwner' /\ ActiveRow' /\ VersionKept' /\ StepKeptByFence'
<1> USE DEF LeaseInv
<1>1. /\ lease' = ClaimedRow(j)
      /\ lease'.epoch = lease.epoch + 1
      /\ lease'.owner = j
      /\ lease'.op = OperationOf[j]
      /\ lease'.version = version
      /\ epoch' = [epoch EXCEPT ![j] = lease.epoch + 1]
  BY DEF Granted, ClaimedRow
<1>2. lease.epoch \in Nat /\ epoch \in [Invocation -> Nat]
  BY DEF LeaseTypeOK, Row
<1>3. EpochOfOwner'
  BY <1>1, <1>2 DEF EpochOfOwner
<1>4. ActiveRow'
  BY <1>1, <1>2 DEF ActiveRow
<1>5. VersionKept'
  BY <1>1 DEF VersionKept, Granted
<1>6. StepKeptByFence'
  <2> SUFFICES ASSUME NEW i \in Invocation, Fenced(i)', pc'[i] = "stepping"
               PROVE  FALSE
    BY DEF StepKeptByFence
  <2>1. i = j
    BY <1>1, <1>3, <1>4, OwnerFromEpoch DEF Fenced, EpochOfOwner, ActiveRow
  <2> QED BY <2>1 DEF Granted, Go, LeaseTypeOK
<1> QED BY <1>3, <1>4, <1>5, <1>6

(* A transaction that keeps the row's epoch, owner and operation, and frees *)
(* it or leaves it as it is, keeps who passes the fence.                   *)
LEMMA RowKeeps ==
    ASSUME LeaseInv,
           lease' = lease \/ lease' = Free,
           epoch' = epoch,
           lease'.active => version' = version
    PROVE  EpochOfOwner' /\ ActiveRow' /\ VersionKept'
           /\ \A i \in Invocation : Fenced(i)' => Fenced(i)
<1>1. /\ lease'.epoch = lease.epoch
      /\ lease'.owner = lease.owner
      /\ lease'.op = lease.op
      /\ lease'.version = lease.version
      /\ lease'.active => lease.active
  BY DEF LeaseInv, LeaseTypeOK, Row, Free
<1>2. EpochOfOwner' /\ ActiveRow'
  BY <1>1 DEF LeaseInv, EpochOfOwner, ActiveRow
<1>3. VersionKept'
  BY <1>1 DEF LeaseInv, VersionKept
<1>4. \A i \in Invocation : Fenced(i)' => Fenced(i)
  BY <1>1 DEF Fenced
<1> QED BY <1>2, <1>3, <1>4

(* Steps are started and finished by whoever passes the fence.             *)
LEMMA StepsKept ==
    ASSUME LeaseInv, NEW j \in Invocation, StartStep(j) \/ Stepping(j)
    PROVE  EpochOfOwner' /\ ActiveRow' /\ VersionKept' /\ StepKeptByFence'
<1>1. lease' = lease /\ epoch' = epoch /\ version' = version /\ Fenced(j)
  BY DEF StartStep, Stepping, FinishStep
<1>2. EpochOfOwner' /\ ActiveRow' /\ VersionKept'
      /\ \A i \in Invocation : Fenced(i)' => Fenced(i)
  BY <1>1, RowKeeps
<1>3. StepKeptByFence'
  <2> SUFFICES ASSUME NEW i \in Invocation, Fenced(i)', pc'[i] = "stepping"
               PROVE  journal'[OperationOf[i]] = [status |-> "running", by |-> i]
    BY DEF StepKeptByFence
  <2>1. i = j
    BY <1>1, <1>2, OwnerFromEpoch DEF LeaseInv, FenceNamesOwner
  <2>2. OperationOf[i] \in Operation
    OBVIOUS
  <2>3. CASE StartStep(j)
    BY <2>1, <2>2, <2>3 DEF StartStep, LeaseInv, LeaseTypeOK
  <2>4. CASE Stepping(j)
    BY <2>1, <2>4 DEF Stepping, FinishStep, Go, LeaseInv, LeaseTypeOK
  <2> QED BY <2>3, <2>4
<1> QED BY <1>2, <1>3

(* Every transaction that frees the row.                                   *)
Ending(j) ==
    \/ Complete(j) \/ FailLifecycle(j) \/ FailCreate(j) \/ Release(j)

LEMMA EndingKeeps ==
    ASSUME LeaseInv, NEW j \in Invocation, Ending(j)
    PROVE  EpochOfOwner' /\ ActiveRow' /\ VersionKept' /\ StepKeptByFence'
<1>1. lease' = Free /\ epoch' = epoch
  BY DEF Ending, Complete, FailLifecycle, FailCreate, Release
<1>2. ~lease'.active
  BY <1>1 DEF Free, LeaseInv, LeaseTypeOK, Row
<1>3. EpochOfOwner' /\ ActiveRow' /\ VersionKept'
  BY <1>1, <1>2, RowKeeps
<1>4. StepKeptByFence'
  BY <1>2 DEF StepKeptByFence, Fenced
<1> QED BY <1>3, <1>4

LEMMA QuietKeeps ==
    ASSUME LeaseInv,
           UNCHANGED <<lease, version, journal, epoch>>,
           \A i \in Invocation : pc'[i] = "stepping" => pc[i] = "stepping"
    PROVE  EpochOfOwner' /\ ActiveRow' /\ VersionKept' /\ StepKeptByFence'
<1>1. EpochOfOwner' /\ ActiveRow' /\ VersionKept'
      /\ \A i \in Invocation : Fenced(i)' => Fenced(i)
  BY RowKeeps
<1> QED BY <1>1 DEF LeaseInv, StepKeptByFence

LEMMA InvStep ==
    ASSUME LeaseInv, [LeaseNext]_leaseVars PROVE LeaseInv'
<1>0. LeaseTypeOK'
  BY TypeStep DEF LeaseInv
<1> SUFFICES EpochOfOwner' /\ ActiveRow' /\ VersionKept' /\ StepKeptByFence'
  BY <1>0 DEF LeaseInv
<1>1. ASSUME NEW j \in Invocation, Granted(j)
      PROVE  EpochOfOwner' /\ ActiveRow' /\ VersionKept' /\ StepKeptByFence'
  BY <1>1, GrantedKeeps
<1>2. ASSUME NEW j \in Invocation, StartStep(j) \/ Stepping(j)
      PROVE  EpochOfOwner' /\ ActiveRow' /\ VersionKept' /\ StepKeptByFence'
  BY <1>2, StepsKept
<1>3. ASSUME NEW j \in Invocation, Ending(j)
      PROVE  EpochOfOwner' /\ ActiveRow' /\ VersionKept' /\ StepKeptByFence'
  BY <1>3, EndingKeeps
<1>4. ASSUME NEW j \in Invocation,
             \/ Begin(j) \/ Inspect(j) \/ \E answer \in Verdict : Probe(j, answer)
             \/ Refused(j) \/ Retain(j) \/ Rejected(j) \/ Finish(j)
      PROVE  EpochOfOwner' /\ ActiveRow' /\ VersionKept' /\ StepKeptByFence'
  <2>1. /\ UNCHANGED <<lease, version, journal, epoch>>
        /\ \A i \in Invocation : pc'[i] = "stepping" => pc[i] = "stepping"
    BY <1>4 DEF Begin, Inspect, Probe, Refused, Retain, Rejected, Finish, Go,
                LeaseInv, LeaseTypeOK
  <2> QED BY <2>1, QuietKeeps
<1>5. ASSUME NEW ends \in SUBSET Invocation, Die(ends)
      PROVE  EpochOfOwner' /\ ActiveRow' /\ VersionKept' /\ StepKeptByFence'
  <2>1. /\ UNCHANGED <<lease, version, journal, epoch>>
        /\ \A i \in Invocation : pc'[i] = "stepping" => pc[i] = "stepping"
    BY <1>5 DEF Die
  <2> QED BY <2>1, QuietKeeps
<1>6. CASE UNCHANGED leaseVars
  BY <1>6, QuietKeeps DEF leaseVars
<1> QED
  BY <1>1, <1>2, <1>3, <1>4, <1>5, <1>6 DEF LeaseNext, Ending

(* The inductive invariant: types, who has which epoch, what an active row *)
(* names, and the three safety properties.                                 *)
THEOREM LeaseInvariant == LeaseSpec => []LeaseInv
<1>1. LeaseInit => LeaseInv
  BY InitInv
<1>2. LeaseInv /\ [LeaseNext]_leaseVars => LeaseInv'
  BY InvStep
<1> QED BY <1>1, <1>2, PTL DEF LeaseSpec

(* Only the owner in the row passes the fence; a superseded invocation is  *)
(* turned away however long it goes on and whoever resumed its operation.  *)
THEOREM FenceSafety == LeaseSpec => []FenceNamesOwner
<1>1. LeaseInv => FenceNamesOwner
  BY OwnerFromEpoch DEF LeaseInv
<1> QED BY <1>1, LeaseInvariant, PTL

(* An outcome is only ever recorded on a step its recorder started.        *)
THEOREM StepSafety == LeaseSpec => []StepKeptByFence
<1>1. LeaseInv => StepKeptByFence
  BY DEF LeaseInv
<1> QED BY <1>1, LeaseInvariant, PTL

(* The rightful holder never fails the aggregate-version comparison.       *)
THEOREM VersionSafety == LeaseSpec => []VersionKept
<1>1. LeaseInv => VersionKept
  BY DEF LeaseInv
<1> QED BY <1>1, LeaseInvariant, PTL

(* A change of hands always comes with a larger epoch.                     *)
LEMMA EpochStep ==
    ASSUME LeaseInv, LeaseNext,
           lease'.owner # lease.owner \/ (lease'.active /\ ~lease.active)
    PROVE  lease'.epoch > lease.epoch
<1>1. ASSUME NEW j \in Invocation, Granted(j) PROVE lease'.epoch > lease.epoch
  BY <1>1 DEF Granted, ClaimedRow, LeaseInv, LeaseTypeOK, Row
<1>2. ASSUME NEW j \in Invocation, Ending(j) PROVE FALSE
  <2>1. lease' = Free
    BY <1>2 DEF Ending, Complete, FailLifecycle, FailCreate, Release
  <2> QED BY <2>1 DEF Free, LeaseInv, LeaseTypeOK, Row
<1>3. lease' # lease
  OBVIOUS
<1> QED
  BY <1>1, <1>2, <1>3 DEF LeaseNext, Ending, Begin, Inspect, Probe, Refused,
     StartStep, Stepping, FinishStep, Retain, Rejected, Finish, Die

THEOREM EpochSafety == LeaseSpec => EpochsGrow
<1>1. LeaseInv /\ [LeaseNext]_leaseVars =>
        [ lease'.owner # lease.owner \/ (lease'.active /\ ~lease.active)
            => lease'.epoch > lease.epoch ]_leaseVars
  BY EpochStep
<1> QED BY <1>1, LeaseInvariant, PTL DEF LeaseSpec, EpochsGrow
-----------------------------------------------------------------------------
(* Refinement.  The writer of the abstract scope is the owner of an active *)
(* row.                                                                    *)
LEMMA InstallStep ==
    ASSUME LeaseInv, NEW j \in Invocation, Granted(j) PROVE Writer!Install(j)
<1>1. /\ lease'.owner = j /\ lease'.op = OperationOf[j] /\ lease'.active
      /\ lease'.epoch = lease.epoch + 1
  BY DEF Granted, ClaimedRow
<1>2. (IF lease.active THEN lease.owner ELSE NoOne) = NoOne <=> ~lease.active
  BY DEF LeaseInv, ActiveRow
<1>3. journal' = IF lease.active THEN Writer!WrittenOff(lease.op, "unknown") ELSE journal
  BY DEF Granted, Settled, Writer!WrittenOff
<1> QED BY <1>1, <1>2, <1>3 DEF Writer!Install

LEMMA RecordStep ==
    ASSUME LeaseInv, NEW j \in Invocation, StartStep(j) \/ Stepping(j)
    PROVE  Writer!Record(j)
<1>1. /\ Fenced(j) /\ lease.active /\ UNCHANGED lease
  BY DEF StartStep, Stepping, FinishStep, Fenced
<1>2. lease.owner = j
  BY <1>1, OwnerFromEpoch DEF LeaseInv, FenceNamesOwner
<1>3. CASE StartStep(j)
  BY <1>1, <1>2, <1>3 DEF StartStep, Writer!Record
<1>4. ASSUME NEW outcome \in {"completed", "failed"}, FinishStep(j, outcome)
      PROVE  Writer!Record(j)
  <2>1. journal[OperationOf[j]] = [status |-> "running", by |-> j]
    BY <1>1, <1>4 DEF FinishStep, LeaseInv, StepKeptByFence
  <2>2. [journal[OperationOf[j]] EXCEPT !.status = outcome] = [status |-> outcome, by |-> j]
    BY <2>1
  <2>3. journal' = [journal EXCEPT ![OperationOf[j]] = [status |-> outcome, by |-> j]]
    BY <1>4, <2>2 DEF FinishStep
  <2> QED BY <1>1, <1>2, <2>1, <2>3 DEF Writer!Record
<1> QED BY <1>3, <1>4 DEF Stepping

LEMMA LeaveStep ==
    ASSUME LeaseInv, NEW j \in Invocation, Ending(j) PROVE Writer!Leave(j)
<1>1. /\ Fenced(j) /\ lease' = Free
  BY DEF Ending, Complete, FailLifecycle, FailCreate, Release
<1>2. /\ lease.active /\ lease.owner = j
      /\ ~lease'.active /\ lease'.op = lease.op /\ lease'.epoch = lease.epoch
  BY <1>1, OwnerFromEpoch DEF Free, Fenced, LeaseInv, LeaseTypeOK, Row, FenceNamesOwner
<1>3. \/ UNCHANGED journal
      \/ \E status \in {"failed", "unknown"} :
            journal' = Writer!WrittenOff(OperationOf[j], status)
  BY DEF Ending, Complete, FailLifecycle, FailCreate, Release, Settled, Writer!WrittenOff
<1> QED BY <1>2, <1>3 DEF Writer!Leave

(* The lease keeps the promise of a single writer.                         *)
THEOREM SingleWriterRefinement == LeaseSpec => ImplementsSingleWriter
<1>1. LeaseInit => Writer!PromiseInit
  BY DEF LeaseInit, NoRow, NoStep, Writer!PromiseInit, Writer!NoStep
<1>2. LeaseInv /\ [LeaseNext]_leaseVars => [Writer!PromiseNext]_(Writer!promiseVars)
  <2> SUFFICES ASSUME LeaseInv, [LeaseNext]_leaseVars
               PROVE  Writer!PromiseNext \/ UNCHANGED <<lease, journal>>
    BY DEF Writer!promiseVars
  <2>1. ASSUME NEW j \in Invocation, Granted(j) \/ StartStep(j) \/ Stepping(j) \/ Ending(j)
        PROVE  Writer!PromiseNext
    BY <2>1, InstallStep, RecordStep, LeaveStep DEF Writer!PromiseNext
  <2>2. CASE UNCHANGED leaseVars
    BY <2>2 DEF leaseVars
  <2> QED
    BY <2>1, <2>2 DEF LeaseNext, Ending, Begin, Inspect, Probe, Refused, Retain,
       Rejected, Finish, Die
<1> QED BY <1>1, <1>2, LeaseInvariant, PTL DEF LeaseSpec, ImplementsSingleWriter, Writer!Promise
=============================================================================
