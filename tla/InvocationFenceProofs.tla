------------------------- MODULE InvocationFenceProofs ----------------------
(***************************************************************************)
(* Proofs about the mutation lease under invocation markers, for any set   *)
(* of invocations and operations.                                          *)
(*                                                                         *)
(* FenceInv holds whatever process groups and guardians do: a probe finds  *)
(* only ended invocations dead, so a live holder keeps its lease, and the  *)
(* group of a killed invocation stays behind its marker.  QuietInv adds    *)
(* that effects exclude each other, for each group that keeps the          *)
(* descriptor it inherits or whose guardian stays until it is gone.        *)
(***************************************************************************)
EXTENDS InvocationFence, MutationLeaseProofs

Over == {"exited", "killed"}

(* An unborn invocation has no marker; one that has not ended has one and  *)
(* locks it.                                                               *)
MarkerFromBirth ==
    \A i \in Invocation :
        /\ pc[i] = "idle" => marker[i] = "absent"
        /\ Alive(i) /\ pc[i] # "done" => marker[i] # "absent" /\ "owner" \in holds[i]

(* Invocations of an earlier boot are over, and so are their effects.      *)
EarlierIsOver == \A i \in earlier : pc[i] \in Over /\ group[i] # "running"

(* A probe asks once, about a row whose owner has begun.                   *)
ProbeAsksOnce ==
    \A j \in Invocation :
        /\ pc[j] \in {"idle", "begun", "probing"} => verdict[j] = "none"
        /\ pc[j] = "probing" =>
              inspected[j].owner \in Invocation /\ pc[inspected[j].owner] # "idle"

OwnerHasBegun == lease.active => pc[lease.owner] # "idle"

(* What a probe called dead is over.                                       *)
DeadIsOver ==
    \A j \in Invocation :
        verdict[j] = "dead" =>
            inspected[j].owner \in Invocation /\ pc[inspected[j].owner] \in Over

(* Until its invocation has ended by itself, a running group has a marker  *)
(* that a guardian locks or fenced.                                        *)
GroupIsGuarded ==
    \A i \in Invocation :
        group[i] = "running" /\ pc[i] \notin {"done", "exited"} =>
            marker[i] # "absent" /\ ("guardian" \in holds[i] \/ marker[i] = "fenced")

FenceInv ==
    /\ FenceTypeOK
    /\ LeaseInv
    /\ MarkerFromBirth
    /\ EarlierIsOver
    /\ ProbeAsksOnce
    /\ OwnerHasBegun
    /\ DeadIsOver
    /\ HoldersKeepLease
    /\ GroupIsGuarded

(* A group that keeps the descriptor, or whose guardian stays.             *)
GroupIsLocked ==
    \A i \in Invocation :
        group[i] = "running" /\ Sure(i) =>
            /\ marker[i] # "absent"
            /\ \/ i \notin Dropping /\ "group" \in holds[i]
               \/ ~GuardianMayGiveUp /\ "guardian" \in holds[i]

DeadIsQuiet ==
    \A j \in Invocation :
        verdict[j] = "dead" /\ Sure(inspected[j].owner) => group[inspected[j].owner] # "running"

QuietInv ==
    /\ FenceInv
    /\ GroupIsLocked
    /\ DeadIsQuiet
    /\ EffectsUnderLease

USE LeaseAssumption, HostAssumption DEF Over

-----------------------------------------------------------------------------
(* Every step of the composed system is a step of the lease, or none.      *)
LEMMA JudgeType == ASSUME NEW k PROVE Judge(k) \in Verdict
BY DEF Judge, Verdict

LEMMA LeaseStep ==
    ASSUME [Next]_vars PROVE [LeaseNext]_leaseVars
<1>1. ASSUME NEW i \in Invocation, Open(i) PROVE LeaseNext
  BY <1>1 DEF Open, LeaseNext
<1>2. ASSUME NEW i \in Invocation, ProbeOwner(i) \/ ProbeFails(i) PROVE LeaseNext
  <2>1. \E answer \in Verdict : Probe(i, answer)
    BY <1>2, JudgeType DEF ProbeOwner, ProbeFails, Verdict
  <2> QED BY <2>1 DEF LeaseNext
<1>3. ASSUME NEW i \in Invocation, Transaction(i) PROVE LeaseNext
  BY <1>3 DEF Transaction, LeaseNext
<1>4. ASSUME NEW i \in Invocation, EffectUnproven(i) PROVE LeaseNext
  BY <1>4 DEF EffectUnproven, LeaseNext
<1>5. ASSUME NEW i \in Invocation, CloseInvocation(i) \/ CloseUncleaned(i) PROVE LeaseNext
  BY <1>5 DEF CloseInvocation, CloseUncleaned, LeaseNext
<1>6. ASSUME NEW i \in Invocation, Exit(i) PROVE LeaseNext
  BY <1>6 DEF Exit, LeaseNext
<1>7. CASE Reboot
  BY <1>7 DEF Reboot, LeaseNext
<1>8. ASSUME NEW i \in Invocation,
             \/ StartEffect(i) \/ EffectProven(i) \/ GroupStops(i) \/ GroupDropsMarker(i)
             \/ GuardianLeaves(i) \/ GuardianGivesUp(i) \/ Clean(i) \/ OperatorRemoves(i)
      PROVE  UNCHANGED leaseVars
  BY <1>8 DEF StartEffect, EffectProven, GroupStops, GroupDropsMarker,
     GuardianLeaves, GuardianGivesUp, Clean, OperatorRemoves, leaseVars
<1>9. CASE UNCHANGED vars
  BY <1>9 DEF vars, leaseVars
<1> QED
  BY <1>1, <1>2, <1>3, <1>4, <1>5, <1>6, <1>7, <1>8, <1>9 DEF Next, Step

-----------------------------------------------------------------------------
LEMMA FenceType ==
    ASSUME FenceTypeOK, [Next]_vars PROVE FenceTypeOK'
<1> USE DEF FenceTypeOK, Holder
<1>0. LeaseTypeOK'
  BY LeaseStep, TypeStep
<1>1. ASSUME NEW i \in Invocation, Open(i) PROVE FenceTypeOK'
  BY <1>0, <1>1 DEF Open
<1>2. ASSUME NEW i \in Invocation, ProbeOwner(i) PROVE FenceTypeOK'
  BY <1>0, <1>2 DEF ProbeOwner
<1>3. ASSUME NEW i \in Invocation, ProbeFails(i) \/ Transaction(i) \/ EffectUnproven(i)
      PROVE  FenceTypeOK'
  BY <1>0, <1>3 DEF ProbeFails, Transaction, EffectUnproven, fenceVars
<1>4. ASSUME NEW i \in Invocation, StartEffect(i) PROVE FenceTypeOK'
  BY <1>0, <1>4 DEF StartEffect
<1>5. ASSUME NEW i \in Invocation,
             EffectProven(i) \/ GroupStops(i) \/ GroupDropsMarker(i) \/ GuardianLeaves(i)
      PROVE  FenceTypeOK'
  BY <1>0, <1>5 DEF EffectProven, GroupStops, GroupDropsMarker, GuardianLeaves
<1>6. ASSUME NEW i \in Invocation, GuardianGivesUp(i) PROVE FenceTypeOK'
  BY <1>0, <1>6 DEF GuardianGivesUp
<1>7. ASSUME NEW i \in Invocation, CloseInvocation(i) \/ CloseUncleaned(i)
      PROVE  FenceTypeOK'
  BY <1>0, <1>7 DEF CloseInvocation, CloseUncleaned
<1>8. ASSUME NEW i \in Invocation, Clean(i) \/ Exit(i) \/ OperatorRemoves(i)
      PROVE  FenceTypeOK'
  BY <1>0, <1>8 DEF Clean, Exit, OperatorRemoves
<1>9. CASE Reboot
  BY <1>0, <1>9 DEF Reboot
<1>10. CASE UNCHANGED vars
  BY <1>0, <1>10 DEF vars
<1> QED
  BY <1>1, <1>2, <1>3, <1>4, <1>5, <1>6, <1>7, <1>8, <1>9, <1>10 DEF Next, Step

(* Lease steps never bring an invocation back.                             *)
LEMMA OneWay ==
    ASSUME LeaseTypeOK, [LeaseNext]_leaseVars, NEW i \in Invocation
    PROVE  /\ pc'[i] = "idle" => pc[i] = "idle"
           /\ pc[i] \in Over => pc'[i] \in Over
<1> USE DEF LeaseTypeOK, Go
<1>1. ASSUME NEW j \in Invocation,
             \/ Begin(j) \/ Inspect(j) \/ \E answer \in Verdict : Probe(j, answer)
             \/ Refused(j) \/ Granted(j) \/ StartStep(j) \/ Stepping(j)
      PROVE  /\ pc'[i] = "idle" => pc[i] = "idle"
             /\ pc[i] \in Over => pc'[i] \in Over
  BY <1>1 DEF Begin, Inspect, Probe, Refused, Granted, StartStep, Stepping, FinishStep
<1>2. ASSUME NEW j \in Invocation,
             \/ Complete(j) \/ FailLifecycle(j) \/ FailCreate(j) \/ Release(j)
             \/ Retain(j) \/ Rejected(j) \/ Finish(j)
      PROVE  /\ pc'[i] = "idle" => pc[i] = "idle"
             /\ pc[i] \in Over => pc'[i] \in Over
  BY <1>2 DEF Complete, FailLifecycle, FailCreate, Release, Retain, Rejected, Finish
<1>3. ASSUME NEW ends \in SUBSET Invocation, Die(ends)
      PROVE  /\ pc'[i] = "idle" => pc[i] = "idle"
             /\ pc[i] \in Over => pc'[i] \in Over
  BY <1>3 DEF Die
<1>4. CASE UNCHANGED leaseVars
  BY <1>4 DEF leaseVars
<1> QED BY <1>1, <1>2, <1>3, <1>4 DEF LeaseNext

(* No lease is taken over from a live holder.                              *)
LEMMA HoldersStep ==
    ASSUME LeaseInv, HoldersKeepLease, DeadIsOver, [LeaseNext]_leaseVars
    PROVE  HoldersKeepLease'
<1> USE DEF LeaseInv
<1> SUFFICES ASSUME NEW i \in Invocation, pc'[i] \in {"holding", "stepping"}
             PROVE  Fenced(i)'
  BY DEF HoldersKeepLease
<1>1. ASSUME NEW j \in Invocation, Granted(j) PROVE Fenced(i)'
  <2>1. CASE i = j
    BY <1>1, <2>1 DEF Granted, ClaimedRow, Fenced, LeaseTypeOK
  <2>2. CASE i # j
    <3>1. pc[i] \in {"holding", "stepping"}
      BY <1>1, <2>2 DEF Granted, Go, LeaseTypeOK
    <3>2. Fenced(i) /\ lease.owner = i
      BY <3>1, OwnerFromEpoch DEF HoldersKeepLease, FenceNamesOwner
    <3>3. verdict[j] = "dead" /\ inspected[j] = lease
      BY <1>1, <3>2 DEF Granted, MayClaim, Fenced
    <3> QED BY <3>1, <3>2, <3>3 DEF DeadIsOver
  <2> QED BY <2>1, <2>2
<1>2. ASSUME NEW j \in Invocation, Ending(j) PROVE Fenced(i)'
  <2>1. Fenced(j) /\ pc[j] \in {"holding", "stepping"}
        /\ pc' = [pc EXCEPT ![j] = "finishing"]
    BY <1>2 DEF Ending, Complete, FailLifecycle, FailCreate, Release, Go
  <2>2. i # j /\ pc[i] \in {"holding", "stepping"}
    BY <2>1 DEF LeaseTypeOK
  <2> QED BY <2>1, <2>2, OwnerFromEpoch DEF HoldersKeepLease, FenceNamesOwner
<1>3. ASSUME NEW j \in Invocation, StartStep(j) \/ Stepping(j) PROVE Fenced(i)'
  <2>1. Fenced(j) /\ pc[j] \in {"holding", "stepping"} /\ UNCHANGED <<lease, version, epoch>>
        /\ (i # j => pc'[i] = pc[i])
    BY <1>3 DEF StartStep, Stepping, FinishStep, Go, LeaseTypeOK
  <2> QED BY <2>1 DEF HoldersKeepLease, Fenced
<1>4. ASSUME NEW j \in Invocation,
             \/ Begin(j) \/ Inspect(j) \/ \E answer \in Verdict : Probe(j, answer)
             \/ Refused(j) \/ Retain(j) \/ Rejected(j) \/ Finish(j)
      PROVE  Fenced(i)'
  <2>1. UNCHANGED <<lease, version, epoch>> /\ pc[i] = pc'[i]
    BY <1>4 DEF Begin, Inspect, Probe, Refused, Retain, Rejected, Finish, Go, LeaseTypeOK
  <2> QED BY <2>1 DEF HoldersKeepLease, Fenced
<1>5. ASSUME NEW ends \in SUBSET Invocation, Die(ends) PROVE Fenced(i)'
  BY <1>5 DEF Die, HoldersKeepLease, Fenced
<1>6. CASE UNCHANGED leaseVars
  BY <1>6 DEF leaseVars, HoldersKeepLease, Fenced
<1> QED BY <1>1, <1>2, <1>3, <1>4, <1>5, <1>6 DEF LeaseNext, Ending

(* Whoever is probed has begun; whoever is found dead is over.             *)
LEMMA JudgeSound ==
    ASSUME FenceTypeOK, EarlierIsOver, NEW k \in Invocation, pc[k] # "idle",
           Judge(k) = "dead"
    PROVE  pc[k] \in Over
BY DEF Judge, Alive, EarlierIsOver, FenceTypeOK, LeaseTypeOK, Stage

(* A step that neither asks nor acquires, and its effect on these facts.    *)
Unasked ==
    /\ inspected' = inspected /\ verdict' = verdict
    /\ lease'.owner = lease.owner
    /\ lease'.active => lease.active
    /\ \A i \in Invocation :
          pc'[i] \in {"idle", "begun", "probing"} =>
              pc[i] = pc'[i] \/ (pc[i] = "idle" /\ pc'[i] = "begun")

LEMMA UnaskedStep ==
    ASSUME LeaseInv, ProbeAsksOnce, OwnerHasBegun, DeadIsOver,
           [LeaseNext]_leaseVars, Unasked
    PROVE  ProbeAsksOnce' /\ OwnerHasBegun' /\ DeadIsOver'
<1> USE DEF Unasked
<1>1. \A i \in Invocation : /\ pc'[i] = "idle" => pc[i] = "idle"
                            /\ pc[i] \in Over => pc'[i] \in Over
  BY OneWay DEF LeaseInv
<1>2. ProbeAsksOnce'
  BY <1>1 DEF ProbeAsksOnce
<1>3. OwnerHasBegun'
  BY <1>1 DEF LeaseInv, ActiveRow, OwnerHasBegun
<1>4. DeadIsOver'
  BY <1>1 DEF DeadIsOver
<1> QED BY <1>2, <1>3, <1>4

LEMMA DeathStep ==
    ASSUME FenceTypeOK, LeaseInv, EarlierIsOver, ProbeAsksOnce, OwnerHasBegun, DeadIsOver,
           [Next]_vars
    PROVE  ProbeAsksOnce' /\ OwnerHasBegun' /\ DeadIsOver'
<1>0. LeaseTypeOK /\ [LeaseNext]_leaseVars
  BY LeaseStep DEF FenceTypeOK
<1>1. ASSUME NEW j \in Invocation, Ending(j)
      PROVE  ProbeAsksOnce' /\ OwnerHasBegun' /\ DeadIsOver'
  <2>1. /\ inspected' = inspected /\ verdict' = verdict /\ lease' = Free
        /\ pc' = [pc EXCEPT ![j] = "finishing"]
    BY <1>1 DEF Ending, Complete, FailLifecycle, FailCreate, Release, Go
  <2>2. lease'.owner = lease.owner /\ ~lease'.active
    BY <1>0, <2>1 DEF Free, LeaseTypeOK, Row
  <2>3. Unasked
    BY <1>0, <2>1, <2>2 DEF LeaseTypeOK, Unasked
  <2> QED BY <1>0, <2>3, UnaskedStep
<1>2. ASSUME NEW j \in Invocation,
             \/ Begin(j) \/ Refused(j) \/ StartStep(j) \/ Stepping(j)
             \/ Retain(j) \/ Rejected(j) \/ Finish(j)
      PROVE  ProbeAsksOnce' /\ OwnerHasBegun' /\ DeadIsOver'
  <2>1. inspected' = inspected /\ verdict' = verdict /\ lease' = lease
    BY <1>2 DEF Begin, Refused, StartStep, Stepping, FinishStep, Retain, Rejected, Finish
  <2>2. \/ pc[j] = "idle" /\ pc' = [pc EXCEPT ![j] = "begun"]
        \/ \E s \in {"finishing", "stepping", "holding", "done"} : pc' = [pc EXCEPT ![j] = s]
    BY <1>2 DEF Begin, Refused, StartStep, Stepping, FinishStep, Retain, Rejected, Finish, Go
  <2>3. Unasked
    BY <1>0, <2>1, <2>2 DEF LeaseTypeOK, Unasked
  <2> QED BY <1>0, <2>3, UnaskedStep
<1>3. ASSUME NEW ends \in SUBSET Invocation, Die(ends)
      PROVE  ProbeAsksOnce' /\ OwnerHasBegun' /\ DeadIsOver'
  <2>1. Unasked
    BY <1>3 DEF Die, Unasked
  <2> QED BY <1>0, <2>1, UnaskedStep
<1>4. CASE UNCHANGED leaseVars
  <2>1. Unasked
    BY <1>4 DEF leaseVars, Unasked
  <2> QED BY <1>0, <2>1, UnaskedStep
<1> USE DEF ProbeAsksOnce, OwnerHasBegun, DeadIsOver
<1>5. \A i \in Invocation : /\ pc'[i] = "idle" => pc[i] = "idle"
                            /\ pc[i] \in Over => pc'[i] \in Over
  BY <1>0, OneWay
<1>6. ASSUME NEW j \in Invocation, Inspect(j)
      PROVE  ProbeAsksOnce' /\ OwnerHasBegun' /\ DeadIsOver'
  <2>1. /\ inspected' = [inspected EXCEPT ![j] = lease] /\ UNCHANGED <<verdict, lease>>
        /\ pc[j] = "begun" /\ verdict[j] = "none"
        /\ pc'[j] = "probing" => lease.active
        /\ \A i \in Invocation : i # j => pc'[i] = pc[i]
    BY <1>0, <1>6 DEF Inspect, Go, LeaseTypeOK
  <2>2. lease.active => lease.owner \in Invocation
    BY DEF LeaseInv, ActiveRow
  <2>3. ProbeAsksOnce'
    BY <1>0, <1>5, <2>1, <2>2 DEF LeaseTypeOK
  <2>4. OwnerHasBegun'
    BY <1>5, <2>1, <2>2
  <2>5. DeadIsOver'
    BY <1>0, <1>5, <2>1 DEF LeaseTypeOK
  <2> QED BY <2>3, <2>4, <2>5
<1>7. ASSUME NEW j \in Invocation, NEW answer \in Verdict, Probe(j, answer),
             answer = "dead" => pc[inspected[j].owner] \in Over
      PROVE  ProbeAsksOnce' /\ OwnerHasBegun' /\ DeadIsOver'
  <2>1. /\ verdict' = [verdict EXCEPT ![j] = answer] /\ UNCHANGED <<inspected, lease>>
        /\ pc[j] = "probing" /\ pc' = [pc EXCEPT ![j] = "claiming"]
    BY <1>7 DEF Probe, Go
  <2>2. ProbeAsksOnce'
    BY <1>0, <1>5, <2>1 DEF LeaseTypeOK
  <2>3. OwnerHasBegun'
    BY <1>5, <2>1 DEF LeaseInv, ActiveRow
  <2>4. DeadIsOver'
    BY <1>0, <1>5, <1>7, <2>1 DEF LeaseTypeOK
  <2> QED BY <2>2, <2>3, <2>4
<1>8. ASSUME NEW j \in Invocation, Granted(j)
      PROVE  ProbeAsksOnce' /\ OwnerHasBegun' /\ DeadIsOver'
  <2>1. /\ UNCHANGED <<inspected, verdict>> /\ lease'.owner = j
        /\ pc' = [pc EXCEPT ![j] = "holding"]
    BY <1>8 DEF Granted, ClaimedRow, Go
  <2>2. ProbeAsksOnce' /\ DeadIsOver'
    BY <1>0, <1>5, <2>1 DEF LeaseTypeOK
  <2>3. OwnerHasBegun'
    BY <1>0, <2>1 DEF LeaseTypeOK
  <2> QED BY <2>2, <2>3
<1>9. ASSUME NEW j \in Invocation, ProbeOwner(j) \/ ProbeFails(j)
       PROVE  ProbeAsksOnce' /\ OwnerHasBegun' /\ DeadIsOver'
  <2>1. CASE ProbeFails(j)
    BY <1>7, <2>1 DEF ProbeFails, Verdict
  <2>2. CASE ProbeOwner(j)
    <3>1. Probe(j, Judge(inspected[j].owner)) /\ pc[j] = "probing"
      BY <2>2 DEF ProbeOwner, Probe
    <3>2. Judge(inspected[j].owner) = "dead" => pc[inspected[j].owner] \in Over
      BY <3>1, JudgeSound
    <3> QED BY <1>7, <3>1, <3>2, JudgeType
  <2> QED BY <1>9, <2>1, <2>2
<1>10. ASSUME NEW j \in Invocation, Transaction(j)
       PROVE  ProbeAsksOnce' /\ OwnerHasBegun' /\ DeadIsOver'
  BY <1>6, <1>8, <1>1, <1>2, <1>10 DEF Transaction, Ending
<1>11. ASSUME NEW j \in Invocation, Open(j) \/ EffectUnproven(j) \/ CloseInvocation(j) \/ CloseUncleaned(j)
       PROVE  ProbeAsksOnce' /\ OwnerHasBegun' /\ DeadIsOver'
  BY <1>2, <1>11 DEF Open, EffectUnproven, CloseInvocation, CloseUncleaned
<1>12. ASSUME Reboot \/ \E j \in Invocation : Exit(j)
       PROVE  ProbeAsksOnce' /\ OwnerHasBegun' /\ DeadIsOver'
  BY <1>3, <1>12 DEF Reboot, Exit
<1>13. ASSUME NEW j \in Invocation,
             \/ StartEffect(j) \/ EffectProven(j) \/ GroupStops(j) \/ GroupDropsMarker(j)
             \/ GuardianLeaves(j) \/ GuardianGivesUp(j) \/ Clean(j) \/ OperatorRemoves(j)
       PROVE  UNCHANGED leaseVars
  BY <1>13 DEF StartEffect, EffectProven, GroupStops, GroupDropsMarker,
     GuardianLeaves, GuardianGivesUp, Clean, OperatorRemoves, leaseVars
<1>14. CASE UNCHANGED vars
  BY <1>4, <1>14 DEF vars, leaseVars
<1> QED
  BY <1>4, <1>9, <1>10, <1>11, <1>12, <1>13, <1>14 DEF Next, Step
-----------------------------------------------------------------------------
(* What the markers, their locks and the groups do.  A step that leaves    *)
(* them alone may only move a live invocation between stages.              *)
LEMMA FenceVarsKept ==
    ASSUME FenceTypeOK, MarkerFromBirth, EarlierIsOver, GroupIsGuarded,
           UNCHANGED fenceVars,
           \A i \in Invocation :
              \/ pc'[i] = pc[i]
              \/ Alive(i) /\ pc[i] # "done" /\ pc'[i] \notin Over \cup {"idle", "done"}
    PROVE  MarkerFromBirth' /\ EarlierIsOver' /\ GroupIsGuarded'
<1>1. MarkerFromBirth'
  BY DEF fenceVars, MarkerFromBirth, Alive
<1>2. EarlierIsOver'
  BY DEF fenceVars, EarlierIsOver, Alive, FenceTypeOK
<1>3. GroupIsGuarded'
  BY DEF fenceVars, GroupIsGuarded, Alive
<1> QED BY <1>1, <1>2, <1>3

LEMMA StageOfTransaction ==
    ASSUME FenceTypeOK, NEW j \in Invocation,
           Transaction(j) \/ ProbeFails(j) \/ EffectUnproven(j),
           NEW i \in Invocation
    PROVE  \/ pc'[i] = pc[i]
           \/ Alive(i) /\ pc[i] # "done" /\ pc'[i] \notin Over \cup {"idle", "done"}
<1> USE DEF FenceTypeOK, LeaseTypeOK, Go, Alive
<1>1. CASE Inspect(j) \/ Refused(j) \/ Granted(j) \/ StartStep(j) \/ Stepping(j)
  BY <1>1 DEF Inspect, Refused, Granted, StartStep, Stepping, FinishStep
<1>2. CASE Complete(j) \/ FailLifecycle(j) \/ FailCreate(j) \/ Release(j) \/ Retain(j)
  BY <1>2 DEF Complete, FailLifecycle, FailCreate, Release, Retain
<1>3. CASE ProbeFails(j)
  BY <1>3 DEF ProbeFails, Probe
<1> QED BY <1>1, <1>2, <1>3 DEF Transaction, EffectUnproven

(* The same three facts over a step of the helpers, the host, the operator *)
(* or the invocation's own marker handling.                                *)
LEMMA MarkerStep ==
    ASSUME FenceTypeOK, FenceTypeOK', MarkerFromBirth, EarlierIsOver, ProbeAsksOnce,
           GroupIsGuarded, [Next]_vars
    PROVE  MarkerFromBirth' /\ EarlierIsOver' /\ GroupIsGuarded'
<1> USE DEF FenceTypeOK, LeaseTypeOK
<1>1. ASSUME NEW j \in Invocation, Open(j)
      PROVE  MarkerFromBirth' /\ EarlierIsOver' /\ GroupIsGuarded'
  <2>1. /\ pc[j] = "idle" /\ pc' = [pc EXCEPT ![j] = "begun"]
        /\ marker' = [marker EXCEPT ![j] = "empty"]
        /\ holds' = [holds EXCEPT ![j] = {"owner"}]
        /\ UNCHANGED <<group, earlier>>
    BY <1>1 DEF Open, Begin, Go
  <2>2. MarkerFromBirth'
    BY <2>1 DEF MarkerFromBirth, Alive
  <2>3. EarlierIsOver'
    BY <2>1 DEF EarlierIsOver
  <2>4. group[j] # "running"
    BY <2>1 DEF GroupIsGuarded, MarkerFromBirth
  <2>5. GroupIsGuarded'
    BY <2>1, <2>4 DEF GroupIsGuarded
  <2> QED BY <2>2, <2>3, <2>5
<1>2. ASSUME NEW j \in Invocation, ProbeOwner(j)
      PROVE  MarkerFromBirth' /\ EarlierIsOver' /\ GroupIsGuarded'
  <2> DEFINE k == inspected[j].owner
  <2>1. /\ pc[j] = "probing" /\ pc' = [pc EXCEPT ![j] = "claiming"]
        /\ marker' = [marker EXCEPT ![k] =
                        IF k \notin earlier /\ Judge(k) = "dead" THEN "absent" ELSE @]
        /\ UNCHANGED <<holds, group, earlier>>
    BY <1>2 DEF ProbeOwner, Probe, Go
  <2>2. k \in Invocation /\ pc[k] # "idle"
    BY <2>1 DEF ProbeAsksOnce
  <2>3. k \notin earlier /\ Judge(k) = "dead" =>
            ~Alive(k) /\ (marker[k] = "absent" \/ (~Locked(k) /\ marker[k] # "fenced"))
    BY DEF Judge
  <2>4. MarkerFromBirth'
    BY <2>1, <2>2, <2>3 DEF MarkerFromBirth, Alive
  <2>5. EarlierIsOver'
    BY <2>1 DEF EarlierIsOver
  <2>6. GroupIsGuarded'
    BY <2>1, <2>2, <2>3 DEF GroupIsGuarded, Locked
  <2> QED BY <2>4, <2>5, <2>6
<1>3. ASSUME NEW j \in Invocation, Transaction(j) \/ ProbeFails(j) \/ EffectUnproven(j)
      PROVE  MarkerFromBirth' /\ EarlierIsOver' /\ GroupIsGuarded'
  <2>1. UNCHANGED fenceVars
    BY <1>3 DEF Transaction, ProbeFails, EffectUnproven
  <2> QED BY <1>3, <2>1, StageOfTransaction, FenceVarsKept
<1>4. ASSUME NEW j \in Invocation, StartEffect(j)
      PROVE  MarkerFromBirth' /\ EarlierIsOver' /\ GroupIsGuarded'
  BY <1>4 DEF StartEffect, MarkerFromBirth, EarlierIsOver, GroupIsGuarded, Alive
<1>5. ASSUME NEW j \in Invocation, EffectProven(j) \/ GroupStops(j)
      PROVE  MarkerFromBirth' /\ EarlierIsOver' /\ GroupIsGuarded'
  <2>1. UNCHANGED <<pc, marker, earlier>>
    BY <1>5 DEF EffectProven, GroupStops
  <2>2. \A i \in Invocation : group'[i] = "running" => group[i] = "running"
    BY <1>5 DEF EffectProven, GroupStops
  <2>3. \A i \in Invocation : \A h \in {"owner", "guardian"} : h \in holds[i] => h \in holds'[i]
    BY <1>5 DEF EffectProven, GroupStops
  <2>4. MarkerFromBirth'
    BY <2>1, <2>3 DEF MarkerFromBirth, Alive
  <2>5. EarlierIsOver'
    BY <2>1, <2>2 DEF EarlierIsOver
  <2>6. GroupIsGuarded'
    BY <2>1, <2>2, <2>3 DEF GroupIsGuarded
  <2> QED BY <2>4, <2>5, <2>6
<1>6. ASSUME NEW j \in Invocation, GroupDropsMarker(j) \/ GuardianLeaves(j)
      PROVE  MarkerFromBirth' /\ EarlierIsOver' /\ GroupIsGuarded'
  <2>1. UNCHANGED <<pc, marker, earlier, group>>
    BY <1>6 DEF GroupDropsMarker, GuardianLeaves
  <2>2. \A i \in Invocation : "owner" \in holds[i] => "owner" \in holds'[i]
    <3>1. CASE GroupDropsMarker(j)
      BY <3>1 DEF GroupDropsMarker
    <3>2. CASE GuardianLeaves(j)
      BY <3>2 DEF GuardianLeaves
    <3> QED BY <1>6, <3>1, <3>2
  <2>3. \A i \in Invocation :
            group[i] = "running" /\ "guardian" \in holds[i] => "guardian" \in holds'[i]
    BY <1>6 DEF GroupDropsMarker, GuardianLeaves
  <2>4. MarkerFromBirth'
    BY <2>1, <2>2 DEF MarkerFromBirth, Alive
  <2>5. EarlierIsOver'
    BY <2>1 DEF EarlierIsOver
  <2>6. GroupIsGuarded'
    BY <2>1, <2>3 DEF GroupIsGuarded
  <2> QED BY <2>4, <2>5, <2>6
<1>7. ASSUME NEW j \in Invocation, GuardianGivesUp(j)
      PROVE  MarkerFromBirth' /\ EarlierIsOver' /\ GroupIsGuarded'
  BY <1>7 DEF GuardianGivesUp, MarkerFromBirth, EarlierIsOver, GroupIsGuarded, Alive
<1>8. ASSUME NEW j \in Invocation, CloseInvocation(j) \/ CloseUncleaned(j)
      PROVE  MarkerFromBirth' /\ EarlierIsOver' /\ GroupIsGuarded'
  <2>1. /\ pc[j] = "finishing" /\ pc' = [pc EXCEPT ![j] = "done"]
        /\ holds' = [holds EXCEPT ![j] = @ \ {"owner"}]
        /\ marker' = marker \/ marker' = [marker EXCEPT ![j] = "absent"]
        /\ UNCHANGED <<group, earlier>>
    BY <1>8 DEF CloseInvocation, CloseUncleaned, Finish, Go
  <2> QED BY <2>1 DEF MarkerFromBirth, EarlierIsOver, GroupIsGuarded, Alive
<1>9. ASSUME NEW j \in Invocation, Clean(j)
      PROVE  MarkerFromBirth' /\ EarlierIsOver' /\ GroupIsGuarded'
  BY <1>9 DEF Clean, Locked, MarkerFromBirth, EarlierIsOver, GroupIsGuarded, Alive
<1>10. ASSUME NEW j \in Invocation, Exit(j)
       PROVE  MarkerFromBirth' /\ EarlierIsOver' /\ GroupIsGuarded'
  BY <1>10 DEF Exit, Die, MarkerFromBirth, EarlierIsOver, GroupIsGuarded, Alive
<1>11. ASSUME NEW j \in Invocation, OperatorRemoves(j)
       PROVE  MarkerFromBirth' /\ EarlierIsOver' /\ GroupIsGuarded'
  BY <1>11 DEF OperatorRemoves, MarkerFromBirth, EarlierIsOver, GroupIsGuarded, Alive
<1>12. CASE Reboot
  BY <1>12 DEF Reboot, Die, MarkerFromBirth, EarlierIsOver, GroupIsGuarded, Alive, Stage
<1>13. CASE UNCHANGED vars
  BY <1>13 DEF vars, MarkerFromBirth, EarlierIsOver, GroupIsGuarded, Alive
<1> QED
  BY <1>1, <1>2, <1>3, <1>4, <1>5, <1>6, <1>7, <1>8, <1>9, <1>10, <1>11, <1>12, <1>13
     DEF Next, Step

LEMMA FenceInit == ASSUME Init PROVE FenceInv
<1>1. LeaseInv
  BY InitInv DEF Init
<1>2. FenceTypeOK
  BY <1>1 DEF Init, FenceTypeOK, LeaseInv
<1> QED
  BY <1>1, <1>2 DEF Init, LeaseInit, FenceInv, MarkerFromBirth, EarlierIsOver,
     ProbeAsksOnce, OwnerHasBegun, DeadIsOver, HoldersKeepLease, GroupIsGuarded,
     Alive, NoRow

LEMMA FenceStep == ASSUME FenceInv, [Next]_vars PROVE FenceInv'
<1>1. FenceTypeOK'
  BY FenceType DEF FenceInv
<1>2. LeaseInv' /\ HoldersKeepLease'
  BY LeaseStep, InvStep, HoldersStep DEF FenceInv
<1>3. ProbeAsksOnce' /\ OwnerHasBegun' /\ DeadIsOver'
  BY DeathStep DEF FenceInv
<1>4. MarkerFromBirth' /\ EarlierIsOver' /\ GroupIsGuarded'
  BY <1>1, MarkerStep DEF FenceInv
<1> QED BY <1>1, <1>2, <1>3, <1>4 DEF FenceInv

(* The inductive invariant that needs nothing of groups and guardians.     *)
THEOREM FenceInvariant == Spec => []FenceInv
<1>1. Init => FenceInv
  BY FenceInit
<1>2. FenceInv /\ [Next]_vars => FenceInv'
  BY FenceStep
<1> QED BY <1>1, <1>2, PTL DEF Spec

(* Types.                                                                  *)
THEOREM FenceTypeCorrect == Spec => []FenceTypeOK
<1>1. FenceInv => FenceTypeOK
  BY DEF FenceInv
<1> QED BY <1>1, FenceInvariant, PTL

(* A live holder passes the fence until it releases: takeover needs an     *)
(* owner that has ended.                                                   *)
THEOREM HolderSafety == Spec => []HoldersKeepLease
<1>1. FenceInv => HoldersKeepLease
  BY DEF FenceInv
<1> QED BY <1>1, FenceInvariant, PTL

(* A killed invocation whose group still runs is never found dead.         *)
THEOREM CrashSafety == Spec => []CrashFence
<1>1. FenceInv => CrashFence
  BY DEF FenceInv, CrashFence, GroupIsGuarded, EarlierIsOver, Judge, Alive, Locked, FenceTypeOK
<1> QED BY <1>1, FenceInvariant, PTL
-----------------------------------------------------------------------------
(* Who removes a fence.                                                    *)
LEMMA KeptStep ==
    ASSUME FenceInv, [Next]_vars, NEW i \in Invocation,
           marker[i] = "fenced", marker'[i] # "fenced"
    PROVE  OperatorRemoves(i) \/ CloseInvocation(i)
<1> USE DEF FenceInv, FenceTypeOK
<1>1. ASSUME NEW j \in Invocation, Open(j) PROVE FALSE
  <2>1. pc[j] = "idle" /\ marker' = [marker EXCEPT ![j] = "empty"]
    BY <1>1 DEF Open, Begin
  <2>2. marker[j] = "absent"
    BY <2>1 DEF MarkerFromBirth
  <2> QED BY <2>1, <2>2
<1>2. ASSUME NEW j \in Invocation, ProbeOwner(j) PROVE FALSE
  <2> DEFINE k == inspected[j].owner
  <2>1. marker' = [marker EXCEPT ![k] =
                      IF k \notin earlier /\ Judge(k) = "dead" THEN "absent" ELSE @]
    BY <1>2 DEF ProbeOwner
  <2>2. k = i /\ k \notin earlier /\ Judge(k) = "dead"
    BY <2>1
  <2> QED BY <2>2 DEF Judge
<1>3. ASSUME NEW j \in Invocation,
             \/ ProbeFails(j) \/ Transaction(j) \/ StartEffect(j) \/ EffectProven(j)
             \/ EffectUnproven(j) \/ CloseUncleaned(j) \/ GroupStops(j)
             \/ GroupDropsMarker(j) \/ GuardianLeaves(j) \/ Exit(j)
      PROVE  FALSE
  BY <1>3 DEF ProbeFails, Transaction, StartEffect, EffectProven, EffectUnproven,
     CloseUncleaned, GroupStops, GroupDropsMarker, GuardianLeaves, Exit, fenceVars
<1>4. ASSUME NEW j \in Invocation, GuardianGivesUp(j) \/ Clean(j) PROVE FALSE
  BY <1>4 DEF GuardianGivesUp, Clean
<1>5. ASSUME NEW j \in Invocation, CloseInvocation(j) \/ OperatorRemoves(j)
      PROVE  j = i
  BY <1>5 DEF CloseInvocation, OperatorRemoves
<1>6. CASE Reboot
  BY <1>6 DEF Reboot
<1>7. CASE UNCHANGED vars
  BY <1>7 DEF vars
<1> QED BY <1>1, <1>2, <1>3, <1>4, <1>5, <1>6, <1>7 DEF Next, Step

(* No probe and no cleaner removes a quiescence-unknown marker.            *)
THEOREM FencePersists == Spec => FenceKept
<1>1. FenceInv /\ [Next]_vars =>
          [ \A i \in Invocation :
                marker[i] = "fenced" /\ marker'[i] # "fenced"
                    => OperatorRemoves(i) \/ CloseInvocation(i) ]_vars
  BY KeptStep
<1> QED BY <1>1, FenceInvariant, PTL DEF Spec, FenceKept

-----------------------------------------------------------------------------
(* The effects of groups that keep one of the two promises.                *)
LEMMA LockedStep ==
    ASSUME FenceInv, GroupIsLocked, [Next]_vars
    PROVE  GroupIsLocked'
<1> USE DEF FenceInv, FenceTypeOK
<1>1. ASSUME NEW j \in Invocation, Open(j) PROVE GroupIsLocked'
  <2>1. /\ pc[j] = "idle" /\ UNCHANGED group
        /\ marker' = [marker EXCEPT ![j] = "empty"]
        /\ holds' = [holds EXCEPT ![j] = {"owner"}]
    BY <1>1 DEF Open, Begin
  <2>2. Sure(j) => group[j] # "running"
    BY <2>1 DEF MarkerFromBirth, GroupIsLocked
  <2> QED BY <2>1, <2>2 DEF GroupIsLocked
<1>2. ASSUME NEW j \in Invocation, ProbeOwner(j) PROVE GroupIsLocked'
  <2> DEFINE k == inspected[j].owner
  <2>1. /\ UNCHANGED <<holds, group>>
        /\ marker' = [marker EXCEPT ![k] =
                        IF k \notin earlier /\ Judge(k) = "dead" THEN "absent" ELSE @]
    BY <1>2 DEF ProbeOwner
  <2>2. k \in Invocation
    BY <1>2 DEF ProbeOwner, Probe, ProbeAsksOnce
  <2>3. k \notin earlier /\ Judge(k) = "dead" => ~(group[k] = "running" /\ Sure(k))
    BY <2>2 DEF Judge, Locked, GroupIsLocked
  <2> QED BY <2>1, <2>2, <2>3 DEF GroupIsLocked
<1>3. ASSUME NEW j \in Invocation, Transaction(j) \/ ProbeFails(j) \/ EffectUnproven(j)
      PROVE  GroupIsLocked'
  BY <1>3 DEF Transaction, ProbeFails, EffectUnproven, fenceVars, GroupIsLocked
<1>4. ASSUME NEW j \in Invocation, StartEffect(j) PROVE GroupIsLocked'
  <2>1. /\ UNCHANGED marker /\ group' = [group EXCEPT ![j] = "running"]
        /\ holds' = [holds EXCEPT ![j] = @ \cup {"group", "guardian"}]
    BY <1>4 DEF StartEffect
  <2>2. marker[j] # "absent"
    BY <1>4 DEF StartEffect, MarkerFromBirth, Alive
  <2> QED BY <2>1, <2>2 DEF GroupIsLocked, Sure
<1>5. ASSUME NEW j \in Invocation, EffectProven(j) \/ GroupStops(j)
      PROVE  GroupIsLocked'
  <2>1. UNCHANGED marker /\ group'[j] # "running"
    BY <1>5 DEF EffectProven, GroupStops
  <2>2. \A i \in Invocation : i # j => group'[i] = group[i] /\ holds'[i] = holds[i]
    BY <1>5 DEF EffectProven, GroupStops
  <2> QED BY <2>1, <2>2 DEF GroupIsLocked
<1>6. ASSUME NEW j \in Invocation, GroupDropsMarker(j) PROVE GroupIsLocked'
  BY <1>6 DEF GroupDropsMarker, GroupIsLocked
<1>7. ASSUME NEW j \in Invocation, GuardianLeaves(j) PROVE GroupIsLocked'
  BY <1>7 DEF GuardianLeaves, GroupIsLocked
<1>8. ASSUME NEW j \in Invocation, GuardianGivesUp(j) PROVE GroupIsLocked'
  BY <1>8 DEF GuardianGivesUp, GroupIsLocked
<1>9. ASSUME NEW j \in Invocation, CloseInvocation(j) \/ CloseUncleaned(j) \/ Exit(j)
      PROVE  GroupIsLocked'
  <2>1. UNCHANGED group /\ holds' = [holds EXCEPT ![j] = @ \ {"owner"}]
    BY <1>9 DEF CloseInvocation, CloseUncleaned, Exit
  <2>2. \/ marker' = marker
        \/ holds[j] \subseteq {"owner"} /\ marker' = [marker EXCEPT ![j] = "absent"]
    BY <1>9 DEF CloseInvocation, CloseUncleaned, Exit
  <2>3. holds[j] \subseteq {"owner"} => ~(group[j] = "running" /\ Sure(j))
    BY DEF GroupIsLocked
  <2>4. \A i \in Invocation : group[i] = "running" /\ Sure(i) => marker'[i] # "absent"
    BY <2>2, <2>3 DEF GroupIsLocked
  <2> QED BY <2>1, <2>4 DEF GroupIsLocked
<1>10. ASSUME NEW j \in Invocation, Clean(j) \/ OperatorRemoves(j) PROVE GroupIsLocked'
  <2>1. UNCHANGED <<group, holds>> /\ ~(group[j] = "running" /\ Sure(j))
    BY <1>10 DEF Clean, OperatorRemoves, Locked, GroupIsLocked
  <2>2. \A i \in Invocation : i # j => marker'[i] = marker[i]
    BY <1>10 DEF Clean, OperatorRemoves
  <2> QED BY <2>1, <2>2 DEF GroupIsLocked
<1>11. CASE Reboot
  BY <1>11 DEF Reboot, GroupIsLocked
<1>12. CASE UNCHANGED vars
  BY <1>12 DEF vars, GroupIsLocked
<1> QED
  BY <1>1, <1>2, <1>3, <1>4, <1>5, <1>6, <1>7, <1>8, <1>9, <1>10, <1>11, <1>12
     DEF Next, Step

(* Only StartEffect starts a group, and no step but a grant or an ending   *)
(* changes the lease.                                                      *)
LEMMA GroupsOnlyStop ==
    ASSUME FenceTypeOK, [Next]_vars, NEW i \in Invocation, ~StartEffect(i)
    PROVE  group'[i] = "running" => group[i] = "running"
<1> USE DEF FenceTypeOK
<1>1. ASSUME NEW j \in Invocation, Open(j) \/ ProbeOwner(j) \/ ProbeFails(j) \/ Transaction(j)
      PROVE  UNCHANGED group
  BY <1>1 DEF Open, ProbeOwner, ProbeFails, Transaction, fenceVars
<1>2. ASSUME NEW j \in Invocation,
             \/ EffectUnproven(j) \/ CloseInvocation(j) \/ CloseUncleaned(j)
             \/ GroupDropsMarker(j) \/ GuardianLeaves(j) \/ GuardianGivesUp(j)
             \/ Clean(j) \/ Exit(j) \/ OperatorRemoves(j)
      PROVE  UNCHANGED group
  BY <1>2 DEF EffectUnproven, CloseInvocation, CloseUncleaned, GroupDropsMarker,
     GuardianLeaves, GuardianGivesUp, Clean, Exit, OperatorRemoves, fenceVars
<1>3. ASSUME NEW j \in Invocation, StartEffect(j) \/ EffectProven(j) \/ GroupStops(j)
      PROVE  group'[i] = "running" => group[i] = "running"
  BY <1>3 DEF StartEffect, EffectProven, GroupStops
<1>4. CASE Reboot
  BY <1>4 DEF Reboot
<1>5. CASE UNCHANGED vars
  BY <1>5 DEF vars
<1> QED BY <1>1, <1>2, <1>3, <1>4, <1>5 DEF Next, Step

LEMMA QuietDead ==
    ASSUME FenceInv, GroupIsLocked, DeadIsQuiet, [Next]_vars PROVE DeadIsQuiet'
<1> USE DEF FenceInv, FenceTypeOK, LeaseTypeOK
<1> SUFFICES ASSUME NEW j \in Invocation, verdict'[j] = "dead",
                    Sure(inspected'[j].owner), group'[inspected'[j].owner] = "running"
             PROVE  FALSE
  BY DEF DeadIsQuiet
<1>1. verdict[j] = "dead" => inspected[j].owner \in Invocation /\ pc[inspected[j].owner] \in Over
  BY DEF DeadIsOver
<1>2. ASSUME NEW i \in Invocation, ProbeOwner(i) PROVE FALSE
  <2> DEFINE k == inspected[i].owner
  <2>1. /\ verdict' = [verdict EXCEPT ![i] = Judge(k)] /\ UNCHANGED <<inspected, group>>
        /\ pc[i] = "probing"
    BY <1>2 DEF ProbeOwner, Probe
  <2>2. i = j
    BY <2>1 DEF DeadIsQuiet
  <2>3. Judge(k) = "dead" /\ group[k] = "running" /\ k \in Invocation /\ Sure(k)
    BY <2>1, <2>2 DEF ProbeAsksOnce
  <2> QED BY <2>3 DEF Judge, EarlierIsOver, GroupIsLocked, Locked
<1>3. ASSUME NEW i \in Invocation, Inspect(i) PROVE FALSE
  <2>1. /\ inspected' = [inspected EXCEPT ![i] = lease] /\ UNCHANGED verdict
        /\ verdict[i] = "none"
    BY <1>3 DEF Inspect, ProbeAsksOnce
  <2>2. inspected'[j] = inspected[j] /\ verdict[j] = "dead"
    BY <2>1
  <2>3. ~StartEffect(inspected[j].owner)
    BY <1>1, <2>2 DEF StartEffect
  <2> QED BY <1>1, <2>2, <2>3, GroupsOnlyStop DEF DeadIsQuiet
<1>4. ASSUME NEW i \in Invocation, ProbeFails(i) PROVE FALSE
  <2>1. /\ verdict' = [verdict EXCEPT ![i] = "inconclusive"] /\ UNCHANGED <<inspected, group>>
    BY <1>4 DEF ProbeFails, Probe, fenceVars
  <2> QED BY <2>1 DEF DeadIsQuiet
<1>5. CASE UNCHANGED <<inspected, verdict>>
  <2>1. ~StartEffect(inspected[j].owner)
    BY <1>1, <1>5 DEF StartEffect
  <2> QED BY <1>1, <1>5, <2>1, GroupsOnlyStop DEF DeadIsQuiet
<1>6. ASSUME NEW i \in Invocation, Transaction(i), ~Inspect(i)
      PROVE  UNCHANGED <<inspected, verdict>>
  BY <1>6 DEF Transaction, Refused, Granted, StartStep, Stepping, FinishStep,
     Complete, FailLifecycle, FailCreate, Release
<1>7. ASSUME NEW i \in Invocation,
             \/ Open(i) \/ StartEffect(i) \/ EffectProven(i) \/ EffectUnproven(i)
             \/ CloseInvocation(i) \/ CloseUncleaned(i) \/ GroupStops(i)
             \/ GroupDropsMarker(i) \/ GuardianLeaves(i) \/ GuardianGivesUp(i)
             \/ Clean(i) \/ Exit(i) \/ OperatorRemoves(i)
      PROVE  UNCHANGED <<inspected, verdict>>
  BY <1>7 DEF Open, Begin, StartEffect, EffectProven, EffectUnproven, Retain,
     CloseInvocation, CloseUncleaned, Finish, GroupStops, GroupDropsMarker,
     GuardianLeaves, GuardianGivesUp, Clean, Exit, Die, OperatorRemoves
<1>8. CASE Reboot \/ UNCHANGED vars
  BY <1>5, <1>8 DEF Reboot, Die, vars
<1> QED BY <1>2, <1>3, <1>4, <1>5, <1>6, <1>7, <1>8 DEF Next, Step

(* A step of the lease that leaves an active row with its owner.           *)
LEMMA LeaseOfGroup ==
    ASSUME QuietInv, [Next]_vars, NEW i \in Invocation, group[i] = "running", Sure(i)
    PROVE  lease'.active /\ lease'.owner = i
<1> USE DEF QuietInv, FenceInv, LeaseInv
<1>1. lease.active /\ lease.owner = i
  BY DEF EffectsUnderLease
<1>2. ASSUME NEW j \in Invocation, Transaction(j), Granted(j) PROVE FALSE
  <2>1. verdict[j] = "dead" /\ inspected[j] = lease
    BY <1>1, <1>2 DEF Granted, MayClaim
  <2> QED BY <1>1, <2>1 DEF DeadIsQuiet
<1>3. ASSUME NEW j \in Invocation, Transaction(j), Ending(j) PROVE FALSE
  <2>1. Fenced(j) /\ group[j] = "none"
    BY <1>3 DEF Transaction, Between, Ending, Complete, FailLifecycle, FailCreate, Release
  <2>2. i = j
    BY <1>1, <2>1, OwnerFromEpoch DEF FenceNamesOwner
  <2> QED BY <2>1, <2>2
<1>4. ASSUME NEW j \in Invocation, Transaction(j), ~Granted(j), ~Ending(j)
      PROVE  lease' = lease
  BY <1>4 DEF Transaction, Ending, Inspect, Refused, StartStep, Stepping, FinishStep
<1>5. ASSUME NEW j \in Invocation,
             \/ Open(j) \/ ProbeOwner(j) \/ ProbeFails(j) \/ StartEffect(j)
             \/ EffectProven(j) \/ EffectUnproven(j) \/ CloseInvocation(j)
             \/ CloseUncleaned(j) \/ GroupStops(j) \/ GroupDropsMarker(j)
      PROVE  lease' = lease
  BY <1>5 DEF Open, Begin, ProbeOwner, ProbeFails, Probe, StartEffect, EffectProven,
     EffectUnproven, Retain, CloseInvocation, CloseUncleaned, Finish, GroupStops,
     GroupDropsMarker
<1>6. ASSUME NEW j \in Invocation,
             \/ GuardianLeaves(j) \/ GuardianGivesUp(j) \/ Clean(j) \/ Exit(j)
             \/ OperatorRemoves(j)
      PROVE  lease' = lease
  BY <1>6 DEF GuardianLeaves, GuardianGivesUp, Clean, Exit, Die, OperatorRemoves
<1>7. CASE Reboot \/ UNCHANGED vars
  BY <1>1, <1>7 DEF Reboot, Die, vars
<1> QED BY <1>1, <1>2, <1>3, <1>4, <1>5, <1>6, <1>7 DEF Next, Step

LEMMA EffectsStep ==
    ASSUME QuietInv, [Next]_vars PROVE EffectsUnderLease'
<1> SUFFICES ASSUME NEW i \in Invocation, group'[i] = "running", Sure(i)
             PROVE  lease'.active /\ lease'.owner = i
  BY DEF EffectsUnderLease
<1>1. CASE StartEffect(i)
  <2>1. Fenced(i) /\ lease' = lease
    BY <1>1 DEF QuietInv, FenceInv, HoldersKeepLease, StartEffect
  <2> QED BY <2>1, OwnerFromEpoch DEF QuietInv, FenceInv, LeaseInv, FenceNamesOwner, Fenced
<1>2. CASE ~StartEffect(i)
  BY <1>2, GroupsOnlyStop, LeaseOfGroup DEF QuietInv, FenceInv
<1> QED BY <1>1, <1>2

(* The inductive invariant for such groups.                                *)
THEOREM QuietInvariant == Spec => []QuietInv
<1>1. Init => QuietInv
  BY FenceInit DEF QuietInv, Init, LeaseInit, GroupIsLocked, DeadIsQuiet, EffectsUnderLease
<1>2. QuietInv /\ [Next]_vars => QuietInv'
  <2> SUFFICES ASSUME QuietInv, [Next]_vars PROVE QuietInv'
    OBVIOUS
  <2>1. FenceInv'
    BY FenceStep DEF QuietInv
  <2>2. GroupIsLocked'
    BY LockedStep DEF QuietInv
  <2>3. DeadIsQuiet'
    BY QuietDead DEF QuietInv
  <2>4. EffectsUnderLease'
    BY EffectsStep
  <2> QED BY <2>1, <2>2, <2>3, <2>4 DEF QuietInv
<1> QED BY <1>1, <1>2, PTL DEF Spec

(* Such groups run under the active lease of the invocation that started   *)
(* them, so two of them never have effects at the same time.               *)
THEOREM EffectExclusion == Spec => []EffectsUnderLease
<1>1. QuietInv => EffectsUnderLease
  BY DEF QuietInv
<1> QED BY <1>1, QuietInvariant, PTL

(* No probe finds an owner dead while such a group of its runs.            *)
THEOREM NoGroupCalledDead == Spec => []NoFalseDeathWhenSure
<1>1. QuietInv => NoFalseDeathWhenSure
  BY DEF QuietInv, FenceInv, GroupIsLocked, EarlierIsOver, NoFalseDeathWhenSure, Judge, Locked,
     FenceTypeOK
<1> QED BY <1>1, QuietInvariant, PTL
=============================================================================
