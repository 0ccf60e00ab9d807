--------------------------- MODULE InvocationFence --------------------------
(***************************************************************************)
(* The mutation lease under the owner probe the program really uses: the   *)
(* invocation markers of src/fangorn/workspaces.py, the detached helpers   *)
(* _git_guardian.py and _invocation_cleaner.py, and the Git process groups *)
(* that outlive the command that started them.                             *)
(*                                                                         *)
(* Every invocation owns a marker file, locked through a descriptor that   *)
(* its Git process groups and their guardians inherit.  A lease may be     *)
(* taken over once its owner's process is gone, nobody holds the marker's  *)
(* lock and the marker is empty.  Whoever writes, reads or unlinks a       *)
(* marker does so holding its lock, so each such critical section is one   *)
(* action here.                                                            *)
(*                                                                         *)
(* What the operating system may do is a parameter: the members of some    *)
(* groups may close the descriptor they inherited (Dropping), and the      *)
(* process table may stay unreadable until the guardian gives up           *)
(* (GuardianMayGiveUp).                                                    *)
(***************************************************************************)
EXTENDS MutationLease

CONSTANTS Dropping,            \* invocations whose groups may close the descriptor
          GuardianMayGiveUp

ASSUME HostAssumption ==
    /\ Dropping \subseteq Invocation
    /\ GuardianMayGiveUp \in BOOLEAN

VARIABLES marker,      \* each invocation's marker file
          holds,       \* who keeps the descriptor that locks it
          cleaner,     \* invocations whose cleaner waits for that lock
          group,       \* the supervised process group of the current effect
          earlier      \* invocations begun before the last boot

fenceVars == <<marker, holds, cleaner, group, earlier>>
vars == <<lease, version, journal, pc, inspected, verdict, epoch,
          marker, holds, cleaner, group, earlier>>

Holder == {"owner", "group", "guardian"}

(* "ended": the group is gone, and its invocation has yet to learn of it.  *)
FenceTypeOK ==
    /\ LeaseTypeOK
    /\ marker \in [Invocation -> {"absent", "empty", "fenced"}]
    /\ holds \in [Invocation -> SUBSET Holder]
    /\ cleaner \in SUBSET Invocation
    /\ group \in [Invocation -> {"none", "running", "ended"}]
    /\ earlier \in SUBSET Invocation

-----------------------------------------------------------------------------
Locked(i) == holds[i] # {}

(* _owner_status: what a probe of owner k finds.                           *)
JudgeByLock(k) ==
    IF k \in earlier THEN "dead"
    ELSE IF Alive(k) THEN "live"
    ELSE IF marker[k] = "absent" THEN "dead"
    ELSE IF Locked(k) THEN "inconclusive"
    ELSE "dead"

JudgeByPresence(k) ==
    IF k \in earlier THEN "dead"
    ELSE IF Alive(k) THEN "live"
    ELSE IF marker[k] = "absent" THEN "dead"
    ELSE "inconclusive"

JudgeByMarker(k) ==
    IF k \in earlier THEN "dead"
    ELSE IF Alive(k) THEN "live"
    ELSE IF marker[k] = "absent" THEN "dead"
    ELSE IF marker[k] = "fenced" THEN "inconclusive"
    ELSE "dead"

Judge(k) ==
    IF k \in earlier THEN "dead"
    ELSE IF Alive(k) THEN "live"
    ELSE IF marker[k] = "absent" THEN "dead"
    ELSE IF Locked(k) \/ marker[k] = "fenced" THEN "inconclusive"
    ELSE "dead"

(* A registry step of i happens while none of its effects is under way.    *)
Between(i) == group[i] = "none"

-----------------------------------------------------------------------------
Init ==
    /\ LeaseInit
    /\ marker = [i \in Invocation |-> "absent"]
    /\ holds = [i \in Invocation |-> {}]
    /\ cleaner = {}
    /\ group = [i \in Invocation |-> "none"]
    /\ earlier = {}

(* _invocation_process_identity: a fresh, empty, locked marker.            *)
Open(i) ==
    /\ Begin(i)
    /\ marker' = [marker EXCEPT ![i] = "empty"]
    /\ holds' = [holds EXCEPT ![i] = {"owner"}]
    /\ UNCHANGED <<cleaner, group, earlier>>

(* The probe removes the marker of an owner it finds dead by its lock.     *)
ProbeOwner(i) ==
    LET k == inspected[i].owner IN
    /\ Probe(i, Judge(k))
    /\ marker' = [marker EXCEPT ![k] =
                    IF k \notin earlier /\ Judge(k) = "dead" THEN "absent" ELSE @]
    /\ UNCHANGED <<holds, cleaner, group, earlier>>

(* The probe cannot read the boot identity, the process or the marker.     *)
ProbeFails(i) ==
    /\ Probe(i, "inconclusive")
    /\ UNCHANGED fenceVars

(* The transactions of MutationLease.  Rejected is not among them: no live *)
(* holder is ever turned away (HoldersKeepLease).                          *)
Transaction(i) ==
    /\ Between(i)
    /\ \/ Inspect(i) \/ Refused(i) \/ Granted(i) \/ StartStep(i) \/ Stepping(i)
       \/ Complete(i) \/ FailLifecycle(i) \/ FailCreate(i) \/ Release(i)
    /\ UNCHANGED fenceVars

(* _run_supervised_git: the guardian answers before the group runs Git.    *)
StartEffect(i) ==
    /\ pc[i] \in {"holding", "stepping"}
    /\ Between(i)
    /\ group' = [group EXCEPT ![i] = "running"]
    /\ holds' = [holds EXCEPT ![i] = @ \cup {"group", "guardian"}]
    /\ UNCHANGED <<lease, version, journal, pc, inspected, verdict, epoch,
                   marker, cleaner, earlier>>

(* The invocation proves that the group is gone, and goes on.              *)
EffectProven(i) ==
    /\ pc[i] \in {"holding", "stepping"}
    /\ group[i] = "ended"
    /\ group' = [group EXCEPT ![i] = "none"]
    /\ UNCHANGED <<lease, version, journal, pc, inspected, verdict, epoch,
                   marker, holds, cleaner, earlier>>

(* It cannot prove that in time, or cannot establish a guardian before the *)
(* effect, and retains the lease (GitQuiescenceError).                     *)
EffectUnproven(i) ==
    /\ Retain(i)
    /\ UNCHANGED fenceVars

(* The group's last process is gone.                                       *)
GroupStops(i) ==
    /\ group[i] = "running"
    /\ group' = [group EXCEPT ![i] = "ended"]
    /\ holds' = [holds EXCEPT ![i] = @ \ {"group"}]
    /\ UNCHANGED <<lease, version, journal, pc, inspected, verdict, epoch,
                   marker, cleaner, earlier>>

(* What is left of the group has closed the inherited descriptor.          *)
GroupDropsMarker(i) ==
    /\ i \in Dropping
    /\ group[i] = "running"
    /\ "group" \in holds[i]
    /\ holds' = [holds EXCEPT ![i] = @ \ {"group"}]
    /\ UNCHANGED <<lease, version, journal, pc, inspected, verdict, epoch,
                   marker, cleaner, group, earlier>>

(* _git_guardian.main: the group is gone.                                  *)
GuardianLeaves(i) ==
    /\ "guardian" \in holds[i]
    /\ group[i] # "running"
    /\ holds' = [holds EXCEPT ![i] = @ \ {"guardian"}]
    /\ UNCHANGED <<lease, version, journal, pc, inspected, verdict, epoch,
                   marker, cleaner, group, earlier>>

(* _persist_unknown after PROBE_FAILURE_LIMIT failed probes.               *)
GuardianGivesUp(i) ==
    /\ GuardianMayGiveUp
    /\ "guardian" \in holds[i]
    /\ marker' = [marker EXCEPT ![i] = IF @ = "absent" THEN @ ELSE "fenced"]
    /\ holds' = [holds EXCEPT ![i] = @ \ {"guardian"}]
    /\ UNCHANGED <<lease, version, journal, pc, inspected, verdict, epoch,
                   cleaner, group, earlier>>

(* _finish_invocation: close the marker; unlink it if that unlocked it,    *)
(* whatever it holds, else leave it to a cleaner that waits for the lock.  *)
CloseInvocation(i) ==
    /\ Finish(i)
    /\ holds' = [holds EXCEPT ![i] = @ \ {"owner"}]
    /\ IF marker[i] = "absent" THEN UNCHANGED <<marker, cleaner>>
       ELSE IF holds[i] \subseteq {"owner"}
            THEN marker' = [marker EXCEPT ![i] = "absent"] /\ UNCHANGED cleaner
            ELSE cleaner' = cleaner \cup {i} /\ UNCHANGED marker
    /\ UNCHANGED <<group, earlier>>

(* The cleaner could not be started: the marker stays where it is.         *)
CloseUncleaned(i) ==
    /\ Finish(i)
    /\ marker[i] # "absent"
    /\ ~(holds[i] \subseteq {"owner"})
    /\ holds' = [holds EXCEPT ![i] = @ \ {"owner"}]
    /\ UNCHANGED <<marker, cleaner, group, earlier>>

CleanAnyway(i) ==
    /\ i \in cleaner
    /\ marker' = [marker EXCEPT ![i] = "absent"]
    /\ cleaner' = cleaner \ {i}
    /\ UNCHANGED <<lease, version, journal, pc, inspected, verdict, epoch,
                   holds, group, earlier>>

CleanWhatever(i) ==
    /\ i \in cleaner
    /\ ~Locked(i)
    /\ marker' = [marker EXCEPT ![i] = "absent"]
    /\ cleaner' = cleaner \ {i}
    /\ UNCHANGED <<lease, version, journal, pc, inspected, verdict, epoch,
                   holds, group, earlier>>

CleanNothing(i) ==
    /\ i \in cleaner
    /\ ~Locked(i)
    /\ cleaner' = cleaner \ {i}
    /\ UNCHANGED <<lease, version, journal, pc, inspected, verdict, epoch,
                   marker, holds, group, earlier>>

(* _invocation_cleaner.main: with the lock, unlink the marker unless it is *)
(* fenced.                                                                 *)
Clean(i) ==
    /\ i \in cleaner
    /\ ~Locked(i)
    /\ marker' = [marker EXCEPT ![i] = IF @ = "fenced" THEN @ ELSE "absent"]
    /\ cleaner' = cleaner \ {i}
    /\ UNCHANGED <<lease, version, journal, pc, inspected, verdict, epoch,
                   holds, group, earlier>>

(* The process is gone, and with it its own descriptor only.               *)
Exit(i) ==
    /\ Die({i})
    /\ holds' = [holds EXCEPT ![i] = @ \ {"owner"}]
    /\ UNCHANGED <<marker, cleaner, group, earlier>>

(* The operator removes a fenced marker, having confirmed that no process  *)
(* of that invocation remains.                                             *)
OperatorRemoves(i) ==
    /\ marker[i] = "fenced"
    /\ ~Alive(i)
    /\ group[i] # "running"
    /\ marker' = [marker EXCEPT ![i] = "absent"]
    /\ UNCHANGED <<lease, version, journal, pc, inspected, verdict, epoch,
                   holds, cleaner, group, earlier>>

(* The host goes down and comes up with another boot identity.             *)
Reboot ==
    /\ Die({i \in Invocation : Alive(i)})
    /\ holds' = [i \in Invocation |-> {}]
    /\ cleaner' = {}
    /\ group' = [i \in Invocation |-> IF group[i] = "none" THEN "none" ELSE "ended"]
    /\ earlier' = {i \in Invocation : pc[i] # "idle"}
    /\ UNCHANGED marker

Step(i) ==
    \/ Open(i) \/ ProbeOwner(i) \/ ProbeFails(i) \/ Transaction(i)
    \/ StartEffect(i) \/ EffectProven(i) \/ EffectUnproven(i)
    \/ CloseInvocation(i) \/ CloseUncleaned(i)

Next ==
    \/ \E i \in Invocation :
          \/ Step(i) \/ GroupStops(i) \/ GroupDropsMarker(i)
          \/ GuardianLeaves(i) \/ GuardianGivesUp(i) \/ Clean(i)
          \/ Exit(i) \/ OperatorRemoves(i)
    \/ Reboot

Spec == Init /\ [][Next]_vars

(* Guardians and cleaners that are not blocked run: a guardian's probes     *)
(* either tell it that the group is gone or fail until it gives up.        *)
FairSpec ==
    /\ Spec
    /\ \A i \in Invocation :
          /\ WF_vars(GuardianLeaves(i) \/ GuardianGivesUp(i))
          /\ WF_vars(Clean(i))

-----------------------------------------------------------------------------
(* Properties.                                                             *)

(* An invocation that is between acquisition and release passes the fence: *)
(* nothing it records is ever turned away, for no lease is taken over from *)
(* a live process.                                                         *)
HoldersKeepLease ==
    \A i \in Invocation : pc[i] \in {"holding", "stepping"} => Fenced(i)

(* Of the two ways to lose the lock before the group is gone, i's group is *)
(* exposed to one at most.                                                 *)
Sure(i) == i \notin Dropping \/ ~GuardianMayGiveUp

(* A process group runs only under the active lease of the invocation that *)
(* started it, which may be long gone: two invocations never have effects  *)
(* in one scope at a time.  Needs a group that keeps the inherited         *)
(* descriptor, or a guardian that does not give up; what other groups do   *)
(* does not matter.                                                        *)
EffectsUnderLease ==
    \A i \in Invocation :
        group[i] = "running" /\ Sure(i) => lease.active /\ lease.owner = i

(* README: "if proof remains inconclusive, a detached guardian retains the *)
(* lease until no live process remains" - no probe finds an owner dead     *)
(* while its process group runs.                                           *)
NoFalseDeath == \A i \in Invocation : group[i] = "running" => Judge(i) # "dead"

(* The same for groups that keep the descriptor or whose guardian stays.   *)
NoFalseDeathWhenSure ==
    \A i \in Invocation : group[i] = "running" /\ Sure(i) => Judge(i) # "dead"

(* The same for an invocation that was killed, whatever its group and its  *)
(* guardian do: the marker outlives both.                                  *)
CrashFence ==
    \A i \in Invocation : group[i] = "running" /\ pc[i] = "killed" => Judge(i) # "dead"

(* A quiescence-unknown marker goes away only by the operator's hand, or   *)
(* when the invocation it belongs to ends by itself: no probe and no       *)
(* cleaner removes it.                                                     *)
FenceKept ==
    [][ \A i \in Invocation :
            marker[i] = "fenced" /\ marker'[i] # "fenced"
                => OperatorRemoves(i) \/ CloseInvocation(i) ]_vars

(* A lease whose owner is gone with its group can be taken over in the     *)
(* end, unless the marker waits for the operator: no helper keeps the lock *)
(* forever.                                                                *)
Ended(i) == pc[i] \in {"exited", "killed"} /\ group[i] # "running"

Recoverable ==
    \A i \in Invocation : Ended(i) ~> (Judge(i) = "dead" \/ marker[i] = "fenced")

(* A marker left to a cleaner is removed once nobody locks it, or kept     *)
(* because it is fenced, or the host went down first.                      *)
MarkersCleaned ==
    \A i \in Invocation :
        i \in cleaner /\ group[i] # "running" ~> (marker[i] # "empty" \/ i \in earlier)
=============================================================================
