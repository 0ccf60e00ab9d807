---------------------- MODULE WorkspaceLifecycleProofs ----------------------
(***************************************************************************)
(* Proofs about the lifecycle commands of a Workspace, for any number of   *)
(* commands and Services and any disturbance of them.                      *)
(*                                                                         *)
(* The journal of an operation is the plan of its command, whatever became *)
(* of its steps (JournalInv), and the command that holds the lease works   *)
(* on the current operation alone (OwnInv, CurrentInv).  So what a command *)
(* may rely on can be told from its plan: what it made of every Service on *)
(* its way to the step it is at is what was last seen of that Service      *)
(* (SeenInv), and the Worktree is gone once it was removed (RemovedInv).   *)
(*                                                                         *)
(* A resumed delete relies on receipts of an earlier attempt.  They are    *)
(* good unless others removed the Worktree after a barrier had been passed *)
(* (undermined): one that is absent was removed by a delete that saw every *)
(* Service absent, and nothing observed them since, or it went when no     *)
(* delete had passed its barrier, and whoever passes the first has seen    *)
(* every Service absent after that (PresentInv, BarrierInv, ResumedInv).   *)
(***************************************************************************)
EXTENDS WorkspaceLifecycle, TLAPS

Action == {"start", "stop", "ownership", "delete", "absence", "barrier", "forget"}
StepStatus == {"pending", "running", "completed", "failed", "unknown"}
JournalStep == [action : Action, resource : {"worktree"} \cup Service,
                verify : BOOLEAN, status : StepStatus]
Kind == Command \cup {"none", "create"}
OperationStatus == {"none", "running", "completed", "failed"}
Journal == [kind : Kind, status : OperationStatus, steps : Seq(JournalStep)]
State == {"ready", "stopped", "create_failed", "starting", "stopping", "deleting",
          "start_failed", "stop_failed", "delete_failed", "deleted"}
Condition == {"absent", "stopped", "ready", "degraded"}
Base == [state : State, version : Nat, op : Operation, kind : Kind, status : OperationStatus,
         receipt : BOOLEAN]
Local == [stage : Stage, command : Command \cup {"none"}, force : BOOLEAN,
          base : Base \cup {<<>>}, op : Operation \cup {NoOne}, at : Nat,
          outcome : {"none", "ok", "safe", "stuck"}, failed : SUBSET Service,
          blame : Action \cup {"none"}, resume : BOOLEAN]

Typing ==
  /\ workspace \in [state : State, version : Nat, op : Operation, forgotten : BOOLEAN]
  /\ operations \in [Operation -> Journal]
  /\ holder \in Invocation \cup {NoOne}
  /\ run \in [Invocation -> Local]
  /\ worktree \in {"present", "absent"}
  /\ service \in [Service -> Condition]
  /\ drifts \in 0 .. MaxDrift
  /\ seen \in [Service -> [by : Invocation \cup {NoOne}, status : Condition \cup {"unknown"}]]
  /\ undermined \in BOOLEAN

Begun == {"begun", "stepping", "effect", "recording", "failing"}
Looping == {"stepping", "effect", "recording"}

(* A command has a plan and, once it is planned, an operation of its own   *)
(* kind that is not the create.                                            *)
Course(i) == CommandSteps(run[i].command, Resources)

OwnInv ==
  \A i \in Invocation :
     /\ run[i].stage \in Owning => holder = i
     /\ run[i].stage \in Bound \cup {"gone"} => run[i].op \in Invocation
     /\ run[i].stage \in Bound => run[i].command \in Command /\ run[i].base \in Base
     /\ run[i].stage \in {"idle", "planned", "acquired", "checked", "begun"} =>
           run[i].failed = {} /\ run[i].blame = "none" /\ ~run[i].resume

Follows(steps, plan) ==
  /\ Len(steps) = Len(plan)
  /\ \A p \in 1 .. Len(plan) :
        /\ steps[p].action = plan[p].action
        /\ steps[p].resource = plan[p].resource
        /\ steps[p].verify = plan[p].verify

JournalInv ==
  /\ operations[Creation].kind = "create" /\ operations[Creation].steps = <<>>
  /\ \A o \in Invocation :
        /\ operations[o].kind \in Command \cup {"none"}
        /\ operations[o].kind = "none" => operations[o].steps = <<>>
        /\ operations[o].kind \in Command =>
              Follows(operations[o].steps, CommandSteps(operations[o].kind, Resources))

(* What the holder of the lease knows of the aggregate and its operation.  *)
CurrentInv ==
  \A i \in Invocation :
     /\ run[i].stage = "checked" => workspace.state = run[i].base.state
     /\ run[i].stage \in Begun =>
           /\ workspace.op = run[i].op
           /\ operations[run[i].op].kind = run[i].command
           /\ operations[run[i].op].status = "running"
           /\ ~workspace.forgotten
           /\ IF run[i].command = "forget" THEN workspace.state = run[i].base.state
              ELSE workspace.state \in Underway[run[i].command]

(* What an error is blamed on.                                             *)
BlameInv ==
  \A i \in Invocation : run[i].stage \in Begun =>
     /\ run[i].blame = "start" => run[i].command \in {"start", "restart"}
     /\ run[i].command = "start" =>
           run[i].failed = {} /\ (run[i].stage = "failing" => run[i].blame = "start")

(* Where in its plan a command is.                                         *)
AtInv ==
  \A i \in Invocation : run[i].stage \in Looping =>
     /\ run[i].at \in 1 .. Len(Course(i)) + 1
     /\ \A s \in run[i].failed :
           \E p \in 1 .. Len(Course(i)) : p < run[i].at /\ Course(i)[p].resource = s
     /\ run[i].stage \in {"effect", "recording"} =>
           LET step == Course(i)[run[i].at] IN
           /\ run[i].at \in 1 .. Len(Course(i))
           /\ run[i].resume => step.resource = "worktree" /\ step.action # "barrier"
           /\ step.action = "start" \/ step.resource = "worktree" => run[i].failed = {}

ResumeInv ==
  \A i \in Invocation :
     run[i].stage \in Begun /\ run[i].resume => run[i].command = "delete" /\ worktree = "absent"

(* A step that a command has left behind, or finished.                     *)
Behind(i, p) ==
  \/ p < run[i].at
  \/ p = run[i].at /\ run[i].stage = "recording" /\ run[i].outcome = "ok"

(* A step that is about to be found to have failed.                        *)
Failed(i, p) == p = run[i].at /\ run[i].stage = "recording" /\ run[i].outcome # "ok"

(* The Service of a step was started since.                                *)
Restarted(i, p) ==
  \E q \in 1 .. Len(Course(i)) :
     /\ Behind(i, q)
     /\ Course(i)[q].action = "start" /\ Course(i)[q].resource = Course(i)[p].resource

(* What a step that went well says of its Service as long as it, or a      *)
(* start, was the last to be done to it.                                   *)
Tells(i, p) ==
  LET step == Course(i)[p]
      found == seen[step.resource] IN
  /\ found.by = i
  /\ step.action = "start" => found.status = "ready"
  /\ step.action = "stop" => \/ found.status \in {"stopped", "absent"}
                             \/ found.status = "ready" /\ Restarted(i, p)
  /\ step.action \in {"delete", "absence"} => found.status = "absent"

SeenInv ==
  \A i \in Invocation : run[i].stage \in Looping /\ ~run[i].resume =>
     \A p \in 1 .. Len(Course(i)) :
        LET step == Course(i)[p] IN
        /\ Behind(i, p)
        /\ step.resource # "worktree"
        /\ step.resource \notin run[i].failed
        /\ \A q \in 1 .. Len(Course(i)) :
              Failed(i, q) => /\ Course(i)[q].resource # step.resource
                              /\ Course(i)[q].action # "barrier"
        => Tells(i, p)

(* A start that is behind is on record.                                    *)
StartedInv ==
  \A i \in Invocation : run[i].stage \in Looping =>
     \A p \in 1 .. Len(Course(i)) :
        p < run[i].at /\ Course(i)[p].action = "start" => Steps(i)[p].status = "completed"

Removal(step) == step.resource = "worktree" /\ step.action \in {"delete", "absence"}

RemovedInv ==
  \A i \in Invocation : run[i].stage \in Looping =>
     \A p \in 1 .. Len(Course(i)) :
        Behind(i, p) /\ Removal(Course(i)[p]) => worktree = "absent"

(* Receipts of a delete.                                                   *)
AllAbsent == \A s \in Service : seen[s].status = "absent"

Barred(steps) == Recorded(steps, "barrier", "worktree", {"completed"})

NeverBarred ==
  /\ \A o \in Operation : ~Barred(operations[o].steps)
  /\ \A i \in Invocation : run[i].stage \in Bound => ~run[i].base.receipt

(* A delete that has got past a Service step still has its Worktree until  *)
(* it comes to remove it; if others removed it, no barrier had been passed *)
(* by then.                                                                *)
Past(i, p) == p < run[i].at \/ (p = run[i].at /\ run[i].stage = "recording")

PassedBarrier(i) ==
  \E q \in 1 .. Len(Course(i)) : q < run[i].at /\ Course(i)[q].action = "barrier"

PresentInv ==
  \A i \in Invocation :
     run[i].stage \in Looping /\ run[i].command = "delete" /\ ~run[i].resume =>
        \A p \in 1 .. Len(Course(i)) :
           /\ Course(i)[p].resource # "worktree"
           /\ Past(i, p)
           /\ \A q \in 1 .. Len(Course(i)) : Past(i, q) => ~Removal(Course(i)[q])
           => worktree = "present" \/ undermined \/ NeverBarred \/ PassedBarrier(i)

BarrierInv == worktree = "absent" => undermined \/ AllAbsent \/ NeverBarred

ResumedInv ==
  \A i \in Invocation : run[i].stage \in Begun /\ run[i].resume => AllAbsent \/ undermined

LifecycleInv ==
  /\ Typing
  /\ OwnInv
  /\ JournalInv
  /\ CurrentInv
  /\ BlameInv
  /\ StateMatchesJournal
  /\ AtInv
  /\ ResumeInv
  /\ SeenInv
  /\ StartedInv
  /\ RemovedInv

ReceiptInv ==
  /\ PresentInv
  /\ BarrierInv
  /\ ResumedInv
  /\ DeletedIsProven


-----------------------------------------------------------------------------
(* The plans.                                                              *)
LEMMA SequenceOf ==
  ASSUME NEW S, NEW n \in Nat, NEW f \in [1 .. n -> S]
  PROVE  f \in Seq(S) /\ Len(f) = n /\ DOMAIN f = 1 .. n
OBVIOUS

LEMMA Joined ==
  ASSUME NEW S, NEW s \in Seq(S), NEW t \in Seq(S)
  PROVE  /\ s \o t \in Seq(S)
         /\ Len(s \o t) = Len(s) + Len(t)
         /\ \A p \in 1 .. Len(s \o t) :
               (s \o t)[p] = IF p <= Len(s) THEN s[p] ELSE t[p - Len(s)]
OBVIOUS

LEMMA ResourcesType ==
  /\ Services \in Seq(Service) /\ Len(Services) \in Nat
  /\ Resources \in Seq({"worktree"} \cup Service)
  /\ Len(Resources) = Len(Services) + 1 /\ DOMAIN Resources = 1 .. Len(Resources)
  /\ Resources[1] = "worktree"
  /\ \A p \in 2 .. Len(Resources) : Resources[p] = Services[p - 1] /\ Resources[p] \in Service
  /\ \A s \in Service : \E p \in 2 .. Len(Resources) : Resources[p] = s
  /\ "worktree" \notin Service
<1>1. /\ Services \in Seq(Service) /\ Len(Services) \in Nat /\ "worktree" \notin Service
      /\ DOMAIN Services = 1 .. Len(Services)
  BY LifecycleAssumption DEF Service
<1>2. /\ <<"worktree">> \in Seq({"worktree"} \cup Service) /\ Len(<<"worktree">>) = 1
      /\ <<"worktree">>[1] = "worktree"
  OBVIOUS
<1>3. Services \in Seq({"worktree"} \cup Service)
  <2>1. \A p \in 1 .. Len(Services) : Services[p] \in {"worktree"} \cup Service
    BY <1>1
  <2> QED BY <1>1, <2>1
<1>4. /\ Resources \in Seq({"worktree"} \cup Service)
      /\ Len(Resources) = Len(Services) + 1
      /\ \A p \in 1 .. Len(Resources) :
            Resources[p] = IF p <= 1 THEN <<"worktree">>[p] ELSE Services[p - 1]
  BY <1>1, <1>2, <1>3, Joined DEF Resources
<1>5. \A p \in 2 .. Len(Resources) : Resources[p] = Services[p - 1] /\ Resources[p] \in Service
  BY <1>1, <1>4
<1>6. ASSUME NEW s \in Service PROVE \E p \in 2 .. Len(Resources) : Resources[p] = s
  <2>1. PICK k \in DOMAIN Services : Services[k] = s
    BY DEF Service, ToSet
  <2>2. k + 1 \in 2 .. Len(Resources) /\ Resources[k + 1] = s
    BY <1>1, <1>4, <1>5, <2>1
  <2> QED BY <2>2
<1> QED BY <1>1, <1>2, <1>4, <1>5, <1>6

LEMMA Reversed ==
  /\ Reverse(Resources) \in Seq({"worktree"} \cup Service)
  /\ Len(Reverse(Resources)) = Len(Resources)
  /\ \A p \in 1 .. Len(Resources) - 1 : Reverse(Resources)[p] \in Service
  /\ Reverse(Resources)[Len(Resources)] = "worktree"
  /\ \A s \in Service : \E p \in 1 .. Len(Resources) - 1 : Reverse(Resources)[p] = s
<1> DEFINE n == Len(Resources)
<1>0. n \in Nat /\ n > 0
  BY ResourcesType
<1>1. \A p \in 1 .. n : /\ Reverse(Resources)[p] = Resources[(n - p) + 1]
                       /\ (n - p) + 1 \in 1 .. n
  BY <1>0 DEF Reverse
<1>2. Reverse(Resources) \in [1 .. n -> {"worktree"} \cup Service]
  <2>1. \A p \in 1 .. n : Resources[p] \in {"worktree"} \cup Service
    BY ResourcesType
  <2> QED BY <1>0, <2>1 DEF Reverse
<1>3. \A k \in 2 .. n : (n - k) + 1 \in 1 .. n - 1 /\ (n - ((n - k) + 1)) + 1 = k
  BY <1>0
<1>4. \A p \in 1 .. n - 1 : (n - p) + 1 \in 2 .. n
  BY <1>0
<1>5. (n - n) + 1 = 1 /\ n \in 1 .. n
  BY <1>0
<1>6. \A p \in 2 .. n : Resources[p] \in Service
  BY ResourcesType
<1>7. \A s \in Service : \E p \in 2 .. n : Resources[p] = s
  BY ResourcesType
<1>8. Resources[1] = "worktree"
  BY ResourcesType
<1>9. Reverse(Resources) \in Seq({"worktree"} \cup Service) /\ Len(Reverse(Resources)) = n
  BY <1>0, <1>2, SequenceOf
<1> HIDE DEF n
<1>10. \A p \in 1 .. n - 1 : Reverse(Resources)[p] \in Service
  <2> TAKE p \in 1 .. n - 1
  <2>1. p \in 1 .. n /\ (n - p) + 1 \in 2 .. n
    BY <1>0, <1>4
  <2> QED BY <1>1, <1>6, <2>1
<1>11. Reverse(Resources)[n] = "worktree"
  BY <1>1, <1>5, <1>8
<1>12. \A s \in Service : \E p \in 1 .. n - 1 : Reverse(Resources)[p] = s
  <2> TAKE s \in Service
  <2>1. PICK k \in 2 .. n : Resources[k] = s
    BY <1>7
  <2>2. (n - k) + 1 \in 1 .. n - 1 /\ (n - k) + 1 \in 1 .. n
    BY <1>0, <1>3
  <2>3. Reverse(Resources)[(n - k) + 1] = s
    BY <1>1, <1>3, <2>1, <2>2
  <2> QED BY <2>2, <2>3
<1> QED BY <1>9, <1>10, <1>11, <1>12 DEF n

Visits(action, resources, verified) ==
  [p \in DOMAIN resources |-> Step(action, resources[p])]
  \o IF Len(resources) > 1
     THEN [p \in DOMAIN verified |-> Verification(action, verified[p])] ELSE <<>>

OnePhase(action, resources, verified, plan) ==
  /\ plan \in Seq(JournalStep)
  /\ Len(plan) = IF Len(resources) > 1 THEN 2 * Len(resources) ELSE Len(resources)
  /\ \A p \in 1 .. Len(plan) :
        /\ plan[p].action = action /\ plan[p].status = "pending"
        /\ p <= Len(resources) => plan[p].resource = resources[p]
        /\ p > Len(resources) => plan[p].resource = verified[p - Len(resources)]

LEMMA InOrder ==
  ASSUME NEW action \in Action,
         NEW resources \in Seq({"worktree"} \cup Service),
         NEW verified \in Seq({"worktree"} \cup Service), Len(verified) = Len(resources)
  PROVE  OnePhase(action, resources, verified, Visits(action, resources, verified))
<1> DEFINE n == Len(resources)
           plan == Visits(action, resources, verified)
           first == [p \in DOMAIN resources |-> Step(action, resources[p])]
           second == [p \in DOMAIN verified |-> Verification(action, verified[p])]
           rest == IF n > 1 THEN second ELSE <<>>
<1>1. n \in Nat /\ DOMAIN resources = 1 .. n /\ DOMAIN verified = 1 .. n
  OBVIOUS
<1>2. plan = first \o rest
  BY DEF Visits
<1>3. ASSUME NEW p \in 1 .. n
      PROVE  /\ first[p] = Step(action, resources[p])
             /\ second[p] = Verification(action, verified[p])
             /\ resources[p] \in {"worktree"} \cup Service
             /\ verified[p] \in {"worktree"} \cup Service
  BY <1>1
<1>4. ASSUME NEW p \in 1 .. n
      PROVE  /\ first[p].action = action /\ first[p].resource = resources[p]
             /\ first[p].status = "pending" /\ first[p] \in JournalStep
             /\ second[p].action = action /\ second[p].resource = verified[p]
             /\ second[p].status = "pending" /\ second[p] \in JournalStep
  <2> HIDE DEF first, second, n
  <2>0. action \in Action /\ resources[p] \in {"worktree"} \cup Service
        /\ verified[p] \in {"worktree"} \cup Service
    BY <1>3
  <2>1. /\ Step(action, resources[p]) \in JournalStep
        /\ Step(action, resources[p]).action = action
        /\ Step(action, resources[p]).resource = resources[p]
        /\ Step(action, resources[p]).status = "pending"
    BY <2>0 DEF Step, Verification, JournalStep, StepStatus
  <2>2. /\ Verification(action, verified[p]) \in JournalStep
        /\ Verification(action, verified[p]).action = action
        /\ Verification(action, verified[p]).resource = verified[p]
        /\ Verification(action, verified[p]).status = "pending"
    BY <2>0 DEF Step, Verification, JournalStep, StepStatus
  <2> QED BY <1>3, <2>1, <2>2
<1>5. first \in [1 .. n -> JournalStep] /\ second \in [1 .. n -> JournalStep]
  <2>1. DOMAIN first = 1 .. n /\ DOMAIN second = 1 .. n
    BY <1>1
  <2> QED BY <1>1, <1>4, <2>1
<1> HIDE DEF first, second, n
<1>6. /\ first \in Seq(JournalStep) /\ Len(first) = n
      /\ second \in Seq(JournalStep) /\ Len(second) = n
  BY <1>1, <1>5, SequenceOf
<1>7. rest \in Seq(JournalStep) /\ Len(rest) = IF n > 1 THEN n ELSE 0
  <2>1. <<>> \in Seq(JournalStep) /\ Len(<<>>) = 0
    OBVIOUS
  <2> QED BY <1>6, <2>1
<1>8. n > 1 => rest = second
  OBVIOUS
<1> HIDE DEF rest, plan
<1>9. /\ plan \in Seq(JournalStep)
      /\ Len(plan) = Len(first) + Len(rest)
      /\ \A p \in 1 .. Len(plan) :
            plan[p] = IF p <= Len(first) THEN first[p] ELSE rest[p - Len(first)]
  <2>1. /\ first \o rest \in Seq(JournalStep)
        /\ Len(first \o rest) = Len(first) + Len(rest)
        /\ \A p \in 1 .. Len(first \o rest) :
              (first \o rest)[p] = IF p <= Len(first) THEN first[p] ELSE rest[p - Len(first)]
    <3>1. first \in Seq(JournalStep) /\ rest \in Seq(JournalStep)
      BY <1>6, <1>7
    <3> QED BY <3>1, Joined
  <2> QED BY <1>2, <2>1
<1>10. Len(plan) = IF n > 1 THEN 2 * n ELSE n
  BY <1>1, <1>6, <1>7, <1>9
<1>11. ASSUME NEW p \in 1 .. Len(plan)
       PROVE  /\ plan[p].action = action /\ plan[p].status = "pending"
              /\ p <= n => plan[p].resource = resources[p]
              /\ p > n => plan[p].resource = verified[p - n]
  <2>1. CASE p <= n
    <3>1. p \in 1 .. n /\ plan[p] = first[p]
      BY <1>1, <1>6, <1>9, <2>1
    <3>2. ~(p > n)
      BY <1>1, <2>1
    <3> QED BY <1>4, <3>1, <3>2
  <2>2. CASE p > n
    <3>1. n > 1 /\ p - n \in 1 .. n
      BY <1>1, <1>10, <2>2
    <3>2. plan[p] = second[p - n] /\ ~(p <= n)
      BY <1>1, <1>6, <1>8, <1>9, <2>2, <3>1
    <3> QED BY <1>4, <3>1, <3>2
  <2> QED BY <2>1, <2>2, <1>1
<1> QED BY <1>9, <1>10, <1>11 DEF n, plan, OnePhase

LEMMA StopPlan == OnePhase("stop", Reverse(Resources), Resources, StopSteps(Resources))
<1>1. DOMAIN Reverse(Resources) = DOMAIN Resources /\ "stop" \in Action
  BY Reversed, ResourcesType DEF Action
<1>2. StopSteps(Resources) = Visits("stop", Reverse(Resources), Resources)
  BY <1>1, Reversed DEF StopSteps, Visits
<1>3. /\ Reverse(Resources) \in Seq({"worktree"} \cup Service)
      /\ Resources \in Seq({"worktree"} \cup Service)
      /\ Len(Resources) = Len(Reverse(Resources))
  BY Reversed, ResourcesType
<1> QED BY <1>1, <1>2, <1>3, InOrder

LEMMA StartPlan == OnePhase("start", Resources, Resources, StartSteps(Resources))
<1>1. StartSteps(Resources) = Visits("start", Resources, Resources) /\ "start" \in Action
  BY DEF StartSteps, Visits, Action
<1>2. Resources \in Seq({"worktree"} \cup Service) /\ Len(Resources) = Len(Resources)
  BY ResourcesType
<1> QED BY <1>1, <1>2, InOrder

(* A delete: ownership of all, every Service deleted and absent in turn,   *)
(* the barrier, and the Worktree.                                          *)
Deletes(plan, n) ==
  LET m == 3 * n - 2 IN
  /\ plan \in Seq(JournalStep)
  /\ Len(plan) = IF n > 1 THEN m + 3 ELSE m + 2
  /\ \A p \in 1 .. Len(plan) : plan[p].status = "pending" /\ plan[p].verify = FALSE
  /\ \A p \in 1 .. n : /\ plan[p].action = "ownership"
                       /\ plan[p].resource = Reverse(Resources)[p]
  /\ \A p \in n + 1 .. m : plan[p].action \in {"delete", "absence"} /\ plan[p].resource \in Service
  /\ \A s \in Service : \E p \in n + 1 .. m : plan[p].action = "delete" /\ plan[p].resource = s
  /\ \A p \in m + 1 .. Len(plan) : plan[p].resource = "worktree"
  /\ n > 1 => plan[m + 1].action = "barrier"
  /\ plan[Len(plan) - 1].action = "delete"
  /\ plan[Len(plan)].action = "absence"

LEMMA DeletePlan == Deletes(DeleteSteps(Resources), Len(Resources))
<1> DEFINE n == Len(Resources)
           rev == Reverse(Resources)
           plan == DeleteSteps(Resources)
           owned == [p \in DOMAIN Resources |-> Step("ownership", rev[p])]
           pair == [p \in 1 .. 2 * (n - 1) |->
                       Step(IF p % 2 = 1 THEN "delete" ELSE "absence", rev[(p + 1) \div 2])]
           wall == IF n > 1 THEN <<Step("barrier", "worktree")>> ELSE <<>>
           last == <<Step("delete", "worktree"), Step("absence", "worktree")>>
           k == 2 * (n - 1)
           m == 3 * n - 2
<1>1. /\ n \in Nat /\ n > 0 /\ k \in Nat /\ DOMAIN Resources = 1 .. n /\ m \in Nat
      /\ m = n + k
  BY ResourcesType
<1>2. plan = owned \o pair \o wall \o last
  BY DEF DeleteSteps
<1>3. /\ \A p \in 1 .. n : rev[p] \in {"worktree"} \cup Service
      /\ \A p \in 1 .. n - 1 : rev[p] \in Service
      /\ \A s \in Service : \E p \in 1 .. n - 1 : rev[p] = s
  BY <1>1, Reversed
<1>4. ASSUME NEW p \in 1 .. k PROVE (p + 1) \div 2 \in 1 .. n - 1
  BY <1>1
<1>5. ASSUME NEW q \in 1 .. n - 1
      PROVE  2 * q - 1 \in 1 .. k /\ (2 * q - 1) % 2 = 1 /\ ((2 * q - 1) + 1) \div 2 = q
  BY <1>1
<1> HIDE DEF k, m, n, rev
<1>6. ASSUME NEW p \in 1 .. n
      PROVE  /\ owned[p] \in JournalStep /\ owned[p].status = "pending"
             /\ owned[p].verify = FALSE
             /\ owned[p].action = "ownership" /\ owned[p].resource = rev[p]
  <2>1. owned[p] = Step("ownership", rev[p]) /\ rev[p] \in {"worktree"} \cup Service
    BY <1>1, <1>3
  <2>2. PICK s \in {"worktree"} \cup Service : s = rev[p]
    BY <2>1
  <2> HIDE DEF owned
  <2>3. owned[p] = [action |-> "ownership", resource |-> s, verify |-> FALSE, status |-> "pending"]
    BY <2>1, <2>2 DEF Step
  <2>4. owned[p] \in JournalStep
    BY <2>3 DEF JournalStep, StepStatus, Action
  <2> QED BY <2>2, <2>3, <2>4
<1>7. ASSUME NEW p \in 1 .. k
      PROVE  /\ pair[p] \in JournalStep /\ pair[p].status = "pending"
             /\ pair[p].verify = FALSE
             /\ pair[p].action \in {"delete", "absence"} /\ pair[p].resource \in Service
             /\ p % 2 = 1 => pair[p].action = "delete"
             /\ pair[p].resource = rev[(p + 1) \div 2]
  <2>1. /\ pair[p] = Step(IF p % 2 = 1 THEN "delete" ELSE "absence", rev[(p + 1) \div 2])
        /\ rev[(p + 1) \div 2] \in Service
    BY <1>3, <1>4 DEF k
  <2>2. PICK s \in Service : s = rev[(p + 1) \div 2]
    BY <2>1
  <2>3. PICK a \in {"delete", "absence"} : a = IF p % 2 = 1 THEN "delete" ELSE "absence"
    OBVIOUS
  <2>4. pair[p] = [action |-> a, resource |-> s, verify |-> FALSE, status |-> "pending"]
    BY <2>1, <2>2, <2>3 DEF Step
  <2> HIDE DEF pair
  <2>5. /\ pair[p] \in JournalStep /\ pair[p].status = "pending"
        /\ pair[p].verify = FALSE /\ pair[p].action = a /\ pair[p].resource = s
    BY <2>4 DEF JournalStep, StepStatus, Action
  <2>6. p % 2 = 1 => a = "delete"
    BY <2>3
  <2> QED BY <2>2, <2>5, <2>6
<1>8. /\ owned \in [1 .. n -> JournalStep] /\ pair \in [1 .. k -> JournalStep]
  <2>1. DOMAIN owned = 1 .. n /\ DOMAIN pair = 1 .. k
    BY <1>1 DEF k
  <2> QED BY <1>6, <1>7, <2>1
<1>9. /\ Step("barrier", "worktree") \in JournalStep
      /\ Step("delete", "worktree") \in JournalStep
      /\ Step("absence", "worktree") \in JournalStep
  BY DEF Step, JournalStep, StepStatus, Action
<1>10. /\ wall \in Seq(JournalStep) /\ last \in Seq(JournalStep)
       /\ Len(wall) = IF n > 1 THEN 1 ELSE 0
       /\ Len(last) = 2
       /\ n > 1 => wall[1] = Step("barrier", "worktree")
       /\ last[1] = Step("delete", "worktree") /\ last[2] = Step("absence", "worktree")
  BY <1>9
<1> HIDE DEF owned, pair, wall, last, plan
<1>11. /\ owned \in Seq(JournalStep) /\ Len(owned) = n
       /\ pair \in Seq(JournalStep) /\ Len(pair) = k
  BY <1>1, <1>8, SequenceOf
<1> DEFINE ab == owned \o pair
           abc == ab \o wall
<1>12. /\ ab \in Seq(JournalStep) /\ Len(ab) = m
       /\ \A p \in 1 .. m : ab[p] = IF p <= n THEN owned[p] ELSE pair[p - n]
  <2>1. /\ ab \in Seq(JournalStep) /\ Len(ab) = Len(owned) + Len(pair)
        /\ \A p \in 1 .. Len(ab) :
              ab[p] = IF p <= Len(owned) THEN owned[p] ELSE pair[p - Len(owned)]
    BY <1>11, Joined
  <2> HIDE DEF ab
  <2> QED BY <1>1, <1>11, <2>1
<1> HIDE DEF ab
<1>13. /\ abc \in Seq(JournalStep) /\ Len(abc) = m + Len(wall)
       /\ \A p \in 1 .. m + Len(wall) : abc[p] = IF p <= m THEN ab[p] ELSE wall[p - m]
  <2>1. /\ abc \in Seq(JournalStep) /\ Len(abc) = Len(ab) + Len(wall)
        /\ \A p \in 1 .. Len(abc) : abc[p] = IF p <= Len(ab) THEN ab[p] ELSE wall[p - Len(ab)]
    BY <1>10, <1>12, Joined
  <2> HIDE DEF abc
  <2> QED BY <1>1, <1>12, <2>1
<1>14. plan = abc \o last
  BY <1>2 DEF ab
<1> HIDE DEF abc
<1>15. /\ plan \in Seq(JournalStep) /\ Len(plan) = m + Len(wall) + 2
       /\ \A p \in 1 .. m + Len(wall) + 2 :
             plan[p] = IF p <= m + Len(wall) THEN abc[p] ELSE last[p - (m + Len(wall))]
  <2> DEFINE all == abc \o last
  <2>1. /\ all \in Seq(JournalStep) /\ Len(all) = Len(abc) + Len(last)
        /\ \A p \in 1 .. Len(all) : all[p] = IF p <= Len(abc) THEN abc[p] ELSE last[p - Len(abc)]
    BY <1>10, <1>13, Joined
  <2>2. all = plan
    BY <1>14
  <2> HIDE DEF all
  <2> QED BY <1>1, <1>10, <1>13, <2>1, <2>2
<1>16. Len(plan) = IF n > 1 THEN m + 3 ELSE m + 2
  BY <1>1, <1>10, <1>15
<1>17. ASSUME NEW p \in 1 .. m PROVE plan[p] = IF p <= n THEN owned[p] ELSE pair[p - n]
  <2>1. p \in 1 .. m + Len(wall) + 2 /\ p \in 1 .. m + Len(wall) /\ p <= m + Len(wall)
    BY <1>1, <1>10
  <2> QED BY <1>12, <1>13, <1>15, <2>1
<1>18. n > 1 => plan[m + 1] = Step("barrier", "worktree")
  <2> SUFFICES ASSUME n > 1 PROVE plan[m + 1] = Step("barrier", "worktree")
    OBVIOUS
  <2>1. Len(wall) = 1
    BY <1>10
  <2>2. m + 1 \in 1 .. m + Len(wall) + 2 /\ m + 1 \in 1 .. m + Len(wall) /\ ~(m + 1 <= m)
        /\ (m + 1) - m = 1
    BY <1>1, <2>1
  <2> QED BY <1>10, <1>13, <1>15, <2>1, <2>2
<1>19. /\ plan[Len(plan) - 1] = Step("delete", "worktree")
       /\ plan[Len(plan)] = Step("absence", "worktree")
  <2> DEFINE b == m + Len(wall)
  <2>1. b \in Nat /\ Len(plan) = b + 2
    BY <1>1, <1>10, <1>15
  <2> HIDE DEF b
  <2>2. \A p \in 1 .. b + 2 : plan[p] = IF p <= b THEN abc[p] ELSE last[p - b]
    BY <1>15 DEF b
  <2>3. plan[b + 1] = last[1] /\ plan[b + 2] = last[2] /\ (b + 2) - 1 = b + 1
    BY <2>1, <2>2
  <2> QED BY <1>10, <2>1, <2>3
<1>20. \A p \in 1 .. n : /\ plan[p] = owned[p] /\ p \in 1 .. m
  BY <1>1, <1>17
<1>21. \A p \in n + 1 .. m : plan[p] = pair[p - n] /\ p - n \in 1 .. k
  BY <1>1, <1>17
<1>22. ASSUME NEW p \in m + 1 .. Len(plan)
       PROVE  \E action \in Action : plan[p] = Step(action, "worktree")
  <2>1. CASE n > 1
    <3>1. p = m + 1 \/ p = Len(plan) - 1 \/ p = Len(plan)
      BY <1>1, <1>16, <2>1
    <3> QED BY <1>18, <1>19, <2>1, <3>1 DEF Action
  <2>2. CASE ~(n > 1)
    <3>1. p = Len(plan) - 1 \/ p = Len(plan)
      BY <1>1, <1>16, <2>2
    <3> QED BY <1>19, <3>1 DEF Action
  <2> QED BY <2>1, <2>2
<1>23. \A p \in m + 1 .. Len(plan) : /\ plan[p].resource = "worktree" /\ plan[p].status = "pending"
                                     /\ plan[p].verify = FALSE
  <2> TAKE p \in m + 1 .. Len(plan)
  <2>1. PICK action \in Action : plan[p] = Step(action, "worktree")
    BY <1>22
  <2> QED BY <2>1 DEF Step
<1>24. ASSUME NEW p \in 1 .. Len(plan)
       PROVE  plan[p].status = "pending" /\ plan[p].verify = FALSE
  <2>1. p \in 1 .. n \/ p \in n + 1 .. m \/ p \in m + 1 .. Len(plan)
    BY <1>1
  <2>2. CASE p \in 1 .. n
    BY <1>6, <1>20, <2>2
  <2>3. CASE p \in n + 1 .. m
    BY <1>7, <1>21, <2>3
  <2>4. CASE p \in m + 1 .. Len(plan)
    BY <1>23, <2>4
  <2> QED BY <2>1, <2>2, <2>3, <2>4
<1>25. ASSUME NEW s \in Service
       PROVE  \E p \in n + 1 .. m : plan[p].action = "delete" /\ plan[p].resource = s
  <2>1. PICK q \in 1 .. n - 1 : rev[q] = s
    BY <1>3
  <2>2. pair[2 * q - 1].action = "delete" /\ pair[2 * q - 1].resource = s
    BY <1>5, <1>7, <2>1
  <2>3. n + (2 * q - 1) \in n + 1 .. m /\ (n + (2 * q - 1)) - n = 2 * q - 1
    BY <1>1, <1>5
  <2> QED BY <1>21, <2>2, <2>3
<1>26. /\ n > 1 => plan[m + 1].action = "barrier"
       /\ plan[Len(plan) - 1].action = "delete" /\ plan[Len(plan)].action = "absence"
  BY <1>18, <1>19 DEF Step
<1>27. /\ \A p \in 1 .. n : plan[p].action = "ownership" /\ plan[p].resource = rev[p]
       /\ \A p \in n + 1 .. m :
             plan[p].action \in {"delete", "absence"} /\ plan[p].resource \in Service
  BY <1>6, <1>7, <1>20, <1>21
<1>28. Deletes(plan, n)
  BY <1>15, <1>16, <1>23, <1>24, <1>25, <1>26, <1>27 DEF Deletes, m, rev
<1> QED BY <1>28 DEF plan, n

(* What the plans of all commands have in common.                          *)
LEMMA Phases ==
  /\ StopSteps(Resources) \in Seq(JournalStep) /\ StartSteps(Resources) \in Seq(JournalStep)
  /\ Len(StopSteps(Resources)) \in Nat \ {0} /\ Len(StartSteps(Resources)) \in Nat \ {0}
  /\ \A p \in 1 .. Len(StopSteps(Resources)) :
        /\ StopSteps(Resources)[p].action = "stop"
        /\ StopSteps(Resources)[p].status = "pending"
  /\ \A p \in 1 .. Len(StartSteps(Resources)) :
        /\ StartSteps(Resources)[p].action = "start"
        /\ StartSteps(Resources)[p].status = "pending"
  /\ \A s \in Service : \E p \in 1 .. Len(StopSteps(Resources)) :
        StopSteps(Resources)[p].resource = s
  /\ \A s \in Service : \E p \in 1 .. Len(StartSteps(Resources)) :
        StartSteps(Resources)[p].resource = s
<1> DEFINE n == Len(Resources)
           rev == Reverse(Resources)
           a == StopSteps(Resources)
           b == StartSteps(Resources)
<1>1. n \in Nat /\ n > 0 /\ Len(rev) = n
  BY ResourcesType, Reversed
<1>2. /\ a \in Seq(JournalStep) /\ Len(a) = IF n > 1 THEN 2 * n ELSE n
      /\ \A p \in 1 .. Len(a) : /\ a[p].action = "stop" /\ a[p].status = "pending"
                                /\ p <= n => a[p].resource = rev[p]
  BY <1>1, StopPlan DEF OnePhase
<1>3. /\ b \in Seq(JournalStep) /\ Len(b) = IF n > 1 THEN 2 * n ELSE n
      /\ \A p \in 1 .. Len(b) : /\ b[p].action = "start" /\ b[p].status = "pending"
                                /\ p <= n => b[p].resource = Resources[p]
  BY <1>1, StartPlan DEF OnePhase
<1>4. /\ \A s \in Service : \E p \in 1 .. n - 1 : rev[p] = s
      /\ \A s \in Service : \E p \in 2 .. n : Resources[p] = s
  BY ResourcesType, Reversed
<1> HIDE DEF n, rev, a, b
<1>5. \A s \in Service : \E p \in 1 .. Len(a) : a[p].resource = s
  <2> TAKE s \in Service
  <2>1. PICK p \in 1 .. n - 1 : rev[p] = s
    BY <1>4
  <2>2. p \in 1 .. Len(a) /\ p <= n
    BY <1>1, <1>2
  <2> QED BY <1>2, <2>1, <2>2
<1>6. \A s \in Service : \E p \in 1 .. Len(b) : b[p].resource = s
  <2> TAKE s \in Service
  <2>1. PICK p \in 2 .. n : Resources[p] = s
    BY <1>4
  <2>2. p \in 1 .. Len(b) /\ p <= n
    BY <1>1, <1>3
  <2> QED BY <1>3, <2>1, <2>2
<1>7. Len(a) \in Nat \ {0} /\ Len(b) \in Nat \ {0}
  BY <1>1, <1>2, <1>3
<1> QED BY <1>2, <1>3, <1>5, <1>6, <1>7 DEF a, b

LEMMA RestartPlan ==
  LET a == StopSteps(Resources)
      b == StartSteps(Resources)
      plan == CommandSteps("restart", Resources)
  IN  /\ plan \in Seq(JournalStep) /\ Len(plan) = Len(a) + Len(b)
      /\ \A p \in 1 .. Len(plan) : plan[p] = IF p <= Len(a) THEN a[p] ELSE b[p - Len(a)]
<1> DEFINE a == StopSteps(Resources)
           b == StartSteps(Resources)
           plan == CommandSteps("restart", Resources)
<1>1. plan = a \o b
  BY DEF CommandSteps
<1>2. a \in Seq(JournalStep) /\ b \in Seq(JournalStep)
  BY Phases
<1> HIDE DEF a, b, plan
<1>3. /\ a \o b \in Seq(JournalStep) /\ Len(a \o b) = Len(a) + Len(b)
      /\ \A p \in 1 .. Len(a \o b) : (a \o b)[p] = IF p <= Len(a) THEN a[p] ELSE b[p - Len(a)]
  BY <1>2, Joined
<1> QED BY <1>1, <1>3 DEF a, b, plan

(* A plan is a journal that nothing has happened to, and its steps are     *)
(* those of its command.                                                   *)
Fitting(c, step) ==
  /\ step.action = "start" => c \in {"start", "restart"}
  /\ step.action = "stop" => c \in {"stop", "restart"}
  /\ step.action \in {"ownership", "delete", "absence", "barrier"} => c = "delete"
  /\ step.action = "forget" => c = "forget" /\ step.resource = "worktree"
  /\ step.action = "barrier" => step.resource = "worktree"
  /\ step.verify => step.action \in {"start", "stop"}
  /\ step.status = "pending"

LEMMA PlanTypes ==
  ASSUME NEW c \in Command
  PROVE  /\ CommandSteps(c, Resources) \in Seq(JournalStep)
         /\ Len(CommandSteps(c, Resources)) \in Nat \ {0}
         /\ \A p \in 1 .. Len(CommandSteps(c, Resources)) :
               /\ CommandSteps(c, Resources)[p] \in JournalStep
               /\ Fitting(c, CommandSteps(c, Resources)[p])
<1> DEFINE plan == CommandSteps(c, Resources)
<1>1. CASE c = "start"
  <2>1. plan = StartSteps(Resources)
    BY <1>1 DEF CommandSteps
  <2> QED BY <1>1, <2>1, Phases DEF Fitting
<1>2. CASE c = "stop"
  <2>1. plan = StopSteps(Resources)
    BY <1>2 DEF CommandSteps
  <2> QED BY <1>2, <2>1, Phases DEF Fitting
<1>3. CASE c = "restart"
  <2> DEFINE a == StopSteps(Resources)
             b == StartSteps(Resources)
  <2>1. /\ plan \in Seq(JournalStep) /\ Len(plan) = Len(a) + Len(b)
        /\ \A p \in 1 .. Len(plan) : plan[p] = IF p <= Len(a) THEN a[p] ELSE b[p - Len(a)]
    BY <1>3, RestartPlan
  <2>2. /\ Len(a) \in Nat \ {0} /\ Len(b) \in Nat \ {0}
        /\ \A p \in 1 .. Len(a) : a[p].action = "stop" /\ a[p].status = "pending"
        /\ \A p \in 1 .. Len(b) : b[p].action = "start" /\ b[p].status = "pending"
    BY Phases
  <2> HIDE DEF a, b, plan
  <2>3. ASSUME NEW p \in 1 .. Len(plan)
        PROVE  plan[p].action \in {"start", "stop"} /\ plan[p].status = "pending"
    <3>1. CASE p <= Len(a)
      <4>1. p \in 1 .. Len(a)
        BY <2>1, <2>2, <3>1
      <4> QED BY <2>1, <2>2, <3>1, <4>1
    <3>2. CASE ~(p <= Len(a))
      <4>1. p - Len(a) \in 1 .. Len(b)
        BY <2>1, <2>2, <3>2
      <4> QED BY <2>1, <2>2, <3>2, <4>1
    <3> QED BY <3>1, <3>2
  <2>4. Len(plan) \in Nat \ {0}
    BY <2>1, <2>2
  <2>5. \A p \in 1 .. Len(plan) : plan[p] \in JournalStep /\ Fitting(c, plan[p])
    BY <1>3, <2>1, <2>3 DEF Fitting
  <2> QED BY <2>1, <2>4, <2>5 DEF plan
<1>4. CASE c = "delete"
  <2>1. Deletes(plan, Len(Resources))
    BY <1>4, DeletePlan DEF CommandSteps
  <2>2. Len(Resources) \in Nat /\ Len(Resources) > 0 /\ "worktree" \notin Service
    BY ResourcesType
  <2> DEFINE n == Len(Resources)
             m == 3 * n - 2
  <2> HIDE DEF plan
  <2>3. /\ m \in Nat /\ n <= m /\ Len(plan) \in Nat \ {0} /\ n \in Nat
        /\ Len(plan) = IF n > 1 THEN m + 3 ELSE m + 2
        /\ plan \in Seq(JournalStep)
    BY <2>1, <2>2 DEF Deletes
  <2>4. \A p \in m + 1 .. Len(plan) : plan[p].action \in {"barrier", "delete", "absence"}
    <3>1. /\ n > 1 => plan[m + 1].action = "barrier"
          /\ plan[Len(plan) - 1].action = "delete" /\ plan[Len(plan)].action = "absence"
      BY <2>1 DEF Deletes
    <3> HIDE DEF m, n
    <3>2. \A p \in m + 1 .. Len(plan) : \/ n > 1 /\ p = m + 1
                                        \/ p = Len(plan) - 1 \/ p = Len(plan)
      BY <2>3
    <3> QED BY <3>1, <3>2
  <2>5. /\ \A p \in 1 .. n : plan[p].action = "ownership"
        /\ \A p \in n + 1 .. m : plan[p].action \in {"delete", "absence"}
        /\ \A p \in m + 1 .. Len(plan) : plan[p].resource = "worktree"
        /\ \A p \in 1 .. Len(plan) : plan[p].status = "pending" /\ plan[p].verify = FALSE
    BY <2>1 DEF Deletes
  <2> HIDE DEF m, n
  <2>6. ASSUME NEW p \in 1 .. Len(plan) PROVE plan[p] \in JournalStep /\ Fitting(c, plan[p])
    <3>1. p \in 1 .. n \/ p \in n + 1 .. m \/ p \in m + 1 .. Len(plan)
      BY <2>3
    <3>2. plan[p] \in JournalStep
      BY <2>3
    <3> QED BY <1>4, <2>4, <2>5, <3>1, <3>2 DEF Fitting
  <2> QED BY <2>3, <2>6 DEF plan
<1>5. CASE c = "forget"
  <2>1. plan = <<Step("forget", "worktree")>>
    BY <1>5 DEF CommandSteps
  <2>2. Step("forget", "worktree") \in JournalStep /\ Fitting(c, Step("forget", "worktree"))
    BY <1>5 DEF Step, JournalStep, StepStatus, Action, Fitting
  <2> QED BY <2>1, <2>2
<1> QED BY <1>1, <1>2, <1>3, <1>4, <1>5 DEF Command

(* A Service is not stopped after it was started, nor looked for after it  *)
(* was deleted, and the one barrier comes before the removal.              *)
LEMMA PlanOrder ==
  ASSUME NEW c \in Command, NEW plan, plan = CommandSteps(c, Resources),
         NEW p \in 1 .. Len(plan), NEW q \in 1 .. Len(plan), p < q
  PROVE  /\ /\ plan[p].resource = plan[q].resource
            /\ plan[p].resource # "worktree"
            => /\ plan[p].action = "start" => plan[q].action = "start"
               /\ plan[p].action \in {"delete", "absence"} =>
                     plan[q].action \in {"delete", "absence"}
         /\ plan[q].action = "barrier" => ~Removal(plan[p]) /\ plan[p].action # "barrier"
<1>1. CASE c = "restart"
  <2> DEFINE a == StopSteps(Resources)
             b == StartSteps(Resources)
  <2>1. /\ Len(plan) = Len(a) + Len(b)
        /\ \A k \in 1 .. Len(plan) : plan[k] = IF k <= Len(a) THEN a[k] ELSE b[k - Len(a)]
    BY <1>1, RestartPlan
  <2>2. /\ Len(a) \in Nat \ {0} /\ Len(b) \in Nat \ {0}
        /\ \A k \in 1 .. Len(a) : a[k].action = "stop"
        /\ \A k \in 1 .. Len(b) : b[k].action = "start"
    BY Phases
  <2> HIDE DEF a, b
  <2>3. CASE p <= Len(a)
    <3>1. p \in 1 .. Len(a) /\ plan[p] = a[p]
      BY <2>1, <2>2, <2>3
    <3>2. plan[p].action = "stop"
      BY <2>2, <3>1
    <3> QED BY <3>2 DEF Removal
  <2>4. CASE ~(p <= Len(a))
    <3>1. p - Len(a) \in 1 .. Len(b) /\ plan[p] = b[p - Len(a)]
      BY <2>1, <2>2, <2>4
    <3>2. q - Len(a) \in 1 .. Len(b) /\ plan[q] = b[q - Len(a)]
      BY <2>1, <2>2, <2>4
    <3>3. plan[p].action = "start" /\ plan[q].action = "start"
      BY <2>2, <3>1, <3>2
    <3> QED BY <3>3 DEF Removal
  <2> QED BY <2>3, <2>4
<1>2. CASE c = "delete"
  <2>1. Deletes(plan, Len(Resources))
    BY <1>2, DeletePlan DEF CommandSteps
  <2> DEFINE n == Len(Resources)
             m == 3 * n - 2
  <2>2. n \in Nat /\ n > 0 /\ m \in Nat /\ n <= m
    BY ResourcesType
  <2>3. /\ \A k \in 1 .. n : plan[k].action = "ownership"
        /\ \A k \in n + 1 .. m :
              plan[k].action \in {"delete", "absence"} /\ plan[k].resource \in Service
        /\ \A k \in m + 1 .. Len(plan) : plan[k].resource = "worktree"
        /\ Len(plan) = IF n > 1 THEN m + 3 ELSE m + 2
        /\ plan[Len(plan) - 1].action = "delete" /\ plan[Len(plan)].action = "absence"
    BY <2>1 DEF Deletes
  <2> HIDE DEF n, m
  <2>4. \/ p \in 1 .. n
        \/ p \in n + 1 .. m /\ (q \in n + 1 .. m \/ q \in m + 1 .. Len(plan))
        \/ p \in m + 1 .. Len(plan) /\ (q = Len(plan) - 1 \/ q = Len(plan))
    BY <2>2, <2>3
  <2>5. "worktree" \notin Service
    BY ResourcesType
  <2> QED BY <2>3, <2>4, <2>5 DEF Removal
<1>3. CASE c \in {"start", "stop", "forget"}
  <2>1. Len(plan) \in Nat /\ Fitting(c, plan[p]) /\ Fitting(c, plan[q])
    BY PlanTypes
  <2>2. plan[q] \in JournalStep
    BY PlanTypes
  <2> QED BY <1>3, <2>1, <2>2 DEF Fitting, JournalStep, Action, Removal
<1> QED BY <1>1, <1>2, <1>3 DEF Command

(* Every Service has its part in a plan, before the steps that rely on it. *)
LEMMA PlanCovers ==
  ASSUME NEW c \in Command, NEW plan, plan = CommandSteps(c, Resources), NEW s \in Service
  PROVE  /\ c \in {"start", "restart"} => \E p \in 1 .. Len(plan) :
                plan[p].action = "start" /\ plan[p].resource = s
         /\ c = "stop" => \E p \in 1 .. Len(plan) :
                plan[p].action = "stop" /\ plan[p].resource = s
         /\ c = "delete" => \E p \in 1 .. Len(plan) :
                plan[p].action = "delete" /\ plan[p].resource = s
         /\ c = "restart" => \A q \in 1 .. Len(plan) : plan[q].action = "start" =>
                \E p \in 1 .. Len(plan) : p < q /\ plan[p].resource = s
         /\ \A q \in 1 .. Len(plan) : plan[q].action = "barrier" \/ Removal(plan[q]) =>
                \E p \in 1 .. Len(plan) :
                   p < q /\ plan[p].action = "delete" /\ plan[p].resource = s
<1>0. \A q \in 1 .. Len(plan) : Fitting(c, plan[q])
  BY PlanTypes
<1>1. CASE c = "start"
  <2>1. plan = StartSteps(Resources)
    BY <1>1 DEF CommandSteps
  <2> QED BY <1>0, <1>1, <2>1, Phases DEF Fitting, Removal
<1>2. CASE c = "stop"
  <2>1. plan = StopSteps(Resources)
    BY <1>2 DEF CommandSteps
  <2> QED BY <1>0, <1>2, <2>1, Phases DEF Fitting, Removal
<1>3. CASE c = "restart"
  <2> DEFINE a == StopSteps(Resources)
             b == StartSteps(Resources)
  <2>1. /\ Len(plan) = Len(a) + Len(b)
        /\ \A k \in 1 .. Len(plan) : plan[k] = IF k <= Len(a) THEN a[k] ELSE b[k - Len(a)]
    BY <1>3, RestartPlan
  <2>2. /\ Len(a) \in Nat \ {0} /\ Len(b) \in Nat \ {0}
        /\ \A k \in 1 .. Len(a) : a[k].action = "stop"
        /\ \A k \in 1 .. Len(b) : b[k].action = "start"
    BY Phases
  <2>3. PICK x \in 1 .. Len(a) : a[x].resource = s
    BY Phases
  <2>4. PICK y \in 1 .. Len(b) : b[y].resource = s
    BY Phases
  <2> HIDE DEF a, b
  <2>5. x \in 1 .. Len(plan) /\ plan[x] = a[x]
    BY <2>1, <2>2
  <2>6. Len(a) + y \in 1 .. Len(plan) /\ plan[Len(a) + y] = b[y]
    BY <2>1, <2>2
  <2>7. ASSUME NEW q \in 1 .. Len(plan), plan[q].action = "start" PROVE x < q
    <3>1. q \notin 1 .. Len(a)
      BY <2>1, <2>2, <2>7
    <3> QED BY <2>1, <2>2, <3>1
  <2>8. \A q \in 1 .. Len(plan) : ~(plan[q].action = "barrier" \/ Removal(plan[q]))
    BY <1>0, <1>3 DEF Fitting, Removal
  <2> QED BY <1>3, <2>2, <2>3, <2>4, <2>5, <2>6, <2>7, <2>8
<1>4. CASE c = "delete"
  <2>1. Deletes(plan, Len(Resources))
    BY <1>4, DeletePlan DEF CommandSteps
  <2> DEFINE n == Len(Resources)
             m == 3 * n - 2
  <2>2. n \in Nat /\ n > 0 /\ m \in Nat /\ n <= m
    BY ResourcesType
  <2>3. /\ \A k \in 1 .. n : plan[k].action = "ownership"
        /\ \A k \in n + 1 .. m :
              plan[k].action \in {"delete", "absence"} /\ plan[k].resource \in Service
        /\ Len(plan) = IF n > 1 THEN m + 3 ELSE m + 2
    BY <2>1 DEF Deletes
  <2>4. PICK p \in n + 1 .. m : plan[p].action = "delete" /\ plan[p].resource = s
    BY <2>1 DEF Deletes
  <2>5. "worktree" \notin Service
    BY ResourcesType
  <2> HIDE DEF n, m
  <2>6. p \in 1 .. Len(plan)
    BY <2>2, <2>3
  <2>7. ASSUME NEW q \in 1 .. Len(plan), plan[q].action = "barrier" \/ Removal(plan[q])
        PROVE  p < q
    <3>1. q \notin 1 .. n /\ q \notin n + 1 .. m
      BY <2>3, <2>5, <2>7 DEF Removal
    <3> QED BY <2>2, <2>3, <3>1
  <2> QED BY <1>4, <2>4, <2>6, <2>7
<1>5. CASE c = "forget"
  BY <1>0, <1>5 DEF Fitting, Removal
<1> QED BY <1>1, <1>2, <1>3, <1>4, <1>5 DEF Command

(* A delete looks for its Worktree last, and has a barrier only when there *)
(* are Services.                                                           *)
LEMMA DeleteEnds ==
  ASSUME NEW plan, plan = CommandSteps("delete", Resources)
  PROVE  /\ Removal(plan[Len(plan)])
         /\ \A p \in 1 .. Len(plan) : plan[p].action = "barrier" => Service # {}
<1>1. Deletes(plan, Len(Resources))
  BY DeletePlan DEF CommandSteps
<1> DEFINE n == Len(Resources)
           m == 3 * n - 2
<1>2. n \in Nat /\ n > 0 /\ m \in Nat /\ n <= m
  BY ResourcesType
<1>3. /\ \A k \in 1 .. n : plan[k].action = "ownership"
      /\ \A k \in m + 1 .. Len(plan) : plan[k].resource = "worktree"
      /\ Len(plan) = IF n > 1 THEN m + 3 ELSE m + 2
      /\ plan[Len(plan) - 1].action = "delete" /\ plan[Len(plan)].action = "absence"
  BY <1>1 DEF Deletes
<1>4. n > 1 => Service # {}
  <2>1. \A p \in 2 .. n : Resources[p] \in Service
    BY ResourcesType
  <2> QED BY <1>2, <2>1
<1> HIDE DEF n
<1>5. ASSUME ~(n > 1) PROVE n = 1 /\ m = 1
  <2>1. n = 1
    BY <1>2, <1>5
  <2> QED BY <2>1
<1> HIDE DEF m
<1>6. Len(plan) \in m + 1 .. Len(plan)
  BY <1>2, <1>3
<1>7. ASSUME NEW p \in 1 .. Len(plan), plan[p].action = "barrier" PROVE n > 1
  <2>1. CASE ~(n > 1)
    <3>1. p = 1 \/ p = Len(plan) - 1 \/ p = Len(plan)
      BY <1>3, <1>5, <2>1
    <3>2. 1 \in 1 .. n
      BY <1>2
    <3> QED BY <1>3, <1>7, <3>1, <3>2
  <2> QED BY <2>1
<1>8. Removal(plan[Len(plan)])
  BY <1>3, <1>6 DEF Removal
<1> QED BY <1>4, <1>7, <1>8

-----------------------------------------------------------------------------
(* Steps.                                                                  *)
Others == WorktreeVanishes \/ \E s \in Service : Drift(s)

LEMMA WhoSteps ==
  ASSUME [Next]_vars
  PROVE  Others \/ (\E i \in Invocation : Operate(i)) \/ UNCHANGED vars
BY DEF Next, Others

(* What most steps leave alone.                                            *)
LEMMA WorkspaceKept ==
  ASSUME NEW i \in Invocation, Operate(i),
         ~Begin(i), ~StartStep(i), ~FinishFailed(i), ~Commit(i)
  PROVE  workspace' = workspace
BY DEF Operate, Plan, Acquire, TurnedAway, Recheck, LetGo, Vanish, Survey, Skip, Halt,
       ServiceStep, WorktreeStep, Record, RecordFailure, Fails

LEMMA OperationsKept ==
  ASSUME NEW i \in Invocation, Operate(i),
         ~Acquire(i), ~Begin(i), ~StartStep(i), ~Record(i), ~RecordFailure(i),
         ~FinishFailed(i), ~Commit(i)
  PROVE  operations' = operations
BY DEF Operate, Plan, TurnedAway, Recheck, LetGo, Vanish, Survey, Skip, Halt, ServiceStep,
       WorktreeStep, Fails

LEMMA HolderKept ==
  ASSUME NEW i \in Invocation, Operate(i),
         ~Acquire(i), ~LetGo(i), ~FinishFailed(i), ~Commit(i)
  PROVE  holder' = holder
BY DEF Operate, Plan, TurnedAway, Recheck, Vanish, Begin, Survey, Skip, Halt, StartStep,
       ServiceStep, WorktreeStep, Record, RecordFailure, Fails

LEMMA WorktreeKept ==
  ASSUME NEW i \in Invocation, Operate(i),
         ~WorktreeStep(i)
  PROVE  worktree' = worktree
BY DEF Operate, Plan, Acquire, TurnedAway, Recheck, LetGo, Vanish, Begin, Survey, Skip, Halt,
       StartStep, ServiceStep, Record, RecordFailure, Fails, FinishFailed, Commit

LEMMA ServiceKept ==
  ASSUME NEW i \in Invocation, Operate(i),
         ~ServiceStep(i)
  PROVE  service' = service
BY DEF Operate, Plan, Acquire, TurnedAway, Recheck, LetGo, Vanish, Begin, Survey, Skip, Halt,
       StartStep, WorktreeStep, Record, RecordFailure, Fails, FinishFailed, Commit

LEMMA DriftsKept ==
  ASSUME NEW i \in Invocation, Operate(i)
  PROVE  drifts' = drifts
BY DEF Operate, Plan, Acquire, TurnedAway, Recheck, LetGo, Vanish, Begin, Survey, Skip, Halt,
       StartStep, ServiceStep, WorktreeStep, Record, RecordFailure, Fails, FinishFailed, Commit

LEMMA SeenKept ==
  ASSUME NEW i \in Invocation, Operate(i),
         ~ServiceStep(i), ~WorktreeStep(i)
  PROVE  seen' = seen
BY DEF Operate, Plan, Acquire, TurnedAway, Recheck, LetGo, Vanish, Begin, Survey, Skip, Halt,
       StartStep, Record, RecordFailure, Fails, FinishFailed, Commit

LEMMA UnderminedKept ==
  ASSUME NEW i \in Invocation, Operate(i)
  PROVE  undermined' = undermined
BY DEF Operate, Plan, Acquire, TurnedAway, Recheck, LetGo, Vanish, Begin, Survey, Skip, Halt,
       StartStep, ServiceStep, WorktreeStep, Record, RecordFailure, Fails, FinishFailed, Commit

LEMMA OthersKeep ==
  ASSUME Others
  PROVE  /\ UNCHANGED <<workspace, operations, holder, run, seen>>
         /\ \/ worktree' = worktree /\ undermined' = undermined
            \/ worktree' = "absent" /\ undermined' = (undermined \/ ~NeverBarred)
BY DEF Others, Drift, WorktreeVanishes, NeverBarred, Barred, BarrierPassed

(* What becomes of the local state of the one that steps.                  *)
LEMMA Turns ==
  ASSUME Typing, NEW i \in Invocation
  PROVE  /\ \A command \in Commands, force \in BOOLEAN : Plan(i, command, force) =>
               \E op \in {i, Snapshot.op} :
                  /\ op = IF Snapshot.kind = command /\ Snapshot.status \in {"running", "failed"}
                          THEN Snapshot.op ELSE i
                  /\ run' = [run EXCEPT ![i] =
                        [run[i] EXCEPT !.stage = "planned", !.command = command, !.force = force,
                                       !.base = Snapshot, !.op = op]]
         /\ Acquire(i) => run' = [run EXCEPT ![i] = [run[i] EXCEPT !.stage = "acquired"]]
         /\ Recheck(i) => run' = [run EXCEPT ![i] = [run[i] EXCEPT !.stage = "checked"]]
         /\ TurnedAway(i) \/ LetGo(i) \/ FinishFailed(i) \/ Commit(i) =>
               run' = [run EXCEPT ![i] = Finished]
         /\ Vanish(i) =>
               run' = [run EXCEPT ![i] = [Idle EXCEPT !.stage = "gone", !.op = run[i].op]]
         /\ Begin(i) => run' = [run EXCEPT ![i] = [run[i] EXCEPT !.stage = "begun"]]
         /\ Survey(i) => run' = [run EXCEPT ![i] =
               [run[i] EXCEPT !.stage = "stepping", !.at = 1, !.resume = ResumesRemoved(i),
                              !.base = [run[i].base EXCEPT !.receipt = FALSE]]]
         /\ Skip(i) \/ Record(i) => run' = [run EXCEPT ![i] = Advance(i)]
         /\ Halt(i) => run' = [run EXCEPT ![i] = Blame(i, run[i].blame)]
         /\ StartStep(i) => run' = [run EXCEPT ![i] = [run[i] EXCEPT !.stage = "effect"]]
         /\ ServiceStep(i) \/ WorktreeStep(i) => \E outcome \in {"ok", "safe", "stuck"} :
               run' = [run EXCEPT ![i] =
                          [run[i] EXCEPT !.stage = "recording", !.outcome = outcome]]
         /\ RecordFailure(i) =>
               \/ GoesOn(i) /\ run' = [run EXCEPT ![i] =
                     [Advance(i) EXCEPT !.failed = run[i].failed \cup {At(i).resource},
                                        !.blame = IF run[i].blame = "none" THEN At(i).action
                                                  ELSE run[i].blame]]
               \/ ~GoesOn(i) /\ run' = [run EXCEPT ![i] = Blame(i, At(i).action)]
         /\ Fails(i) => run' = [run EXCEPT ![i] = Blame(i, LastAction(i))]
<1>0. run[i] \in Local
  BY DEF Typing
<1>1. ASSUME NEW command \in Commands, NEW force \in BOOLEAN, Plan(i, command, force)
      PROVE  \E op \in {i, Snapshot.op} :
                  /\ op = IF Snapshot.kind = command /\ Snapshot.status \in {"running", "failed"}
                          THEN Snapshot.op ELSE i
                  /\ run' = [run EXCEPT ![i] =
                        [run[i] EXCEPT !.stage = "planned", !.command = command, !.force = force,
                                       !.base = Snapshot, !.op = op]]
  BY <1>1 DEF Plan
<1>2. /\ Acquire(i) => run' = [run EXCEPT ![i] = [run[i] EXCEPT !.stage = "acquired"]]
      /\ Recheck(i) => run' = [run EXCEPT ![i] = [run[i] EXCEPT !.stage = "checked"]]
      /\ Begin(i) => run' = [run EXCEPT ![i] = [run[i] EXCEPT !.stage = "begun"]]
      /\ StartStep(i) => run' = [run EXCEPT ![i] = [run[i] EXCEPT !.stage = "effect"]]
  BY DEF Acquire, Recheck, Begin, StartStep, To
<1>3. /\ TurnedAway(i) \/ LetGo(i) \/ FinishFailed(i) \/ Commit(i) =>
               run' = [run EXCEPT ![i] = Finished]
      /\ Vanish(i) => run' = [run EXCEPT ![i] = [Idle EXCEPT !.stage = "gone", !.op = run[i].op]]
  BY DEF TurnedAway, LetGo, FinishFailed, Commit, Vanish
<1>4. Survey(i) => run' = [run EXCEPT ![i] =
               [run[i] EXCEPT !.stage = "stepping", !.at = 1, !.resume = ResumesRemoved(i),
                              !.base = [run[i].base EXCEPT !.receipt = FALSE]]]
  BY <1>0 DEF Survey, Local, Typing
<1>5. /\ Skip(i) \/ Record(i) => run' = [run EXCEPT ![i] = Advance(i)]
      /\ Halt(i) => run' = [run EXCEPT ![i] = Blame(i, run[i].blame)]
      /\ Fails(i) => run' = [run EXCEPT ![i] = Blame(i, LastAction(i))]
  BY DEF Skip, Record, Halt, Fails
<1>6. ASSUME NEW outcome, Result(i, outcome)
      PROVE  run' = [run EXCEPT ![i] =
                        [run[i] EXCEPT !.stage = "recording", !.outcome = outcome]]
  BY <1>0, <1>6 DEF Result, Local, Typing
<1>7. ASSUME ServiceStep(i) \/ WorktreeStep(i)
      PROVE  \E outcome \in {"ok", "safe", "stuck"} : Result(i, outcome)
  <2>1. CASE ServiceStep(i)
    <3>1. ProbeUnknown(i) => Result(i, "stuck")
      BY DEF ProbeUnknown
    <3>2. LookOnly(i) => Result(i, "ok") \/ Result(i, "stuck")
      BY DEF LookOnly
    <3>3. Mutate(i) => \E outcome \in {"ok", "safe", "stuck"} : Result(i, outcome)
      BY DEF Mutate
    <3> QED BY <2>1, <3>1, <3>2, <3>3 DEF ServiceStep
  <2>2. CASE WorktreeStep(i)
    <3>1. Barrier(i) => Result(i, "ok") \/ Result(i, "stuck")
      BY DEF Barrier
    <3>2. RemoveWorktree(i) => Result(i, "ok") \/ Result(i, "stuck")
      BY DEF RemoveWorktree
    <3>3. LookAtWorktree(i) => Result(i, "ok") \/ Result(i, "stuck")
      BY DEF LookAtWorktree
    <3> QED BY <2>2, <3>1, <3>2, <3>3 DEF WorktreeStep
  <2> QED BY <1>7, <2>1, <2>2
<1>8. ASSUME RecordFailure(i)
      PROVE  \/ GoesOn(i) /\ run' = [run EXCEPT ![i] =
                     [Advance(i) EXCEPT !.failed = run[i].failed \cup {At(i).resource},
                                        !.blame = IF run[i].blame = "none" THEN At(i).action
                                                  ELSE run[i].blame]]
             \/ ~GoesOn(i) /\ run' = [run EXCEPT ![i] = Blame(i, At(i).action)]
  <2>1. Advance(i).failed = run[i].failed /\ Advance(i).blame = run[i].blame
    BY <1>0 DEF Advance, Local
  <2>2. PICK adv : adv = Advance(i)
    OBVIOUS
  <2>3. CASE GoesOn(i)
    <3>1. run' = [run EXCEPT ![i] =
                    [adv EXCEPT !.failed = adv.failed \cup {At(i).resource},
                                !.blame = IF adv.blame = "none" THEN At(i).action ELSE adv.blame]]
      BY <1>0, <1>8, <2>2, <2>3 DEF RecordFailure, Local, Advance
    <3> QED BY <2>1, <2>2, <2>3, <3>1
  <2>4. CASE ~GoesOn(i)
    BY <1>8, <2>4 DEF RecordFailure
  <2> QED BY <2>3, <2>4
<1> QED BY <1>1, <1>2, <1>3, <1>4, <1>5, <1>6, <1>7, <1>8

(* A command that has begun goes by its plan.                              *)
LEMMA Guided ==
  ASSUME Typing, OwnInv, JournalInv, CurrentInv,
         NEW i \in Invocation, run[i].stage \in Begun
  PROVE  /\ holder = i /\ run[i].command \in Command /\ run[i].op \in Invocation
         /\ run[i] \in Local /\ operations[run[i].op] \in Journal
         /\ Course(i) \in Seq(JournalStep) /\ Len(Course(i)) \in Nat \ {0}
         /\ Steps(i) \in Seq(JournalStep)
         /\ Len(Steps(i)) = Len(Course(i)) /\ DOMAIN Steps(i) = 1 .. Len(Course(i))
         /\ \A p \in 1 .. Len(Course(i)) :
               /\ Steps(i)[p].action = Course(i)[p].action
               /\ Steps(i)[p].resource = Course(i)[p].resource
               /\ Steps(i)[p].verify = Course(i)[p].verify
               /\ Steps(i)[p] \in JournalStep
               /\ Course(i)[p] \in JournalStep
               /\ Fitting(run[i].command, Course(i)[p])
<1>1. /\ run[i].stage \in Owning
      /\ run[i].op \in Invocation /\ run[i].command \in Command /\ holder = i
  BY DEF OwnInv, Begun, Owning, Bound
<1>2. run[i] \in Local /\ operations[run[i].op] \in Journal
  BY <1>1 DEF Typing, Operation
<1>3. operations[run[i].op].kind = run[i].command
  BY DEF CurrentInv
<1>4. Follows(Steps(i), Course(i))
  BY <1>1, <1>3 DEF JournalInv, Steps, Course
<1>5. Steps(i) \in Seq(JournalStep)
  BY <1>2 DEF Journal, Steps
<1>6. /\ Course(i) \in Seq(JournalStep) /\ Len(Course(i)) \in Nat \ {0}
      /\ \A p \in 1 .. Len(Course(i)) :
            Course(i)[p] \in JournalStep /\ Fitting(run[i].command, Course(i)[p])
  BY <1>1, PlanTypes DEF Course
<1>7. DOMAIN Steps(i) = 1 .. Len(Course(i)) /\ Len(Steps(i)) = Len(Course(i))
  BY <1>4, <1>5 DEF Follows
<1>8. \A p \in 1 .. Len(Course(i)) : Steps(i)[p] \in JournalStep
  BY <1>5, <1>7
<1> QED BY <1>1, <1>2, <1>4, <1>5, <1>6, <1>7, <1>8 DEF Follows

LEMMA SnapshotTypes == ASSUME Typing PROVE Snapshot \in Base
<1>1. workspace.op \in Operation /\ operations[workspace.op] \in Journal
  BY DEF Typing
<1>2. (CleanupReceipt(operations[workspace.op].steps)
         /\ RemovalBegun(operations[workspace.op].steps)) \in BOOLEAN
  BY DEF CleanupReceipt, RemovalBegun, Recorded
<1> QED BY <1>1, <1>2 DEF Typing, Snapshot, Base, Journal

(* What becomes of a journal: its steps change their status only.          *)
Like(steps, after) ==
  /\ after \in Seq(JournalStep)
  /\ Len(after) = Len(steps)
  /\ \A p \in 1 .. Len(steps) :
        /\ after[p].action = steps[p].action
        /\ after[p].resource = steps[p].resource
        /\ after[p].verify = steps[p].verify

LEMMA LikeItself == ASSUME NEW steps \in Seq(JournalStep) PROVE Like(steps, steps)
BY DEF Like

LEMMA SettledLike ==
  ASSUME NEW steps \in Seq(JournalStep), NEW status \in {"unknown", "failed"}
  PROVE  /\ Like(steps, Settled(steps, status))
         /\ Barred(Settled(steps, status)) => Barred(steps)
<1> DEFINE n == Len(steps)
           after == Settled(steps, status)
<1>1. n \in Nat /\ DOMAIN steps = 1 .. n /\ \A p \in 1 .. n : steps[p] \in JournalStep
  OBVIOUS
<1>2. /\ DOMAIN after = 1 .. n
      /\ after = [p \in 1 .. n |-> after[p]]
      /\ \A p \in 1 .. n : \/ after[p] = steps[p]
                           \/ after[p] = [steps[p] EXCEPT !.status = status]
  BY <1>1 DEF Settled
<1> HIDE DEF after, n
<1>3. ASSUME NEW p \in 1 .. n
      PROVE  /\ after[p] \in JournalStep
             /\ after[p].action = steps[p].action /\ after[p].resource = steps[p].resource
             /\ after[p].verify = steps[p].verify
             /\ after[p].status = "completed" => steps[p].status = "completed"
  <2>1. CASE after[p] = steps[p]
    BY <1>1, <2>1
  <2>2. CASE after[p] = [steps[p] EXCEPT !.status = status]
    BY <1>1, <2>2 DEF JournalStep, StepStatus
  <2> QED BY <1>2, <2>1, <2>2
<1>4. after \in [1 .. n -> JournalStep]
  BY <1>2, <1>3
<1>5. after \in Seq(JournalStep) /\ Len(after) = n
  BY <1>1, <1>4, SequenceOf
<1>6. Like(steps, after)
  BY <1>3, <1>5 DEF Like, n
<1>7. Barred(after) => Barred(steps)
  BY <1>1, <1>2, <1>3 DEF Barred, Recorded
<1> QED BY <1>6, <1>7 DEF after

LEMMA MarkedLike ==
  ASSUME NEW steps \in Seq(JournalStep), NEW at \in 1 .. Len(steps), NEW status \in StepStatus
  PROVE  LET after == [steps EXCEPT ![at].status = status] IN
         /\ Like(steps, after)
         /\ Barred(after) =>
               Barred(steps) \/ (status = "completed" /\ steps[at].action = "barrier")
<1> DEFINE n == Len(steps)
           after == [steps EXCEPT ![at].status = status]
<1>1. n \in Nat /\ DOMAIN steps = 1 .. n /\ \A p \in 1 .. n : steps[p] \in JournalStep
  OBVIOUS
<1>2. /\ DOMAIN after = 1 .. n
      /\ after = [p \in 1 .. n |-> after[p]]
      /\ after[at] = [steps[at] EXCEPT !.status = status]
      /\ \A p \in 1 .. n : p # at => after[p] = steps[p]
  BY <1>1
<1> HIDE DEF after, n
<1>3. ASSUME NEW p \in 1 .. n
      PROVE  /\ after[p] \in JournalStep
             /\ after[p].action = steps[p].action /\ after[p].resource = steps[p].resource
             /\ after[p].verify = steps[p].verify
             /\ p # at => after[p].status = steps[p].status
             /\ p = at => after[p].status = status
  <2>1. CASE p # at
    BY <1>1, <1>2, <2>1
  <2>2. CASE p = at
    BY <1>1, <1>2, <2>2 DEF JournalStep
  <2> QED BY <2>1, <2>2
<1>4. after \in [1 .. n -> JournalStep]
  BY <1>2, <1>3
<1>5. after \in Seq(JournalStep) /\ Len(after) = n
  BY <1>1, <1>4, SequenceOf
<1>6. Like(steps, after)
  BY <1>3, <1>5 DEF Like, n
<1>7. Barred(after) => Barred(steps) \/ (status = "completed" /\ steps[at].action = "barrier")
  BY <1>1, <1>2, <1>3 DEF Barred, Recorded
<1> QED BY <1>6, <1>7 DEF after

(* All that happens to the operations but for the beginning of one.        *)
LEMMA JournalMoves ==
  ASSUME Typing, OwnInv, JournalInv, CurrentInv, AtInv,
         NEW i \in Invocation, Operate(i), ~Begin(i)
  PROVE  /\ operations' \in [Operation -> Journal]
         /\ \A o \in Operation :
               /\ operations'[o].kind = operations[o].kind
               /\ Like(operations[o].steps, operations'[o].steps)
               /\ Barred(operations'[o].steps) =>
                     \/ Barred(operations[o].steps)
                     \/ Record(i) /\ At(i).action = "barrier"
               /\ \/ operations'[o].status = operations[o].status
                  \/ o = run[i].op /\ FinishFailed(i) /\ operations'[o].status = "failed"
                  \/ o = run[i].op /\ Commit(i) /\ operations'[o].status = "completed"
<1>0. /\ operations \in [Operation -> Journal]
      /\ \A o \in Operation : operations[o] \in Journal /\ operations[o].steps \in Seq(JournalStep)
  BY DEF Typing, Journal
<1>1. ASSUME NEW op \in Operation, NEW steps, Like(operations[op].steps, steps),
             NEW status \in OperationStatus,
             operations' = [operations EXCEPT ![op] =
                               [operations[op] EXCEPT !.status = status, !.steps = steps]]
      PROVE  /\ operations' \in [Operation -> Journal]
             /\ operations'[op].status = status /\ operations'[op].steps = steps
             /\ \A o \in Operation :
                   /\ operations'[o].kind = operations[o].kind
                   /\ Like(operations[o].steps, operations'[o].steps)
                   /\ o # op => operations'[o] = operations[o]
  <2> DEFINE new == [operations[op] EXCEPT !.status = status, !.steps = steps]
  <2>1. /\ new \in Journal /\ new.kind = operations[op].kind
        /\ new.status = status /\ new.steps = steps
    BY <1>0, <1>1 DEF Journal, Like
  <2>2. operations' = [operations EXCEPT ![op] = new]
    BY <1>1
  <2> HIDE DEF new
  <2>3. operations' \in [Operation -> Journal] /\ operations'[op] = new
        /\ \A o \in Operation : o # op => operations'[o] = operations[o]
    BY <1>0, <2>1, <2>2
  <2>4. \A o \in Operation : Like(operations[o].steps, operations[o].steps)
    BY <1>0, LikeItself
  <2> QED BY <1>1, <2>1, <2>3, <2>4
<1>2. CASE operations' = operations
  <2>1. \A o \in Operation : Like(operations[o].steps, operations[o].steps)
    BY <1>0, LikeItself
  <2> QED BY <1>0, <1>2, <2>1
<1>3. CASE Acquire(i) /\ operations' # operations
  <2>1. PICK h \in Invocation : h = holder /\ run[h].stage = "gone"
    <3>1. holder # NoOne /\ run[holder].stage = "gone"
      BY <1>3 DEF Acquire
    <3> QED BY <3>1 DEF Typing
  <2>2. run[h].op \in Operation
    BY <2>1 DEF OwnInv, Operation
  <2> DEFINE op == run[h].op
             steps == Settled(operations[op].steps, "unknown")
  <2>3. operations' = [operations EXCEPT ![op].steps = steps]
    BY <1>3, <2>1 DEF Acquire
  <2>4. Like(operations[op].steps, steps) /\ (Barred(steps) => Barred(operations[op].steps))
    BY <1>0, <2>2, SettledLike
  <2> HIDE DEF steps, op
  <2>5. operations' = [operations EXCEPT ![op] =
                          [operations[op] EXCEPT !.status = operations[op].status, !.steps = steps]]
    BY <1>0, <2>2, <2>3 DEF Journal, op
  <2>6. operations[op].status \in OperationStatus /\ op \in Operation
    BY <1>0, <2>2 DEF Journal, op
  <2>9. /\ operations' \in [Operation -> Journal]
        /\ operations'[op].status = operations[op].status /\ operations'[op].steps = steps
        /\ \A o \in Operation :
              /\ operations'[o].kind = operations[o].kind
              /\ Like(operations[o].steps, operations'[o].steps)
              /\ o # op => operations'[o] = operations[o]
    BY <1>1, <2>4, <2>5, <2>6
  <2> QED BY <2>4, <2>9
<1>4. CASE FinishFailed(i)
  <2> DEFINE op == run[i].op
             steps == Settled(operations[op].steps, "failed")
  <2>1. op \in Operation
    BY <1>4 DEF FinishFailed, OwnInv, Operation, Bound, Owning
  <2>2. operations' = [operations EXCEPT ![op] =
                          [operations[op] EXCEPT !.status = "failed", !.steps = steps]]
    <3>1. operations' = [[operations EXCEPT ![op].status = "failed"] EXCEPT
                            ![op].steps =
                              Settled([operations EXCEPT ![op].status = "failed"][op].steps,
                                      "failed")]
      BY <1>4 DEF FinishFailed
    <3>2. [operations EXCEPT ![op].status = "failed"] =
             [operations EXCEPT ![op] = [operations[op] EXCEPT !.status = "failed"]]
      OBVIOUS
    <3> DEFINE half == [operations EXCEPT ![op].status = "failed"]
    <3>3. half[op] = [operations[op] EXCEPT !.status = "failed"] /\ half[op].steps = operations[op].steps
      BY <1>0, <2>1, <3>2 DEF Journal
    <3> QED BY <1>0, <2>1, <3>1, <3>2, <3>3 DEF Journal
  <2>3. Like(operations[op].steps, steps) /\ (Barred(steps) => Barred(operations[op].steps))
    BY <1>0, <2>1, SettledLike
  <2>4. "failed" \in OperationStatus
    BY DEF OperationStatus
  <2> HIDE DEF steps, op
  <2>9. /\ operations' \in [Operation -> Journal]
        /\ operations'[op].status = "failed" /\ operations'[op].steps = steps
        /\ \A o \in Operation :
              /\ operations'[o].kind = operations[o].kind
              /\ Like(operations[o].steps, operations'[o].steps)
              /\ o # op => operations'[o] = operations[o]
    BY <1>1, <2>1, <2>2, <2>3, <2>4
  <2> QED BY <1>4, <2>3, <2>9 DEF op
<1>5. CASE Commit(i)
  <2> DEFINE op == run[i].op
             steps == operations[op].steps
  <2>1. op \in Operation
    BY <1>5 DEF Commit, OwnInv, Operation, Bound, Owning
  <2>2. operations' = [operations EXCEPT ![op] =
                          [operations[op] EXCEPT !.status = "completed", !.steps = steps]]
    BY <1>0, <1>5, <2>1 DEF Commit, Journal
  <2>3. Like(operations[op].steps, steps)
    BY <1>0, <2>1, LikeItself
  <2>4. "completed" \in OperationStatus
    BY DEF OperationStatus
  <2> HIDE DEF op, steps
  <2>9. /\ operations' \in [Operation -> Journal]
        /\ operations'[op].status = "completed" /\ operations'[op].steps = steps
        /\ \A o \in Operation :
              /\ operations'[o].kind = operations[o].kind
              /\ Like(operations[o].steps, operations'[o].steps)
              /\ o # op => operations'[o] = operations[o]
    BY <1>1, <2>1, <2>2, <2>3, <2>4
  <2> QED BY <1>5, <2>9 DEF op, steps
<1>6. CASE StartStep(i) \/ Record(i) \/ RecordFailure(i)
  <2> DEFINE op == run[i].op
             at == run[i].at
  <2>1. run[i].stage \in Begun /\ run[i].stage \in Looping
    BY <1>6 DEF StartStep, Record, RecordFailure, MoreSteps, Begun, Looping
  <2>2. /\ op \in Operation /\ Steps(i) \in Seq(JournalStep) /\ Steps(i) = operations[op].steps
        /\ Len(Steps(i)) = Len(Course(i))
    BY <2>1, Guided DEF Operation, Steps
  <2>3. at \in 1 .. Len(Steps(i))
    BY <1>6, <2>1, <2>2, Guided DEF StartStep, Record, RecordFailure, MoreSteps, AtInv
  <2>4. PICK status \in StepStatus : /\ Marked(i, status)
                                     /\ status = "completed" => Record(i)
    <3>1. /\ StartStep(i) => Marked(i, "running")
          /\ Record(i) => Marked(i, "completed")
          /\ RecordFailure(i) => Marked(i, "failed")
      BY DEF StartStep, Record, RecordFailure
    <3>2. "running" \in StepStatus /\ "completed" \in StepStatus /\ "failed" \in StepStatus
      BY DEF StepStatus
    <3> QED BY <1>6, <3>1, <3>2
  <2> DEFINE steps == [operations[op].steps EXCEPT ![at].status = status]
  <2>5. operations' = [operations EXCEPT ![op].steps = steps]
    BY <2>4 DEF Marked
  <2>6. /\ Like(operations[op].steps, steps)
        /\ Barred(steps) => \/ Barred(operations[op].steps)
                            \/ status = "completed" /\ At(i).action = "barrier"
    BY <2>2, <2>3, MarkedLike DEF At
  <2> HIDE DEF steps, op
  <2>7. operations' = [operations EXCEPT ![op] =
                          [operations[op] EXCEPT !.status = operations[op].status, !.steps = steps]]
    BY <1>0, <2>2, <2>5 DEF Journal
  <2>8. operations[op].status \in OperationStatus /\ op \in Operation
    BY <1>0, <2>2 DEF Journal
  <2>9. /\ operations' \in [Operation -> Journal]
        /\ operations'[op].status = operations[op].status /\ operations'[op].steps = steps
        /\ \A o \in Operation :
              /\ operations'[o].kind = operations[o].kind
              /\ Like(operations[o].steps, operations'[o].steps)
              /\ o # op => operations'[o] = operations[o]
    BY <1>1, <2>6, <2>7, <2>8
  <2> QED BY <2>4, <2>6, <2>9
<1> QED BY <1>2, <1>3, <1>4, <1>5, <1>6, OperationsKept


-----------------------------------------------------------------------------
(* Types are kept.                                                         *)
LEMMA LocalMoves ==
  ASSUME Typing, OwnInv, JournalInv, CurrentInv, AtInv, NEW i \in Invocation, Operate(i)
  PROVE  /\ run' \in [Invocation -> Local]
         /\ \A j \in Invocation : j # i => run'[j] = run[j]
<1>0. run \in [Invocation -> Local] /\ run[i] \in Local
  BY DEF Typing
<1>1. ASSUME NEW local \in Local, run' = [run EXCEPT ![i] = local]
      PROVE  /\ run' \in [Invocation -> Local]
             /\ \A j \in Invocation : j # i => run'[j] = run[j]
  BY <1>0, <1>1
<1>2. ASSUME NEW command \in Commands, NEW force \in BOOLEAN, Plan(i, command, force)
      PROVE  \E local \in Local : run' = [run EXCEPT ![i] = local]
  <2>1. PICK op : /\ op = IF Snapshot.kind = command /\ Snapshot.status \in {"running", "failed"}
                          THEN Snapshot.op ELSE i
                  /\ run' = [run EXCEPT ![i] =
                        [run[i] EXCEPT !.stage = "planned", !.command = command, !.force = force,
                                       !.base = Snapshot, !.op = op]]
    BY <1>2 DEF Plan
  <2>2. Snapshot \in Base /\ op \in Operation /\ command \in Command
    <3>1. Snapshot \in Base
      BY SnapshotTypes
    <3>2. Snapshot.op \in Operation
      BY <3>1 DEF Base
    <3>3. command \in Command /\ i \in Operation
      BY LifecycleAssumption DEF Operation
    <3> QED BY <2>1, <3>1, <3>2, <3>3
  <2> DEFINE base == Snapshot
  <2> HIDE DEF base
  <2>3. [run[i] EXCEPT !.stage = "planned", !.command = command, !.force = force,
                       !.base = base, !.op = op] \in Local
    BY <1>0, <2>2 DEF Local, Stage, Bound, Owning, base
  <2> QED BY <2>1, <2>3 DEF base
<1>3. ASSUME Acquire(i) \/ Recheck(i) \/ Begin(i) \/ StartStep(i)
      PROVE  \E local \in Local : run' = [run EXCEPT ![i] = local]
  <2>1. PICK stage \in Owning : run' = [run EXCEPT ![i] = [run[i] EXCEPT !.stage = stage]]
    BY <1>3, Turns DEF Owning
  <2>2. [run[i] EXCEPT !.stage = stage] \in Local
    BY <1>0 DEF Local, Stage, Bound, Owning
  <2> QED BY <2>1, <2>2
<1>4. ASSUME TurnedAway(i) \/ LetGo(i) \/ FinishFailed(i) \/ Commit(i) \/ Vanish(i)
      PROVE  \E local \in Local : run' = [run EXCEPT ![i] = local]
  <2>1. Finished \in Local
    BY DEF Finished, Idle, Local, Stage, Bound, Owning
  <2>2. [Idle EXCEPT !.stage = "gone", !.op = run[i].op] \in Local
    BY <1>0 DEF Idle, Local, Stage, Bound, Owning
  <2> QED BY <1>4, <2>1, <2>2, Turns
<1>5. ASSUME Survey(i)
      PROVE  \E local \in Local : run' = [run EXCEPT ![i] = local]
  <2>1. run[i].base \in Base
    BY <1>5 DEF Survey, OwnInv, Bound, Owning
  <2>2. [run[i].base EXCEPT !.receipt = FALSE] \in Base
    BY <2>1 DEF Base
  <2> DEFINE base == [run[i].base EXCEPT !.receipt = FALSE]
             resume == ResumesRemoved(i)
  <2>3. resume \in BOOLEAN
    BY DEF ResumesRemoved
  <2> HIDE DEF base, resume
  <2>4. [run[i] EXCEPT !.stage = "stepping", !.at = 1, !.resume = resume, !.base = base] \in Local
    BY <1>0, <2>2, <2>3 DEF Local, Stage, Bound, Owning, base
  <2> QED BY <1>5, <2>4, Turns DEF base, resume
<1>6. Advance(i) \in Local
  <2>1. run[i].at + 1 \in Nat
    BY <1>0 DEF Local
  <2>2. Advance(i) = [run[i] EXCEPT !.stage = "stepping", !.at = run[i].at + 1, !.outcome = "none"]
    BY <1>0 DEF Advance, Local
  <2> DEFINE at == run[i].at + 1
  <2> HIDE DEF at
  <2>3. [run[i] EXCEPT !.stage = "stepping", !.at = at, !.outcome = "none"] \in Local
    BY <1>0, <2>1 DEF Local, Stage, Bound, Owning, at
  <2> QED BY <2>2, <2>3 DEF at
<1>7. ASSUME NEW action \in Action \cup {"none"}
      PROVE  Blame(i, action) \in Local
  BY <1>0 DEF Blame, Local, Stage, Bound, Owning
<1>8. ASSUME ServiceStep(i) \/ WorktreeStep(i)
      PROVE  \E local \in Local : run' = [run EXCEPT ![i] = local]
  <2>1. PICK outcome \in {"ok", "safe", "stuck"} :
           run' = [run EXCEPT ![i] = [run[i] EXCEPT !.stage = "recording", !.outcome = outcome]]
    BY <1>8, Turns
  <2>2. [run[i] EXCEPT !.stage = "recording", !.outcome = outcome] \in Local
    BY <1>0 DEF Local, Stage, Bound, Owning
  <2> QED BY <2>1, <2>2
<1>9. ASSUME run[i].stage \in {"begun"} \cup Looping
      PROVE  /\ LastAction(i) \in Action
             /\ run[i].stage = "recording" =>
                   At(i).action \in Action /\ At(i).resource \in {"worktree"} \cup Service
  <2>1. /\ Len(Course(i)) \in Nat \ {0} /\ Steps(i) \in Seq(JournalStep)
        /\ Len(Steps(i)) = Len(Course(i)) /\ run[i].command \in Command
        /\ \A p \in 1 .. Len(Course(i)) : Steps(i)[p] \in JournalStep
    BY <1>9, Guided DEF Begun, Looping
  <2>2. run[i].stage \in Looping => run[i].at \in 1 .. Len(Course(i)) + 1
    BY DEF AtInv
  <2>3. run[i].stage \in {"effect", "recording"} => run[i].at \in 1 .. Len(Course(i))
    BY DEF AtInv, Looping
  <2>4. \A p \in 1 .. Len(Course(i)) :
           Steps(i)[p].action \in Action /\ Steps(i)[p].resource \in {"worktree"} \cup Service
    BY <2>1 DEF JournalStep
  <2>6. Last(Steps(i)).action \in Action
    BY <2>1, <2>4 DEF Last
  <2>7. CASE run[i].stage = "begun"
    BY <2>1, <2>7 DEF LastAction, Command, Action
  <2>8. CASE run[i].stage = "stepping"
    BY <2>1, <2>2, <2>4, <2>6, <2>8 DEF LastAction, MoreSteps, At, Looping
  <2>9. CASE run[i].stage \in {"effect", "recording"}
    BY <2>1, <2>3, <2>4, <2>9 DEF LastAction, MoreSteps, At
  <2>10. run[i].stage = "recording" =>
            At(i).action \in Action /\ At(i).resource \in {"worktree"} \cup Service
    BY <2>3, <2>4 DEF At
  <2> QED BY <1>9, <2>7, <2>8, <2>9, <2>10 DEF Looping
<1>10. CASE Halt(i)
  <2>1. run[i].blame \in Action \cup {"none"}
    BY <1>0 DEF Local
  <2> QED BY <1>1, <1>7, <1>10, <2>1 DEF Halt
<1>11. CASE Fails(i)
  <2>1. run[i].stage \in {"begun"} \cup Looping
    BY <1>11 DEF Fails, Looping
  <2> QED BY <1>1, <1>7, <1>9, <1>11, <2>1 DEF Fails
<1>12. CASE RecordFailure(i)
  <2>1. run[i].stage = "recording" /\ run[i].stage \in Looping /\ At(i).resource # "worktree"
    BY <1>12 DEF RecordFailure, Looping
  <2>2. At(i).action \in Action /\ At(i).resource \in Service
    BY <1>9, <2>1
  <2>3. CASE run' = [run EXCEPT ![i] = Blame(i, At(i).action)]
    BY <1>1, <1>7, <2>2, <2>3
  <2>4. CASE run' = [run EXCEPT ![i] =
                     [Advance(i) EXCEPT !.failed = run[i].failed \cup {At(i).resource},
                                        !.blame = IF run[i].blame = "none" THEN At(i).action
                                                  ELSE run[i].blame]]
    <3>1. PICK adv \in Local : adv = Advance(i)
      BY <1>6
    <3>2. PICK blame \in Action \cup {"none"} :
             blame = IF run[i].blame = "none" THEN At(i).action ELSE run[i].blame
      BY <1>0, <2>2 DEF Local
    <3>3. PICK failed \in SUBSET Service : failed = run[i].failed \cup {At(i).resource}
      BY <1>0, <2>2 DEF Local
    <3>4. [adv EXCEPT !.failed = failed, !.blame = blame] \in Local
      BY DEF Local
    <3>5. run' = [run EXCEPT ![i] = [adv EXCEPT !.failed = failed, !.blame = blame]]
      BY <2>4, <3>1, <3>2, <3>3
    <3> QED BY <1>1, <3>4, <3>5
  <2> QED BY <1>12, <2>3, <2>4, Turns
<1>13. CASE Skip(i) \/ Record(i)
  BY <1>1, <1>6, <1>13, Turns
<1> QED BY <1>1, <1>2, <1>3, <1>4, <1>5, <1>8, <1>10, <1>11, <1>12, <1>13 DEF Operate

LEMMA TypingKept ==
  ASSUME Typing, OwnInv, JournalInv, CurrentInv, AtInv, [Next]_vars
  PROVE  Typing'
<1>1. CASE UNCHANGED vars
  BY <1>1 DEF Typing, vars
<1>2. CASE Others
  <2>1. /\ workspace' = workspace /\ operations' = operations /\ holder' = holder
        /\ run' = run /\ seen' = seen
    BY <1>2, OthersKeep
  <2>2. CASE WorktreeVanishes
    BY <2>1, <2>2 DEF WorktreeVanishes, Typing
  <2>3. ASSUME NEW s \in Service, Drift(s) PROVE Typing'
    <3>1. PICK status \in ServiceStatus : service' = [service EXCEPT ![s] = status]
      BY <2>3 DEF Drift
    <3>2. status \in Condition
      BY LifecycleAssumption DEF Condition
    <3>3. service' \in [Service -> Condition]
      BY <3>1, <3>2 DEF Typing
    <3>4. drifts' \in 0 .. MaxDrift /\ worktree' = worktree /\ undermined' = undermined
      BY <2>3, LifecycleAssumption DEF Drift, Typing
    <3> QED BY <2>1, <3>3, <3>4 DEF Typing
  <2> QED BY <1>2, <2>2, <2>3 DEF Others
<1>3. ASSUME NEW i \in Invocation, Operate(i)
      PROVE  Typing'
  <2>1. run' \in [Invocation -> Local]
    BY <1>3, LocalMoves
  <2>2. drifts' = drifts
    BY <1>3, DriftsKept
  <2>3. holder' \in Invocation \cup {NoOne}
    BY <1>3, HolderKept DEF Typing, Acquire, LetGo, FinishFailed, Commit
  <2>4. worktree' \in {"present", "absent"}
    <3>1. ASSUME WorktreeStep(i) PROVE worktree' \in {"present", "absent"}
      BY <3>1 DEF WorktreeStep, Barrier, RemoveWorktree, LookAtWorktree, Typing
    <3> QED BY <1>3, <3>1, WorktreeKept DEF Typing
  <2>5. operations' \in [Operation -> Journal]
    <3>1. CASE Begin(i)
      <4>1. /\ run[i].op \in Invocation /\ run[i].op \in Operation
            /\ run[i].command \in Command /\ run[i].command \in Kind
        BY <3>1 DEF Begin, OwnInv, Bound, Owning, Operation, Kind
      <4>2. PICK steps \in Seq(JournalStep) :
               operations' = [operations EXCEPT ![run[i].op] =
                  [kind |-> run[i].command, status |-> "running", steps |-> steps]]
        <5>1. operations[run[i].op].steps \in Seq(JournalStep)
          BY <4>1 DEF Typing, Journal
        <5>2. CommandSteps(run[i].command, Resources) \in Seq(JournalStep)
          BY <4>1, PlanTypes
        <5> QED BY <3>1, <5>1, <5>2 DEF Begin
      <4>3. [kind |-> run[i].command, status |-> "running", steps |-> steps] \in Journal
        BY <4>1 DEF Journal, OperationStatus
      <4> QED BY <4>1, <4>2, <4>3 DEF Typing
    <3>2. CASE ~Begin(i)
      BY <1>3, <3>2, JournalMoves
    <3> QED BY <3>1, <3>2
  <2>6. workspace' \in [state : State, version : Nat, op : Operation, forgotten : BOOLEAN]
    <3>0. workspace \in [state : State, version : Nat, op : Operation, forgotten : BOOLEAN]
      BY DEF Typing
    <3>1. run[i].stage \in Owning =>
             /\ run[i].op \in Operation /\ run[i].command \in Command
             /\ run[i].base \in Base /\ run[i].base.state \in State
      BY DEF OwnInv, Bound, Operation, Base
    <3>2. CASE Begin(i)
      <4>1. run[i].stage \in Owning
        BY <3>2 DEF Begin, Owning
      <4>2. EnterState(i) \in State
        BY <3>1, <4>1 DEF EnterState, State, Command
      <4> QED BY <3>0, <3>1, <3>2, <4>1, <4>2 DEF Begin
    <3>3. CASE StartStep(i)
      BY <3>0, <3>3 DEF StartStep, State
    <3>4. CASE FinishFailed(i)
      <4>1. run[i].stage \in Owning
        BY <3>4 DEF FinishFailed, Owning
      <4>2. FailedState(i) \in State
        BY <3>1, <4>1 DEF FailedState, State, Command
      <4>3. PICK state \in State : state = FailedState(i)
        BY <4>2
      <4>4. workspace' = [workspace EXCEPT !.state = state, !.version = workspace.version + 1]
        BY <3>0, <3>4, <4>3 DEF FinishFailed
      <4>5. PICK version \in Nat : version = workspace.version + 1
        BY <3>0
      <4>6. workspace' = [workspace EXCEPT !.state = state, !.version = version]
        BY <4>4, <4>5
      <4> QED BY <3>0, <4>6
    <3>5. CASE Commit(i)
      <4>1. run[i].stage \in Owning
        BY <3>5 DEF Commit, Owning
      <4>2. SuccessState(run[i].command, run[i].base.state) \in State
        BY <3>1, <4>1 DEF SuccessState, State, Command
      <4>3. PICK state \in State : state = SuccessState(run[i].command, run[i].base.state)
        BY <4>2
      <4>4. PICK forgotten \in BOOLEAN : forgotten = (run[i].command = "forget")
        OBVIOUS
      <4>5. workspace' = [workspace EXCEPT !.state = state, !.version = workspace.version + 1,
                                           !.forgotten = forgotten]
        BY <3>0, <3>5, <4>3, <4>4 DEF Commit
      <4>6. PICK version \in Nat : version = workspace.version + 1
        BY <3>0
      <4>7. workspace' = [workspace EXCEPT !.state = state, !.version = version,
                                           !.forgotten = forgotten]
        BY <4>5, <4>6
      <4> QED BY <3>0, <4>7
    <3> QED BY <1>3, <3>0, <3>2, <3>3, <3>4, <3>5, WorkspaceKept
  <2>7. /\ service' \in [Service -> Condition]
        /\ seen' \in [Service -> [by : Invocation \cup {NoOne},
                                  status : Condition \cup {"unknown"}]]
    <3> DEFINE Sight == [by : Invocation \cup {NoOne}, status : Condition \cup {"unknown"}]
    <3>0. service \in [Service -> Condition] /\ seen \in [Service -> Sight]
      BY DEF Typing
    <3>1. ASSUME NEW s, NEW status \in Condition \cup {"unknown"}, Saw(i, s, status)
          PROVE  seen' \in [Service -> Sight]
      <4>1. [by |-> i, status |-> status] \in Sight
        OBVIOUS
      <4> QED BY <3>0, <3>1, <4>1 DEF Saw
    <3>2. CASE ServiceStep(i)
      <4>1. run[i].stage \in Begun /\ run[i].stage \in Looping /\ At(i).resource # "worktree"
        BY <3>2 DEF ServiceStep, Begun, Looping
      <4>2. At(i).resource \in Service
        <5>1. run[i].at \in 1 .. Len(Course(i))
          BY <3>2, <4>1 DEF ServiceStep, AtInv
        <5>2. At(i) \in JournalStep
          BY <4>1, <5>1, Guided DEF At
        <5> QED BY <4>1, <5>2 DEF JournalStep
      <4>3. service[At(i).resource] \in Condition
        BY <3>0, <4>2
      <4>4. ASSUME ProbeUnknown(i)
            PROVE service' \in [Service -> Condition] /\ seen' \in [Service -> Sight]
        BY <3>0, <3>1, <4>4 DEF ProbeUnknown
      <4>5. ASSUME LookOnly(i)
            PROVE service' \in [Service -> Condition] /\ seen' \in [Service -> Sight]
        BY <3>0, <3>1, <4>3, <4>5 DEF LookOnly
      <4>6. ASSUME Mutate(i)
            PROVE service' \in [Service -> Condition] /\ seen' \in [Service -> Sight]
        <5>1. PICK left \in ServiceStatus :
                 /\ service' = [service EXCEPT ![At(i).resource] = left]
                 /\ \E status \in {left, "unknown", service[At(i).resource]} :
                       Saw(i, At(i).resource, status)
          BY <4>6 DEF Mutate
        <5>2. left \in Condition
          BY LifecycleAssumption DEF Condition
        <5>3. service' \in [Service -> Condition]
          BY <3>0, <5>1, <5>2
        <5> QED BY <3>1, <4>3, <5>1, <5>2, <5>3
      <4> QED BY <3>2, <4>4, <4>5, <4>6 DEF ServiceStep
    <3>3. CASE WorktreeStep(i)
      <4>1. ASSUME Barrier(i) PROVE seen' \in [Service -> Sight]
        <5>1. CASE seen' = [s \in Service |-> [by |-> i, status |-> service[s]]]
          <6>1. \A s \in Service : [by |-> i, status |-> service[s]] \in Sight
            BY <3>0
          <6> QED BY <5>1, <6>1
        <5>2. ASSUME NEW s \in Service, NEW status,
                     status = IF service[s] = "absent" THEN "unknown" ELSE service[s],
                     Saw(i, s, status)
              PROVE  seen' \in [Service -> Sight]
          <6>1. status \in Condition \cup {"unknown"}
            BY <3>0, <5>2
          <6> QED BY <3>1, <5>2, <6>1
        <5> QED BY <4>1, <5>1, <5>2 DEF Barrier
      <4>2. service' = service /\ (Barrier(i) \/ seen' = seen)
        BY <3>3 DEF WorktreeStep, RemoveWorktree, LookAtWorktree
      <4> QED BY <3>0, <4>1, <4>2
    <3>4. CASE ~ServiceStep(i) /\ ~WorktreeStep(i)
      BY <1>3, <3>0, <3>4, ServiceKept, SeenKept
    <3> QED BY <3>2, <3>3, <3>4
  <2>8. undermined' = undermined
    BY <1>3, UnderminedKept
  <2> HIDE DEF Local, Journal
  <2> QED BY <2>1, <2>2, <2>3, <2>4, <2>5, <2>6, <2>7, <2>8 DEF Typing
<1> QED BY <1>1, <1>2, <1>3, WhoSteps

-----------------------------------------------------------------------------
(* What an action does to the local state of the one that takes it.        *)
Keeps(i) ==
  /\ run'[i].command = run[i].command
  /\ run'[i].op = run[i].op
  /\ run'[i].force = run[i].force

KeepsTally(i) ==
  /\ run'[i].failed = run[i].failed
  /\ run'[i].blame = run[i].blame

Planned(i) ==
  /\ run[i].stage = "idle" /\ run'[i].stage = "planned"
  /\ run'[i].command \in Command /\ Accepts(run'[i].command, workspace.state)
  /\ run'[i].base = Snapshot
  /\ \/ run'[i].op = i
     \/ /\ run'[i].op = workspace.op
        /\ operations[workspace.op].kind = run'[i].command
        /\ operations[workspace.op].status \in {"running", "failed"}
  /\ KeepsTally(i)
  /\ run'[i].resume = run[i].resume

(* From one stage to the next with nothing else changed.                   *)
Moved(i, from, to) ==
  /\ run[i].stage = from /\ run'[i].stage = to
  /\ Keeps(i)
  /\ KeepsTally(i)
  /\ run'[i].base = run[i].base
  /\ run'[i].at = run[i].at
  /\ run'[i].resume = run[i].resume

Surveyed(i) ==
  /\ run[i].stage = "begun" /\ run'[i].stage = "stepping"
  /\ Keeps(i)
  /\ KeepsTally(i)
  /\ run'[i].base.state = run[i].base.state
  /\ ~run'[i].base.receipt
  /\ run'[i].at = 1
  /\ run'[i].resume = ResumesRemoved(i)

Advanced(i, from) ==
  /\ run[i].stage = from /\ run'[i].stage = "stepping"
  /\ Keeps(i)
  /\ run'[i].base = run[i].base
  /\ run'[i].at = run[i].at + 1
  /\ run'[i].resume = run[i].resume

Blamed(i, action) ==
  /\ run[i].stage \in Begun /\ run'[i].stage = "failing"
  /\ Keeps(i)
  /\ run'[i].base = run[i].base
  /\ run'[i].resume = run[i].resume
  /\ run'[i].blame = action /\ run'[i].failed = {}

LEMMA Fields ==
  ASSUME Typing, NEW i \in Invocation
  PROVE  /\ \A command \in Commands, force \in BOOLEAN : Plan(i, command, force) => Planned(i)
         /\ Acquire(i) => Moved(i, "planned", "acquired")
         /\ Recheck(i) => Moved(i, "acquired", "checked")
         /\ Begin(i) => Moved(i, "checked", "begun")
         /\ TurnedAway(i) \/ LetGo(i) \/ FinishFailed(i) \/ Commit(i) => run'[i].stage = "done"
         /\ Vanish(i) => /\ run[i].stage \in Owning /\ run'[i].stage = "gone"
                         /\ run'[i].op = run[i].op
         /\ Survey(i) => /\ run[i].stage = "begun"
                         /\ (run[i].base \in Base => Surveyed(i) /\ run'[i].base \in Base)
         /\ Skip(i) => Advanced(i, "stepping") /\ KeepsTally(i)
         /\ Record(i) => Advanced(i, "recording") /\ KeepsTally(i)
         /\ Halt(i) => Blamed(i, run[i].blame)
         /\ Fails(i) => Blamed(i, LastAction(i))
         /\ StartStep(i) => Moved(i, "stepping", "effect")
         /\ ServiceStep(i) \/ WorktreeStep(i) => Moved(i, "effect", "recording")
         /\ RecordFailure(i) =>
               \/ /\ GoesOn(i) /\ Advanced(i, "recording")
                  /\ run'[i].failed = run[i].failed \cup {At(i).resource}
                  /\ run'[i].blame = IF run[i].blame = "none" THEN At(i).action ELSE run[i].blame
               \/ ~GoesOn(i) /\ Blamed(i, At(i).action)
<1>0. run \in [Invocation -> Local] /\ run[i] \in Local
  BY DEF Typing
<1>1. ASSUME NEW local, run' = [run EXCEPT ![i] = local]
      PROVE  run'[i] = local
  BY <1>0, <1>1
<1>2. ASSUME NEW command \in Commands, NEW force \in BOOLEAN, Plan(i, command, force)
      PROVE  Planned(i)
  <2>1. PICK op : /\ op = IF Snapshot.kind = command /\ Snapshot.status \in {"running", "failed"}
                          THEN Snapshot.op ELSE i
                  /\ run' = [run EXCEPT ![i] =
                        [run[i] EXCEPT !.stage = "planned", !.command = command, !.force = force,
                                       !.base = Snapshot, !.op = op]]
    BY <1>2 DEF Plan
  <2>2. /\ Snapshot.kind = operations[workspace.op].kind
        /\ Snapshot.status = operations[workspace.op].status
        /\ Snapshot.op = workspace.op
    BY DEF Snapshot
  <2>3. command \in Command /\ Accepts(command, workspace.state) /\ run[i].stage = "idle"
    BY <1>2, LifecycleAssumption DEF Plan
  <2>4. PICK base : base = Snapshot
    OBVIOUS
  <2>5. run'[i] = [run[i] EXCEPT !.stage = "planned", !.command = command, !.force = force,
                                 !.base = base, !.op = op]
    BY <1>1, <2>1, <2>4
  <2>6. /\ run'[i].stage = "planned" /\ run'[i].command = command /\ run'[i].base = base
        /\ run'[i].op = op /\ run'[i].failed = run[i].failed /\ run'[i].blame = run[i].blame
        /\ run'[i].resume = run[i].resume
    BY <1>0, <2>5 DEF Local
  <2> QED BY <2>1, <2>2, <2>3, <2>4, <2>6 DEF Planned, KeepsTally
<1>3. ASSUME NEW from, NEW to, run[i].stage = from,
             run' = [run EXCEPT ![i] = [run[i] EXCEPT !.stage = to]]
      PROVE  Moved(i, from, to)
  BY <1>0, <1>1, <1>3 DEF Moved, Keeps, KeepsTally, Local
<1>4. /\ Acquire(i) => Moved(i, "planned", "acquired")
      /\ Recheck(i) => Moved(i, "acquired", "checked")
      /\ Begin(i) => Moved(i, "checked", "begun")
      /\ StartStep(i) => Moved(i, "stepping", "effect")
  BY <1>3, Turns DEF Acquire, Recheck, Begin, StartStep, MoreSteps
<1>5. ASSUME TurnedAway(i) \/ LetGo(i) \/ FinishFailed(i) \/ Commit(i)
      PROVE  run'[i].stage = "done"
  <2>1. Finished.stage = "done"
    BY DEF Finished, Idle
  <2> QED BY <1>1, <1>5, <2>1, Turns
<1>6. ASSUME Vanish(i)
      PROVE  run[i].stage \in Owning /\ run'[i].stage = "gone" /\ run'[i].op = run[i].op
  <2>1. run'[i] = [Idle EXCEPT !.stage = "gone", !.op = run[i].op]
    BY <1>1, <1>6, Turns
  <2>2. PICK op : op = run[i].op
    OBVIOUS
  <2>3. run'[i] = [Idle EXCEPT !.stage = "gone", !.op = op]
    BY <2>1, <2>2
  <2>4. run'[i].stage = "gone" /\ run'[i].op = op
    BY <2>3 DEF Idle
  <2> QED BY <1>6, <2>2, <2>4 DEF Vanish
<1>7. ASSUME Survey(i), run[i].base \in Base
      PROVE  Surveyed(i) /\ run'[i].base \in Base
  <2>1. PICK base : base = [run[i].base EXCEPT !.receipt = FALSE]
    OBVIOUS
  <2>2. base.state = run[i].base.state /\ ~base.receipt /\ base \in Base
    BY <1>7, <2>1 DEF Base
  <2>3. run'[i] = [run[i] EXCEPT !.stage = "stepping", !.at = 1, !.resume = ResumesRemoved(i),
                                 !.base = base]
    BY <1>1, <1>7, <2>1, Turns
  <2>4. PICK resume : resume = ResumesRemoved(i)
    OBVIOUS
  <2>5. run'[i] = [run[i] EXCEPT !.stage = "stepping", !.at = 1, !.resume = resume, !.base = base]
    BY <2>3, <2>4
  <2>6. /\ run'[i].stage = "stepping" /\ run'[i].at = 1 /\ run'[i].resume = resume
        /\ run'[i].base = base
        /\ Keeps(i) /\ KeepsTally(i)
    BY <1>0, <2>5 DEF Local, Keeps, KeepsTally
  <2> QED BY <1>7, <2>2, <2>4, <2>6 DEF Surveyed, Survey
<1>8. /\ Advance(i).stage = "stepping" /\ Advance(i).at = run[i].at + 1
      /\ Advance(i).command = run[i].command /\ Advance(i).op = run[i].op
      /\ Advance(i).force = run[i].force /\ Advance(i).base = run[i].base
      /\ Advance(i).resume = run[i].resume
      /\ Advance(i).failed = run[i].failed /\ Advance(i).blame = run[i].blame
  BY <1>0 DEF Advance, Local
<1>9. ASSUME NEW from, run[i].stage = from, run' = [run EXCEPT ![i] = Advance(i)]
      PROVE  Advanced(i, from) /\ KeepsTally(i)
  <2>1. run'[i] = Advance(i)
    BY <1>0, <1>9
  <2> QED BY <1>8, <1>9, <2>1 DEF Advanced, Keeps, KeepsTally
<1>10. /\ Skip(i) => Advanced(i, "stepping") /\ KeepsTally(i)
       /\ Record(i) => Advanced(i, "recording") /\ KeepsTally(i)
  BY <1>9 DEF Skip, Record, MoreSteps
<1>11. ASSUME NEW action, run[i].stage \in Begun, run' = [run EXCEPT ![i] = Blame(i, action)]
       PROVE  Blamed(i, action)
  BY <1>0, <1>1, <1>11 DEF Blamed, Blame, Keeps, Local
<1>12. ASSUME Halt(i) PROVE Blamed(i, run[i].blame)
  <2>1. run[i].stage \in Begun /\ run' = [run EXCEPT ![i] = Blame(i, run[i].blame)]
    BY <1>12 DEF Halt, MoreSteps, Begun
  <2> QED BY <1>11, <2>1
<1>13. ASSUME Fails(i) PROVE Blamed(i, LastAction(i))
  <2>1. run[i].stage \in Begun /\ run' = [run EXCEPT ![i] = Blame(i, LastAction(i))]
    BY <1>13 DEF Fails, Begun
  <2> QED BY <1>11, <2>1
<1>14. ASSUME ServiceStep(i) \/ WorktreeStep(i) PROVE Moved(i, "effect", "recording")
  <2>1. PICK outcome \in {"ok", "safe", "stuck"} :
           run' = [run EXCEPT ![i] = [run[i] EXCEPT !.stage = "recording", !.outcome = outcome]]
    BY <1>14, Turns
  <2>2. run[i].stage = "effect"
    BY <1>14 DEF ServiceStep, WorktreeStep
  <2> QED BY <1>0, <1>1, <2>1, <2>2 DEF Moved, Keeps, KeepsTally, Local
<1>15. ASSUME RecordFailure(i)
       PROVE  \/ /\ GoesOn(i) /\ Advanced(i, "recording")
                 /\ run'[i].failed = run[i].failed \cup {At(i).resource}
                 /\ run'[i].blame = IF run[i].blame = "none" THEN At(i).action ELSE run[i].blame
              \/ ~GoesOn(i) /\ Blamed(i, At(i).action)
  <2>1. run[i].stage = "recording" /\ run[i].stage \in Begun
    BY <1>15 DEF RecordFailure, Begun
  <2>2. CASE ~GoesOn(i) /\ run' = [run EXCEPT ![i] = Blame(i, At(i).action)]
    BY <1>11, <2>1, <2>2
  <2>3. CASE GoesOn(i) /\ run' = [run EXCEPT ![i] =
                     [Advance(i) EXCEPT !.failed = run[i].failed \cup {At(i).resource},
                                        !.blame = IF run[i].blame = "none" THEN At(i).action
                                                  ELSE run[i].blame]]
    <3>1. PICK failed : failed = run[i].failed \cup {At(i).resource}
      OBVIOUS
    <3>2. PICK blame : blame = IF run[i].blame = "none" THEN At(i).action ELSE run[i].blame
      OBVIOUS
    <3>3. PICK adv : adv = Advance(i)
      OBVIOUS
    <3>4. run'[i] = [adv EXCEPT !.failed = failed, !.blame = blame]
      BY <1>1, <2>3, <3>1, <3>2, <3>3
    <3>5. adv = [run[i] EXCEPT !.stage = "stepping", !.at = run[i].at + 1, !.outcome = "none"]
      BY <1>0, <3>3 DEF Advance, Local
    <3>6. /\ run'[i].stage = "stepping" /\ run'[i].at = run[i].at + 1 /\ Keeps(i)
          /\ run'[i].base = run[i].base /\ run'[i].resume = run[i].resume
          /\ run'[i].failed = failed /\ run'[i].blame = blame
      BY <1>0, <3>4, <3>5 DEF Local, Keeps
    <3> QED BY <2>1, <2>3, <3>1, <3>2, <3>6 DEF Advanced
  <2> QED BY <1>15, <2>2, <2>3, Turns
<1> QED BY <1>2, <1>4, <1>5, <1>6, <1>7, <1>10, <1>12, <1>13, <1>14, <1>15
     DEF Survey

-----------------------------------------------------------------------------
(* The command that holds the lease is alone at work.                      *)
LEMMA Alone ==
  ASSUME Typing, OwnInv, NEW i \in Invocation, Operate(i),
         NEW j \in Invocation, j # i, run[j].stage \in Owning
  PROVE  UNCHANGED <<workspace, operations, holder, worktree, service, drifts, seen, undermined>>
<1>1. holder = j
  BY DEF OwnInv
<1>2. run[i].stage \notin Owning
  BY <1>1 DEF OwnInv
<1>3. ~Acquire(i)
  <2>1. j # NoOne
    BY LifecycleAssumption
  <2>2. run[j].stage # "gone"
    BY DEF Owning
  <2> QED BY <1>1, <2>1, <2>2 DEF Acquire
<1>4. (\E command \in Commands, force \in BOOLEAN : Plan(i, command, force)) \/ TurnedAway(i)
  BY <1>2, <1>3 DEF Operate, Recheck, LetGo, Vanish, Begin, Survey, Skip, Halt, StartStep,
     ServiceStep, WorktreeStep, Record, RecordFailure, Fails, FinishFailed, Commit, MoreSteps,
     Owning
<1> QED BY <1>4 DEF Plan, TurnedAway

(* A step of one command, or none of a command.                            *)
LEMMA RunKept ==
  ASSUME Others \/ UNCHANGED vars
  PROVE  UNCHANGED <<workspace, operations, holder, run, seen>>
BY OthersKeep DEF vars

LEMMA OwnKept ==
  ASSUME Typing, OwnInv, JournalInv, CurrentInv, AtInv, Typing', [Next]_vars
  PROVE  OwnInv'
<1>1. CASE Others \/ UNCHANGED vars
  BY <1>1, RunKept DEF OwnInv
<1>2. ASSUME NEW i \in Invocation, Operate(i) PROVE OwnInv'
  <2>0. \A j \in Invocation : j # i => run'[j] = run[j]
    BY <1>2, LocalMoves
  <2> DEFINE Own(j) ==
         /\ run[j].stage \in Owning => holder = j
         /\ run[j].stage \in Bound \cup {"gone"} => run[j].op \in Invocation
         /\ run[j].stage \in Bound => run[j].command \in Command /\ run[j].base \in Base
         /\ run[j].stage \in {"idle", "planned", "acquired", "checked", "begun"} =>
               run[j].failed = {} /\ run[j].blame = "none" /\ ~run[j].resume
  <2>1. ASSUME NEW j \in Invocation, j # i PROVE Own(j)'
    <3>1. run'[j] = run[j]
      BY <2>0, <2>1
    <3>2. run[j].stage \in Owning => holder' = holder
      BY <1>2, <2>1, Alone
    <3> QED BY <3>1, <3>2 DEF OwnInv
  <2>2. Own(i)
    BY DEF OwnInv
  <2> SUFFICES Own(i)'
    BY <2>1 DEF OwnInv
  <2> USE DEF Bound, Owning
  <2>3. CASE \E command \in Commands, force \in BOOLEAN : Plan(i, command, force)
    <3>1. Planned(i)
      BY <2>3, Fields
    <3>2. run'[i].op \in Invocation
      <4>1. CASE run'[i].op = workspace.op
        <5>1. workspace.op \in Operation
          BY DEF Typing
        <5>2. "create" \notin Command
          BY DEF Command
        <5>3. CASE run'[i].op = i
          BY <5>3
        <5>4. CASE operations[workspace.op].kind = run'[i].command
          BY <3>1, <4>1, <5>1, <5>2, <5>4 DEF Planned, JournalInv, Operation
        <5> QED BY <3>1, <5>3, <5>4 DEF Planned
      <4> QED BY <3>1, <4>1 DEF Planned
    <3>3. Snapshot \in Base
      BY SnapshotTypes
    <3> QED BY <2>2, <3>1, <3>2, <3>3 DEF Planned, KeepsTally
  <2>4. CASE Acquire(i)
    <3>1. Moved(i, "planned", "acquired") /\ holder' = i
      BY <2>4, Fields DEF Acquire
    <3> QED BY <2>2, <3>1 DEF Moved, Keeps, KeepsTally
  <2>5. CASE Recheck(i)
    <3>1. Moved(i, "acquired", "checked") /\ holder' = holder
      BY <2>5, Fields DEF Recheck
    <3> QED BY <2>2, <3>1 DEF Moved, Keeps, KeepsTally
  <2>6. CASE Begin(i)
    <3>1. Moved(i, "checked", "begun") /\ holder' = holder
      BY <2>6, Fields DEF Begin
    <3> QED BY <2>2, <3>1 DEF Moved, Keeps, KeepsTally
  <2>7. CASE TurnedAway(i) \/ LetGo(i) \/ FinishFailed(i) \/ Commit(i)
    <3>1. run'[i].stage = "done"
      BY <2>7, Fields
    <3> QED BY <3>1
  <2>8. CASE Vanish(i)
    <3>1. run[i].stage \in Owning /\ run'[i].stage = "gone" /\ run'[i].op = run[i].op
      BY <2>8, Fields
    <3> QED BY <2>2, <3>1
  <2>9. CASE Survey(i)
    <3>1. Surveyed(i) /\ run'[i].base \in Base /\ holder' = holder
      BY <2>2, <2>9, Fields DEF Survey
    <3> QED BY <2>2, <3>1 DEF Surveyed, Keeps
  <2>10. CASE Skip(i) \/ Record(i)
    <3>1. /\ Advanced(i, run[i].stage) /\ run[i].stage \in {"stepping", "recording"}
          /\ holder' = holder
      BY <2>10, Fields DEF Skip, Record, MoreSteps
    <3> QED BY <2>2, <3>1 DEF Advanced, Keeps
  <2>11. CASE Halt(i) \/ Fails(i)
    <3>1. /\ \E action : Blamed(i, action)
          /\ holder' = holder
      BY <2>11, Fields DEF Halt, Fails
    <3> QED BY <2>2, <3>1 DEF Blamed, Begun, Keeps
  <2>12. CASE StartStep(i)
    <3>1. Moved(i, "stepping", "effect") /\ holder' = holder
      BY <2>12, Fields DEF StartStep
    <3> QED BY <2>2, <3>1 DEF Moved, Keeps
  <2>13. CASE ServiceStep(i) \/ WorktreeStep(i)
    <3>1. Moved(i, "effect", "recording") /\ holder' = holder
      BY <2>13, Fields DEF ServiceStep, WorktreeStep
    <3> QED BY <2>2, <3>1 DEF Moved, Keeps
  <2>14. CASE RecordFailure(i)
    <3>1. Advanced(i, "recording") \/ Blamed(i, At(i).action)
      BY <2>14, Fields
    <3>2. holder' = holder
      BY <2>14 DEF RecordFailure
    <3> QED BY <2>2, <3>1, <3>2 DEF Advanced, Blamed, Begun, Keeps
  <2> QED
    BY <1>2, <2>3, <2>4, <2>5, <2>6, <2>7, <2>8, <2>9, <2>10, <2>11, <2>12, <2>13, <2>14 DEF Operate
<1> QED BY <1>1, <1>2, WhoSteps

LEMMA FollowsLike ==
  ASSUME NEW steps, NEW after, NEW plan \in Seq(JournalStep),
         Follows(steps, plan), Like(steps, after)
  PROVE  Follows(after, plan)
BY DEF Follows, Like

LEMMA JournalKept ==
  ASSUME Typing, OwnInv, JournalInv, CurrentInv, AtInv, [Next]_vars
  PROVE  JournalInv'
<1>1. CASE Others \/ UNCHANGED vars
  BY <1>1, RunKept DEF JournalInv
<1>2. ASSUME NEW i \in Invocation, Operate(i), ~Begin(i) PROVE JournalInv'
  <2>1. /\ \A o \in Operation : /\ operations'[o].kind = operations[o].kind
                                /\ Like(operations[o].steps, operations'[o].steps)
    BY <1>2, JournalMoves
  <2>2. Creation \in Operation
    BY DEF Operation
  <2>3. operations'[Creation].kind = "create" /\ operations'[Creation].steps = <<>>
    BY <2>1, <2>2 DEF JournalInv, Like
  <2>4. ASSUME NEW o \in Invocation
        PROVE  /\ operations'[o].kind \in Command \cup {"none"}
               /\ operations'[o].kind = "none" => operations'[o].steps = <<>>
               /\ operations'[o].kind \in Command =>
                     Follows(operations'[o].steps, CommandSteps(operations'[o].kind, Resources))
    <3>1. o \in Operation
      BY DEF Operation
    <3>2. operations'[o].kind = "none" => operations'[o].steps = <<>>
      BY <2>1, <3>1 DEF JournalInv, Like
    <3>3. operations'[o].kind \in Command =>
             Follows(operations'[o].steps, CommandSteps(operations'[o].kind, Resources))
      BY <2>1, <3>1, PlanTypes, FollowsLike DEF JournalInv
    <3> QED BY <2>1, <3>1, <3>2, <3>3 DEF JournalInv
  <2> QED BY <2>3, <2>4 DEF JournalInv
<1>3. ASSUME NEW i \in Invocation, Begin(i) PROVE JournalInv'
  <2> DEFINE op == run[i].op
             mine == operations[op]
  <2>1. op \in Invocation /\ run[i].command \in Command /\ op # Creation /\ op \in Operation
    BY <1>3, LifecycleAssumption DEF Begin, OwnInv, Bound, Owning, Operation
  <2>2. PICK steps : /\ steps = IF mine.kind # "none" THEN mine.steps
                                ELSE CommandSteps(run[i].command, Resources)
                     /\ operations' = [operations EXCEPT ![op] =
                           [kind |-> run[i].command, status |-> "running", steps |-> steps]]
    BY <1>3 DEF Begin
  <2>3. Follows(steps, CommandSteps(run[i].command, Resources))
    <3>1. CASE mine.kind # "none"
      BY <1>3, <2>1, <2>2, <3>1 DEF Begin, JournalInv
    <3>2. CASE mine.kind = "none"
      BY <2>2, <3>2 DEF Follows
    <3> QED BY <3>1, <3>2
  <2> HIDE DEF op, mine
  <2>4. /\ operations'[op].kind = run[i].command /\ operations'[op].steps = steps
        /\ \A o \in Operation : o # op => operations'[o] = operations[o]
    BY <2>1, <2>2 DEF Typing
  <2>5. Creation \in Operation /\ \A o \in Invocation : o \in Operation
    BY DEF Operation
  <2>6. "none" \notin Command
    BY DEF Command
  <2> QED BY <2>1, <2>3, <2>4, <2>5, <2>6 DEF JournalInv
<1> QED BY <1>1, <1>2, <1>3, WhoSteps

LEMMA CurrentKept ==
  ASSUME Typing, OwnInv, JournalInv, CurrentInv, AtInv, Typing', OwnInv', [Next]_vars
  PROVE  CurrentInv'
<1>1. CASE Others \/ UNCHANGED vars
  BY <1>1, RunKept DEF CurrentInv
<1>2. ASSUME NEW i \in Invocation, Operate(i) PROVE CurrentInv'
  <2> DEFINE Current(j) ==
         /\ run[j].stage = "checked" => workspace.state = run[j].base.state
         /\ run[j].stage \in Begun =>
               /\ workspace.op = run[j].op
               /\ operations[run[j].op].kind = run[j].command
               /\ operations[run[j].op].status = "running"
               /\ ~workspace.forgotten
               /\ IF run[j].command = "forget" THEN workspace.state = run[j].base.state
                  ELSE workspace.state \in Underway[run[j].command]
  <2>0. run[i].stage \in Begun =>
           run[i].op \in Operation /\ run[i].command \in Command /\ run[i].base \in Base
    BY DEF OwnInv, Begun, Bound, Owning, Operation
  <2>1. ASSUME NEW j \in Invocation, j # i PROVE Current(j)'
    <3>1. run'[j] = run[j]
      BY <1>2, <2>1, LocalMoves
    <3>2. run[j].stage \in Owning => workspace' = workspace /\ operations' = operations
      BY <1>2, <2>1, Alone
    <3>3. CASE run[j].stage \in Owning
      BY <3>1, <3>2, <3>3 DEF CurrentInv
    <3>4. CASE run[j].stage \notin Owning
      BY <3>1, <3>4 DEF Owning, Begun
    <3> QED BY <3>3, <3>4
  <2>2. Current(i)
    BY DEF CurrentInv
  <2> SUFFICES Current(i)'
    BY <2>1 DEF CurrentInv
  <2>3. CASE \E command \in Commands, force \in BOOLEAN : Plan(i, command, force)
    <3>1. run'[i].stage = "planned"
      BY <2>3, Fields DEF Planned
    <3> QED BY <3>1 DEF Begun
  <2>4. CASE Acquire(i)
    <3>1. run'[i].stage = "acquired"
      BY <2>4, Fields DEF Moved
    <3> QED BY <3>1 DEF Begun
  <2>5. CASE Recheck(i)
    <3>1. run'[i].stage = "checked" /\ run'[i].base = run[i].base
      BY <2>5, Fields DEF Moved
    <3>2. run[i].base \in Base /\ Snapshot \in Base
      BY <2>5, SnapshotTypes DEF Recheck, OwnInv, Bound, Owning
    <3>3. [run[i].base EXCEPT !.receipt = FALSE].state = [Snapshot EXCEPT !.receipt = FALSE].state
      BY <2>5 DEF Recheck, Unchanged
    <3>4. PICK snap \in Base : snap = Snapshot
      BY <3>2
    <3>5. run[i].base.state = snap.state
      BY <3>2, <3>3, <3>4 DEF Base
    <3>6. snap.state = workspace.state /\ workspace' = workspace
      BY <2>5, <3>4 DEF Snapshot, Recheck
    <3> QED BY <3>1, <3>5, <3>6 DEF Begun
  <2>6. CASE Begin(i)
    <3>1. /\ run'[i].stage = "begun" /\ run'[i].base = run[i].base /\ run'[i].op = run[i].op
          /\ run'[i].command = run[i].command
      BY <2>6, Fields DEF Moved, Keeps
    <3>2. run[i].op \in Operation /\ run[i].command \in Command
      BY <2>6 DEF Begin, OwnInv, Bound, Owning, Operation
    <3>3. PICK steps : operations' = [operations EXCEPT ![run[i].op] =
                           [kind |-> run[i].command, status |-> "running", steps |-> steps]]
      BY <2>6 DEF Begin
    <3>4. operations'[run[i].op].kind = run[i].command /\ operations'[run[i].op].status = "running"
      BY <3>2, <3>3 DEF Typing
    <3>5. /\ workspace'.op = run[i].op /\ workspace'.state = EnterState(i)
          /\ ~workspace'.forgotten
      BY <2>6 DEF Begin, Typing
    <3>6. IF run[i].command = "forget" THEN EnterState(i) = run[i].base.state
          ELSE EnterState(i) \in Underway[run[i].command]
      BY <3>2 DEF EnterState, Underway, Command
    <3> QED BY <3>1, <3>4, <3>5, <3>6
  <2>7. CASE TurnedAway(i) \/ LetGo(i) \/ FinishFailed(i) \/ Commit(i) \/ Vanish(i)
    <3>1. run'[i].stage \in {"done", "gone"}
      BY <2>7, Fields
    <3> QED BY <3>1 DEF Begun
  <2>8. ASSUME ~Begin(i), ~FinishFailed(i), ~Commit(i), run[i].stage \in Begun
        PROVE  /\ operations'[run[i].op].kind = operations[run[i].op].kind
               /\ operations'[run[i].op].status = operations[run[i].op].status
    BY <1>2, <2>0, <2>8, JournalMoves
  <2>9. ASSUME run[i].stage \in Begun, Keeps(i), workspace' = workspace,
               ~Begin(i), ~FinishFailed(i), ~Commit(i),
               run'[i].base.state = run[i].base.state, run'[i].stage # "checked"
        PROVE  Current(i)'
    BY <2>2, <2>8, <2>9 DEF Keeps
  <2>10. CASE Survey(i)
    <3>1. /\ run[i].stage \in Begun /\ Keeps(i) /\ run'[i].base.state = run[i].base.state
          /\ run'[i].stage # "checked"
      BY <2>0, <2>10, Fields DEF Surveyed, Begun
    <3> QED BY <2>9, <2>10, <3>1 DEF Survey, Begin, FinishFailed, Commit
  <2>11. CASE StartStep(i)
    <3>1. /\ run[i].stage = "stepping" /\ Keeps(i) /\ run'[i].base = run[i].base
          /\ run'[i].stage = "effect" /\ run[i].stage \in Begun /\ run[i].stage \in Looping
      BY <2>11, Fields DEF Moved, Begun, Looping
    <3>2. ~Begin(i) /\ ~FinishFailed(i)
      BY <3>1 DEF Begin, FinishFailed
    <3>3. ~Commit(i)
      BY <3>1, Fields DEF Commit
    <3>4. CASE At(i).action = "start"
      <4>1. run[i].at \in 1 .. Len(Course(i))
        BY <2>11, <3>1, Guided DEF StartStep, MoreSteps, AtInv
      <4>2. Fitting(run[i].command, Course(i)[run[i].at]) /\ Course(i)[run[i].at].action = "start"
        BY <3>1, <3>4, <4>1, Guided DEF At
      <4>3. run[i].command \in {"start", "restart"}
        BY <4>2 DEF Fitting
      <4>4. /\ workspace'.state = "starting" /\ workspace'.op = workspace.op
            /\ workspace'.forgotten = workspace.forgotten
        BY <2>11, <3>4 DEF StartStep, Typing
      <4>5. "starting" \in Underway[run[i].command]
        BY <4>3 DEF Underway
      <4> QED BY <2>2, <2>8, <3>1, <3>2, <3>3, <4>3, <4>4, <4>5 DEF Keeps
    <3>5. CASE At(i).action # "start"
      BY <2>9, <2>11, <3>1, <3>2, <3>3, <3>5 DEF StartStep
    <3> QED BY <3>4, <3>5
  <2>12. CASE Skip(i) \/ Record(i) \/ Halt(i) \/ Fails(i) \/ ServiceStep(i) \/ WorktreeStep(i)
              \/ RecordFailure(i)
    <3>1. /\ Keeps(i) /\ run'[i].base = run[i].base
          /\ run'[i].stage \in Begun
      BY <2>12, Fields DEF Advanced, Moved, Blamed, Begun
    <3>2. run[i].stage \in Begun
      BY <2>12, Fields DEF Advanced, Moved, Blamed, Begun
    <3>3. workspace' = workspace
      BY <2>12 DEF Skip, Record, Halt, Fails, ServiceStep, WorktreeStep, RecordFailure
    <3>4. ~Begin(i) /\ ~FinishFailed(i) /\ ~Commit(i)
      <4>1. run'[i].stage # "done"
        BY <3>1 DEF Begun
      <4> QED BY <3>2, <4>1, Fields DEF Begin, Begun
    <3> QED BY <2>9, <3>1, <3>2, <3>3, <3>4 DEF Begun
  <2> QED BY <1>2, <2>3, <2>4, <2>5, <2>6, <2>7, <2>10, <2>11, <2>12 DEF Operate
<1> QED BY <1>1, <1>2, WhoSteps

(* The steps an error can be blamed on are those of its command.           *)
LEMMA BlamedOnPlan ==
  ASSUME Typing, OwnInv, JournalInv, CurrentInv, AtInv, NEW i \in Invocation,
         run[i].stage \in {"begun"} \cup Looping
  PROVE  /\ LastAction(i) = "start" => run[i].command \in {"start", "restart"}
         /\ run[i].command = "start" => LastAction(i) = "start"
         /\ run[i].stage \in {"effect", "recording"} \/ MoreSteps(i) =>
               /\ run[i].at \in 1 .. Len(Course(i))
               /\ At(i).action = "start" => run[i].command \in {"start", "restart"}
               /\ run[i].command = "start" => At(i).action = "start"
<1>1. /\ Len(Course(i)) \in Nat \ {0} /\ Steps(i) \in Seq(JournalStep)
      /\ Len(Steps(i)) = Len(Course(i)) /\ run[i].command \in Command
      /\ \A p \in 1 .. Len(Course(i)) :
            /\ Steps(i)[p].action = Course(i)[p].action
            /\ Steps(i)[p] \in JournalStep
            /\ Fitting(run[i].command, Course(i)[p])
  BY Guided DEF Begun, Looping
<1>2. ASSUME NEW p \in 1 .. Len(Course(i))
      PROVE  /\ Steps(i)[p].action = "start" => run[i].command \in {"start", "restart"}
             /\ run[i].command = "start" => Steps(i)[p].action = "start"
  <2>1. Steps(i)[p].action \in Action
    BY <1>1 DEF JournalStep
  <2> QED BY <1>1, <2>1 DEF Fitting, Action
<1>3. run[i].stage \in Looping => run[i].at \in 1 .. Len(Course(i)) + 1
  BY DEF AtInv
<1>4. run[i].stage \in {"effect", "recording"} => run[i].at \in 1 .. Len(Course(i))
  BY DEF AtInv, Looping
<1>5. MoreSteps(i) => run[i].at \in 1 .. Len(Course(i))
  BY <1>1, <1>3 DEF MoreSteps, Looping
<1>6. Last(Steps(i)) = Steps(i)[Len(Course(i))] /\ Len(Course(i)) \in 1 .. Len(Course(i))
  BY <1>1 DEF Last
<1>7. run[i].stage \in {"effect", "recording"} \/ MoreSteps(i) =>
               /\ run[i].at \in 1 .. Len(Course(i))
               /\ At(i).action = "start" => run[i].command \in {"start", "restart"}
               /\ run[i].command = "start" => At(i).action = "start"
  BY <1>2, <1>4, <1>5 DEF At
<1>8. CASE run[i].stage = "begun"
  BY <1>1, <1>7, <1>8 DEF LastAction, Command
<1>9. CASE run[i].stage = "stepping" /\ ~MoreSteps(i)
  <2>1. LastAction(i) = Steps(i)[Len(Course(i))].action
    BY <1>6, <1>9 DEF LastAction
  <2> QED BY <1>2, <1>6, <1>7, <2>1
<1>10. CASE run[i].stage \in {"effect", "recording"} \/ MoreSteps(i)
  <2>1. LastAction(i) = At(i).action
    BY <1>10 DEF LastAction, MoreSteps
  <2> QED BY <1>7, <1>10, <2>1
<1> QED BY <1>8, <1>9, <1>10 DEF Looping

LEMMA BlameKept ==
  ASSUME Typing, OwnInv, JournalInv, CurrentInv, AtInv, BlameInv, [Next]_vars
  PROVE  BlameInv'
<1>1. CASE Others \/ UNCHANGED vars
  BY <1>1, RunKept DEF BlameInv
<1>2. ASSUME NEW i \in Invocation, Operate(i) PROVE BlameInv'
  <2> DEFINE Fair(j) == run[j].stage \in Begun =>
         /\ run[j].blame = "start" => run[j].command \in {"start", "restart"}
         /\ run[j].command = "start" =>
               run[j].failed = {} /\ (run[j].stage = "failing" => run[j].blame = "start")
  <2>1. ASSUME NEW j \in Invocation, j # i PROVE Fair(j)'
    <3>1. run'[j] = run[j]
      BY <1>2, <2>1, LocalMoves
    <3> QED BY <3>1 DEF BlameInv
  <2>2. Fair(i)
    BY DEF BlameInv
  <2> SUFFICES Fair(i)'
    BY <2>1 DEF BlameInv
  <2>3. CASE (\E command \in Commands, force \in BOOLEAN : Plan(i, command, force))
             \/ Acquire(i) \/ Recheck(i)
             \/ TurnedAway(i) \/ LetGo(i) \/ FinishFailed(i) \/ Commit(i) \/ Vanish(i)
    <3>1. run'[i].stage \in {"planned", "acquired", "checked", "done", "gone"}
      BY <2>3, Fields DEF Planned, Moved
    <3> QED BY <3>1 DEF Begun
  <2>4. CASE Begin(i)
    <3>1. Moved(i, "checked", "begun")
      BY <2>4, Fields
    <3> QED BY <3>1 DEF Moved, Keeps, KeepsTally, OwnInv
  <2>5. CASE Survey(i)
    <3>1. run[i].base \in Base
      BY <2>5 DEF Survey, OwnInv, Bound, Owning
    <3>2. Surveyed(i)
      BY <2>5, <3>1, Fields
    <3> QED BY <2>2, <3>2 DEF Surveyed, Keeps, KeepsTally, Begun
  <2>6. CASE StartStep(i) \/ ServiceStep(i) \/ WorktreeStep(i)
    <3>1. Moved(i, "stepping", "effect") \/ Moved(i, "effect", "recording")
      BY <2>6, Fields
    <3> QED BY <2>2, <3>1 DEF Moved, Keeps, KeepsTally, Begun
  <2>7. CASE Skip(i) \/ Record(i)
    <3>1. (Advanced(i, "stepping") \/ Advanced(i, "recording")) /\ KeepsTally(i)
      BY <2>7, Fields
    <3> QED BY <2>2, <3>1 DEF Advanced, Keeps, KeepsTally, Begun
  <2>8. CASE Halt(i)
    <3>1. Blamed(i, run[i].blame) /\ run[i].failed # {}
      BY <2>8, Fields DEF Halt, Halts
    <3> QED BY <2>2, <3>1 DEF Blamed, Keeps
  <2>9. CASE Fails(i)
    <3>1. Blamed(i, LastAction(i)) /\ run[i].stage \in {"begun"} \cup Looping
      BY <2>9, Fields DEF Fails, Looping
    <3> QED BY <2>2, <3>1, BlamedOnPlan DEF Blamed, Keeps
  <2>10. CASE RecordFailure(i)
    <3>1. run[i].stage = "recording" /\ run[i].stage \in {"begun"} \cup Looping
      BY <2>10 DEF RecordFailure, Looping
    <3>2. /\ At(i).action = "start" => run[i].command \in {"start", "restart"}
          /\ run[i].command = "start" => At(i).action = "start"
      BY <3>1, BlamedOnPlan
    <3>3. CASE Blamed(i, At(i).action)
      BY <3>2, <3>3 DEF Blamed, Keeps
    <3>4. CASE /\ GoesOn(i) /\ Advanced(i, "recording")
               /\ run'[i].blame = IF run[i].blame = "none" THEN At(i).action ELSE run[i].blame
      <4>1. At(i).action \in {"stop", "delete"}
        BY <3>4 DEF GoesOn
      <4>2. run[i].command # "start"
        BY <3>2, <4>1
      <4> QED BY <2>2, <3>1, <3>2, <3>4, <4>2 DEF Advanced, Keeps, Begun
    <3> QED BY <2>10, <3>3, <3>4, Fields
  <2> QED
    BY <1>2, <2>3, <2>4, <2>5, <2>6, <2>7, <2>8, <2>9, <2>10 DEF Operate
<1> QED BY <1>1, <1>2, WhoSteps

LEMMA StateKept ==
  ASSUME Typing, OwnInv, JournalInv, CurrentInv, AtInv, BlameInv, StateMatchesJournal,
         Typing', OwnInv', CurrentInv', [Next]_vars
  PROVE  StateMatchesJournal'
<1>1. CASE Others \/ UNCHANGED vars
  BY <1>1, RunKept DEF StateMatchesJournal
<1>2. ASSUME NEW i \in Invocation, run'[i].stage \in Begun PROVE StateMatchesJournal'
  <2>1. /\ workspace'.op = run'[i].op
        /\ operations'[run'[i].op].kind = run'[i].command
        /\ operations'[run'[i].op].status = "running"
        /\ ~workspace'.forgotten
        /\ IF run'[i].command = "forget" THEN workspace'.state = run'[i].base.state
           ELSE workspace'.state \in Underway[run'[i].command]
    BY <1>2 DEF CurrentInv
  <2>2. run'[i].command \in Kind
    BY <2>1 DEF Typing, Journal
  <2>3. run'[i].command \in Command
    BY <1>2 DEF OwnInv, Begun, Bound, Owning
  <2> QED BY <2>1, <2>3 DEF StateMatchesJournal, Failing, Command
<1>3. ASSUME NEW i \in Invocation, Operate(i), run'[i].stage \notin Begun
      PROVE  StateMatchesJournal'
  <2>1. ~Begin(i) /\ ~StartStep(i)
    BY <1>3, Fields DEF Moved, Begun
  <2>2. CASE FinishFailed(i) \/ Commit(i)
    <3>1. run[i].stage \in Begun /\ run[i].stage \in Owning
      BY <2>2 DEF FinishFailed, Commit, Begun, Owning
    <3>2. run[i].command \in Command /\ run[i].op \in Operation
      BY <3>1 DEF OwnInv, Bound, Operation
    <3>3. workspace.op = run[i].op /\ operations[run[i].op].kind = run[i].command
          /\ ~workspace.forgotten
      BY <3>1 DEF CurrentInv
    <3>4. /\ operations'[run[i].op].kind = run[i].command
          /\ workspace'.op = run[i].op
      BY <1>3, <2>1, <2>2, <3>2, <3>3, JournalMoves DEF FinishFailed, Commit, Typing
    <3>5. CASE FinishFailed(i)
      <4>1. operations'[run[i].op].status = "failed"
        BY <3>2, <3>5 DEF FinishFailed, Typing, Journal
      <4>2. /\ workspace'.state = FailedState(i)
            /\ ~workspace'.forgotten
        BY <3>3, <3>5 DEF FinishFailed, Typing
      <4>3. run[i].command # "forget" => FailedState(i) \in Failing[run[i].command]
        <5>1. /\ run[i].blame = "start" => run[i].command \in {"start", "restart"}
              /\ run[i].command = "start" => run[i].blame = "start"
          BY <3>1, <3>5 DEF BlameInv, FinishFailed
        <5> QED BY <3>2, <5>1 DEF FailedState, Failing, Command
      <4> QED BY <3>2, <3>4, <4>1, <4>2, <4>3 DEF StateMatchesJournal, Failing, Command
    <3>6. CASE Commit(i)
      <4>1. operations'[run[i].op].status = "completed"
        BY <3>2, <3>6 DEF Commit, Typing, Journal
      <4>2. /\ workspace'.state = SuccessState(run[i].command, run[i].base.state)
            /\ workspace'.forgotten = (run[i].command = "forget")
        BY <3>6 DEF Commit, Typing
      <4>3. run[i].command # "forget" =>
               workspace'.state = SuccessState(run[i].command, workspace'.state)
        BY <3>2, <4>2 DEF SuccessState, Command
      <4> QED BY <3>2, <3>4, <4>1, <4>2, <4>3 DEF StateMatchesJournal, Failing, Command
    <3> QED BY <2>2, <3>5, <3>6
  <2>3. CASE ~FinishFailed(i) /\ ~Commit(i)
    <3>1. workspace' = workspace
      BY <1>3, <2>1, <2>3, WorkspaceKept
    <3>2. workspace.op \in Operation
      BY DEF Typing
    <3>3. /\ operations'[workspace.op].kind = operations[workspace.op].kind
          /\ operations'[workspace.op].status = operations[workspace.op].status
      BY <1>3, <2>1, <2>3, <3>2, JournalMoves
    <3> QED BY <3>1, <3>3 DEF StateMatchesJournal
  <2> QED BY <2>2, <2>3
<1> QED BY <1>1, <1>2, <1>3, WhoSteps

-----------------------------------------------------------------------------
(* Where commands are, and the Worktree they find.                         *)
LEMMA Outcome ==
  ASSUME Typing, NEW i \in Invocation, NEW outcome, Result(i, outcome)
  PROVE  run'[i].outcome = outcome
BY DEF Typing, Result, Local

LEMMA StepsAlike ==
  ASSUME Typing, OwnInv, JournalInv, CurrentInv, AtInv,
         NEW i \in Invocation, run[i].stage \in Looping
  PROVE  /\ Len(Course(i)) \in Nat \ {0} /\ run[i].at \in 1 .. Len(Course(i)) + 1
         /\ MoreSteps(i) \/ run[i].stage \in {"effect", "recording"} =>
               /\ run[i].at \in 1 .. Len(Course(i))
               /\ At(i).action = Course(i)[run[i].at].action
               /\ At(i).resource = Course(i)[run[i].at].resource
               /\ At(i).verify = Course(i)[run[i].at].verify
               /\ At(i).action \in Action /\ At(i).resource \in {"worktree"} \cup Service
               /\ Fitting(run[i].command, Course(i)[run[i].at])
         /\ run[i].stage = "stepping" /\ ~MoreSteps(i) => run[i].at = Len(Course(i)) + 1
<1>1. /\ Len(Course(i)) \in Nat \ {0} /\ Len(Steps(i)) = Len(Course(i))
      /\ \A p \in 1 .. Len(Course(i)) :
            /\ Steps(i)[p].action = Course(i)[p].action
            /\ Steps(i)[p].resource = Course(i)[p].resource
            /\ Steps(i)[p].verify = Course(i)[p].verify
            /\ Steps(i)[p].action \in Action
            /\ Steps(i)[p].resource \in {"worktree"} \cup Service
            /\ Fitting(run[i].command, Course(i)[p])
  BY Guided DEF Begun, Looping, JournalStep
<1>2. run[i].at \in 1 .. Len(Course(i)) + 1
  BY DEF AtInv
<1>3. MoreSteps(i) \/ run[i].stage \in {"effect", "recording"} => run[i].at \in 1 .. Len(Course(i))
  BY <1>1, <1>2 DEF AtInv, MoreSteps
<1>4. run[i].stage = "stepping" /\ ~MoreSteps(i) => run[i].at = Len(Course(i)) + 1
  BY <1>1, <1>2 DEF MoreSteps
<1> QED BY <1>1, <1>2, <1>3, <1>4 DEF At

LEMMA CourseKept ==
  ASSUME NEW i \in Invocation, run'[i].command = run[i].command
  PROVE  Course(i)' = Course(i)
BY DEF Course

LEMMA AtKept ==
  ASSUME Typing, OwnInv, JournalInv, CurrentInv, AtInv, [Next]_vars
  PROVE  AtInv'
<1>1. CASE Others \/ UNCHANGED vars
  BY <1>1, RunKept DEF AtInv, Course
<1>2. ASSUME NEW i \in Invocation, Operate(i) PROVE AtInv'
  <2> DEFINE There(j) == run[j].stage \in Looping =>
         /\ run[j].at \in 1 .. Len(Course(j)) + 1
         /\ \A s \in run[j].failed :
               \E p \in 1 .. Len(Course(j)) : p < run[j].at /\ Course(j)[p].resource = s
         /\ run[j].stage \in {"effect", "recording"} =>
               LET step == Course(j)[run[j].at] IN
               /\ run[j].at \in 1 .. Len(Course(j))
               /\ run[j].resume => step.resource = "worktree" /\ step.action # "barrier"
               /\ step.action = "start" \/ step.resource = "worktree" => run[j].failed = {}
  <2>1. ASSUME NEW j \in Invocation, j # i PROVE There(j)'
    <3>1. run'[j] = run[j]
      BY <1>2, <2>1, LocalMoves
    <3>2. Course(j)' = Course(j)
      BY <3>1, CourseKept
    <3> QED BY <3>1, <3>2 DEF AtInv
  <2>2. There(i)
    BY DEF AtInv
  <2> SUFFICES There(i)'
    BY <2>1 DEF AtInv
  <2>3. CASE run'[i].stage \notin Looping
    BY <2>3
  <2>4. CASE Survey(i)
    <3>1. run[i].base \in Base /\ run[i].failed = {} /\ run[i].command \in Command
      BY <2>4 DEF Survey, OwnInv, Bound, Owning
    <3>2. /\ run'[i].stage = "stepping" /\ run'[i].at = 1 /\ run'[i].failed = {}
          /\ run'[i].command = run[i].command
      BY <2>4, <3>1, Fields DEF Surveyed, Keeps, KeepsTally
    <3>3. Course(i)' = Course(i) /\ Len(Course(i)) \in Nat \ {0}
      BY <3>1, <3>2, CourseKept, PlanTypes DEF Course
    <3> QED BY <3>2, <3>3
  <2>5. CASE StartStep(i)
    <3>1. /\ run[i].stage = "stepping" /\ run'[i].stage = "effect" /\ run'[i].at = run[i].at
          /\ run'[i].failed = run[i].failed /\ run'[i].resume = run[i].resume
          /\ run'[i].command = run[i].command
      BY <2>5, Fields DEF Moved, Keeps, KeepsTally
    <3>2. Course(i)' = Course(i)
      BY <3>1, CourseKept
    <3>3. run[i].stage \in Looping /\ MoreSteps(i)
      BY <2>5, <3>1 DEF StartStep, Looping
    <3>4. /\ run[i].at \in 1 .. Len(Course(i))
          /\ At(i).action = Course(i)[run[i].at].action
          /\ At(i).resource = Course(i)[run[i].at].resource
      BY <3>3, StepsAlike
    <3>5. /\ run[i].resume => At(i).resource = "worktree" /\ At(i).action # "barrier"
          /\ At(i).action = "start" \/ At(i).resource = "worktree" => run[i].failed = {}
      BY <2>5 DEF StartStep, Skipped, Halts, Unreplayed
    <3> QED BY <2>2, <3>1, <3>2, <3>3, <3>4, <3>5
  <2>6. CASE ServiceStep(i) \/ WorktreeStep(i)
    <3>1. /\ run[i].stage = "effect" /\ run'[i].stage = "recording" /\ run'[i].at = run[i].at
          /\ run'[i].failed = run[i].failed /\ run'[i].resume = run[i].resume
          /\ run'[i].command = run[i].command
      BY <2>6, Fields DEF Moved, Keeps, KeepsTally
    <3>2. Course(i)' = Course(i)
      BY <3>1, CourseKept
    <3>3. run[i].stage \in Looping
      BY <3>1 DEF Looping
    <3> QED BY <2>2, <3>1, <3>2, <3>3
  <2>7. ASSUME Skip(i) \/ Record(i) \/ RecordFailure(i), run'[i].stage \in Looping
        PROVE  There(i)'
    <3>1. \/ run[i].stage \in Looping /\ MoreSteps(i)
          \/ run[i].stage = "recording"
      BY <2>7 DEF Skip, Record, RecordFailure, MoreSteps, Looping
    <3>2. /\ run'[i].stage = "stepping" /\ run'[i].at = run[i].at + 1
          /\ run'[i].command = run[i].command
          /\ \A s \in run'[i].failed : s \in run[i].failed \/ s = At(i).resource
      BY <2>7, Fields DEF Advanced, Blamed, Keeps, KeepsTally, Looping
    <3>3. Course(i)' = Course(i)
      BY <3>2, CourseKept
    <3>4. /\ run[i].at \in 1 .. Len(Course(i)) /\ Len(Course(i)) \in Nat
          /\ At(i).resource = Course(i)[run[i].at].resource
      BY <3>1, StepsAlike DEF Looping
    <3>5. \A s \in run'[i].failed :
             \E p \in 1 .. Len(Course(i)) : p < run[i].at + 1 /\ Course(i)[p].resource = s
      <4> TAKE s \in run'[i].failed
      <4>1. CASE s \in run[i].failed
        <5>1. PICK p \in 1 .. Len(Course(i)) : p < run[i].at /\ Course(i)[p].resource = s
          BY <2>2, <3>1, <4>1 DEF Looping
        <5> QED BY <3>4, <5>1
      <4>2. CASE s = At(i).resource
        BY <3>4, <4>2
      <4> QED BY <3>2, <4>1, <4>2
    <3>6. run[i].at + 1 \in 1 .. Len(Course(i)) + 1
      BY <3>4
    <3> QED BY <3>2, <3>3, <3>5, <3>6
  <2>8. (\E command \in Commands, force \in BOOLEAN : Plan(i, command, force))
           \/ Acquire(i) \/ Recheck(i) \/ Begin(i) \/ TurnedAway(i) \/ LetGo(i)
           \/ FinishFailed(i) \/ Commit(i) \/ Vanish(i) \/ Halt(i) \/ Fails(i)
        => run'[i].stage \notin Looping
    BY Fields DEF Planned, Moved, Blamed, Looping
  <2> QED BY <1>2, <2>3, <2>4, <2>5, <2>6, <2>7, <2>8 DEF Operate
<1> QED BY <1>1, <1>2, WhoSteps

LEMMA WorktreeGoes ==
  ASSUME [Next]_vars
  PROVE  worktree' = worktree \/ worktree' = "absent"
<1>1. ASSUME NEW i \in Invocation, WorktreeStep(i)
      PROVE  worktree' = worktree \/ worktree' = "absent"
  BY <1>1 DEF WorktreeStep, Barrier, RemoveWorktree, LookAtWorktree
<1>2. ASSUME NEW i \in Invocation, Operate(i) PROVE worktree' = worktree \/ worktree' = "absent"
  BY <1>1, <1>2, WorktreeKept
<1> QED BY <1>2, WhoSteps, OthersKeep DEF vars

LEMMA ResumeKept ==
  ASSUME Typing, OwnInv, JournalInv, CurrentInv, AtInv, ResumeInv, [Next]_vars
  PROVE  ResumeInv'
<1>0. worktree' = worktree \/ worktree' = "absent"
  BY WorktreeGoes
<1>1. CASE Others \/ UNCHANGED vars
  BY <1>0, <1>1, RunKept DEF ResumeInv
<1>2. ASSUME NEW i \in Invocation, Operate(i), NEW j \in Invocation,
             run'[j].stage \in Begun, run'[j].resume
      PROVE  run'[j].command = "delete" /\ worktree' = "absent"
  <2>1. CASE j # i
    <3>1. run'[j] = run[j]
      BY <1>2, <2>1, LocalMoves
    <3> QED BY <1>0, <1>2, <3>1 DEF ResumeInv
  <2>2. CASE j = i /\ Survey(i)
    <3>1. run[i].base \in Base
      BY <2>2 DEF Survey, OwnInv, Bound, Owning
    <3>2. Surveyed(i)
      BY <2>2, <3>1, Fields
    <3> QED BY <1>2, <2>2, <3>2 DEF Surveyed, Keeps, ResumesRemoved, Survey
  <2>3. CASE j = i /\ ~Survey(i)
    <3>1. /\ run'[i].stage \in Begun => run[i].stage \in Begun \/ Moved(i, "checked", "begun")
          /\ run'[i].stage \in Begun => run'[i].resume = run[i].resume
                                        /\ run'[i].command = run[i].command
      BY <1>2, <2>3, Fields DEF Operate, Planned, Moved, Advanced, Blamed, Keeps, Begun
    <3>2. ~Moved(i, "checked", "begun")
      BY <1>2, <2>3, <3>1 DEF Moved, OwnInv
    <3> QED BY <1>0, <1>2, <2>3, <3>1, <3>2 DEF ResumeInv
  <2> QED BY <2>1, <2>2, <2>3
<1> QED BY <1>1, <1>2, WhoSteps DEF ResumeInv

LEMMA RemovedKept ==
  ASSUME Typing, OwnInv, JournalInv, CurrentInv, AtInv, RemovedInv, [Next]_vars
  PROVE  RemovedInv'
<1>0. worktree' = worktree \/ worktree' = "absent"
  BY WorktreeGoes
<1>1. CASE Others \/ UNCHANGED vars
  BY <1>0, <1>1, RunKept DEF RemovedInv, Behind, Course
<1>2. ASSUME NEW i \in Invocation, Operate(i), NEW j \in Invocation, run'[j].stage \in Looping,
             NEW p \in 1 .. Len(Course(j)'), Behind(j, p)', Removal(Course(j)'[p])
      PROVE  worktree' = "absent"
  <2>1. CASE j # i
    <3>1. run'[j] = run[j]
      BY <1>2, <2>1, LocalMoves
    <3>2. Course(j)' = Course(j)
      BY <3>1, CourseKept
    <3> QED BY <1>0, <1>2, <3>1, <3>2 DEF RemovedInv, Behind
  <2>2. CASE j = i /\ Survey(i)
    <3>1. run[i].base \in Base
      BY <2>2 DEF Survey, OwnInv, Bound, Owning
    <3>2. run'[i].at = 1 /\ run'[i].stage = "stepping"
      BY <2>2, <3>1, Fields DEF Surveyed
    <3>3. p \in Nat /\ p >= 1
      OBVIOUS
    <3> QED BY <1>2, <2>2, <3>2, <3>3 DEF Behind
  <2>3. CASE j = i /\ ~Survey(i)
    <3>1. run[i].stage \in Looping /\ run'[i].command = run[i].command
      BY <1>2, <2>3, Fields DEF Operate, Planned, Moved, Advanced, Blamed, Keeps, Looping
    <3>2. Course(i)' = Course(i)
      BY <3>1, CourseKept
    <3>3. CASE Behind(i, p)
      BY <1>0, <1>2, <2>3, <3>1, <3>2, <3>3 DEF RemovedInv
    <3>4. CASE ~Behind(i, p)
      <4>0. /\ run[i].at \in Nat /\ p \in Nat
            /\ MoreSteps(i) \/ run[i].stage \in {"effect", "recording"} =>
                  At(i).resource = Course(i)[run[i].at].resource
                  /\ At(i).action = Course(i)[run[i].at].action
        BY <3>1, StepsAlike
      <4>1. CASE StartStep(i)
        <5>1. run'[i].at = run[i].at /\ run'[i].stage = "effect"
          BY <4>1, Fields DEF Moved
        <5> QED BY <1>2, <2>3, <3>4, <5>1 DEF Behind
      <4>2. CASE Skip(i)
        <5>1. run'[i].at = run[i].at + 1 /\ run'[i].stage = "stepping"
          BY <4>2, Fields DEF Advanced
        <5>2. p = run[i].at
          BY <1>2, <2>3, <3>4, <4>0, <5>1 DEF Behind
        <5>3. MoreSteps(i) /\ Skipped(i)
          BY <4>2 DEF Skip
        <5>4. Removal(At(i))
          BY <1>2, <2>3, <3>2, <4>0, <5>2, <5>3 DEF Removal
        <5>5. "worktree" \notin run[i].failed
          BY ResourcesType DEF Typing, Local
        <5> QED BY <5>3, <5>4, <5>5 DEF Removal, Skipped, Unreplayed
      <4>3. CASE Record(i)
        <5>1. run'[i].at = run[i].at + 1 /\ run'[i].stage = "stepping"
          BY <4>3, Fields DEF Advanced
        <5> QED BY <1>2, <2>3, <3>4, <4>0, <4>3, <5>1 DEF Behind, Record
      <4>4. CASE RecordFailure(i)
        <5>1. run'[i].at = run[i].at + 1 /\ run'[i].stage = "stepping"
          BY <1>2, <2>3, <4>4, Fields DEF Advanced, Blamed, Looping
        <5>2. p = run[i].at
          BY <1>2, <2>3, <3>4, <4>0, <5>1 DEF Behind
        <5> QED BY <1>2, <2>3, <3>2, <4>0, <4>4, <5>2 DEF Removal, RecordFailure
      <4>5. CASE ServiceStep(i) \/ WorktreeStep(i)
        <5>1. run[i].stage = "effect" /\ run'[i].at = run[i].at /\ run'[i].stage = "recording"
          BY <4>5, Fields DEF Moved
        <5>2. p = run[i].at /\ run'[i].outcome = "ok"
          BY <1>2, <2>3, <3>4, <4>0, <5>1 DEF Behind
        <5>3. Removal(At(i))
          BY <1>2, <2>3, <3>2, <4>0, <5>1, <5>2 DEF Removal
        <5>4. CASE At(i).action = "delete"
          <6>1. RemoveWorktree(i)
            BY <4>5, <5>3, <5>4 DEF Removal, ServiceStep, WorktreeStep
          <6>2. Result(i, "stuck") => run'[i].outcome = "stuck"
            BY Outcome
          <6> QED BY <5>2, <6>1, <6>2 DEF RemoveWorktree
        <5>5. CASE At(i).action = "absence"
          <6>1. LookAtWorktree(i)
            BY <4>5, <5>3, <5>5 DEF Removal, ServiceStep, WorktreeStep
          <6>2. Result(i, "stuck") => run'[i].outcome = "stuck"
            BY Outcome
          <6> QED BY <1>0, <5>2, <5>5, <6>1, <6>2 DEF LookAtWorktree
        <5> QED BY <5>3, <5>4, <5>5 DEF Removal
      <4>6. (\E command \in Commands, force \in BOOLEAN : Plan(i, command, force))
               \/ Acquire(i) \/ Recheck(i) \/ Begin(i) \/ TurnedAway(i) \/ LetGo(i)
               \/ FinishFailed(i) \/ Commit(i) \/ Vanish(i) \/ Halt(i) \/ Fails(i)
            => run'[i].stage \notin Looping
        BY Fields DEF Planned, Moved, Blamed, Looping
      <4> QED BY <1>2, <2>3, <4>1, <4>2, <4>3, <4>4, <4>5, <4>6 DEF Operate
    <3> QED BY <3>3, <3>4
  <2> QED BY <2>1, <2>2, <2>3
<1>3. ASSUME NEW i \in Invocation, Operate(i) PROVE RemovedInv'
  BY <1>2, <1>3 DEF RemovedInv
<1> QED BY <1>1, <1>3, WhoSteps

-----------------------------------------------------------------------------
(* What a Service step that went well has seen.                            *)
Satisfies(status, action) ==
  /\ action = "start" => status = "ready"
  /\ action = "stop" => status \in {"stopped", "absent"}
  /\ action \in {"delete", "absence"} => status = "absent"

LEMMA ServiceSeen ==
  ASSUME Typing, OwnInv, JournalInv, CurrentInv, AtInv, NEW i \in Invocation, ServiceStep(i)
  PROVE  /\ At(i).resource \in Service
         /\ \A s \in Service : s # At(i).resource => seen'[s] = seen[s]
         /\ run'[i].outcome = "ok" =>
               /\ seen'[At(i).resource].by = i
               /\ Satisfies(seen'[At(i).resource].status, At(i).action)
<1>1. run[i].stage = "effect" /\ run[i].stage \in Looping /\ At(i).resource # "worktree"
  BY DEF ServiceStep, Looping
<1> DEFINE s == At(i).resource
           action == At(i).action
<1>2. /\ s \in Service /\ action \in Action
      /\ At(i).verify => action \in {"start", "stop"}
  BY <1>1, StepsAlike DEF Fitting
<1>3. seen \in [Service -> [by : Invocation \cup {NoOne}, status : Condition \cup {"unknown"}]]
  BY DEF Typing
<1>4. ASSUME NEW status, Saw(i, s, status)
      PROVE  /\ seen'[s].by = i /\ seen'[s].status = status
             /\ \A t \in Service : t # s => seen'[t] = seen[t]
  <2>1. seen' = [seen EXCEPT ![s] = [by |-> i, status |-> status]]
    BY <1>4 DEF Saw
  <2>2. seen'[s] = [by |-> i, status |-> status] /\ \A t \in Service : t # s => seen'[t] = seen[t]
    BY <1>2, <1>3, <2>1
  <2> QED BY <2>2
<1>5. ASSUME NEW status \in Goal[action], action \in DOMAIN Goal
      PROVE  Satisfies(status, action)
  BY <1>5 DEF Satisfies, Goal
<1>6. Result(i, "stuck") => run'[i].outcome = "stuck"
  BY Outcome
<1>7. Result(i, "safe") => run'[i].outcome = "safe"
  BY Outcome
<1>8. CASE ProbeUnknown(i)
  BY <1>2, <1>4, <1>6, <1>8 DEF ProbeUnknown
<1>9. CASE LookOnly(i)
  <2>1. Saw(i, s, service[s]) /\ ~Mutates(i)
        /\ Result(i, IF Passes(At(i), service[s]) THEN "ok" ELSE "stuck")
    BY <1>9 DEF LookOnly
  <2>2. run'[i].outcome = "ok" => Passes(At(i), service[s])
    BY <1>6, <2>1
  <2>3. ASSUME Passes(At(i), service[s]) PROVE Satisfies(service[s], action)
    <3>1. CASE action \in DOMAIN Goal
      <4>1. service[s] \in Goal[action]
        BY <2>1, <2>3, <3>1 DEF Passes, Mutates
      <4> QED BY <1>5, <3>1, <4>1
    <3>2. CASE action \notin DOMAIN Goal
      <4>1. action \notin {"start", "stop", "delete"}
        BY <3>2 DEF Goal
      <4> QED BY <2>3, <4>1 DEF Passes, Satisfies
    <3> QED BY <3>1, <3>2
  <2> QED BY <1>2, <1>4, <2>1, <2>2, <2>3
<1>10. CASE Mutate(i)
  <2>1. action \in DOMAIN Goal
    BY <1>10 DEF Mutate, Mutates
  <2>2. PICK left \in ServiceStatus :
           \/ \E again \in {left, "unknown"} :
                 /\ Saw(i, s, again)
                 /\ Result(i, IF again \in Goal[action] THEN "ok" ELSE "stuck")
           \/ \E outcome \in {"safe", "stuck"} : Saw(i, s, service[s]) /\ Result(i, outcome)
    BY <1>10 DEF Mutate
  <2>3. ASSUME NEW again, Saw(i, s, again),
               Result(i, IF again \in Goal[action] THEN "ok" ELSE "stuck")
        PROVE  /\ \A t \in Service : t # s => seen'[t] = seen[t]
               /\ run'[i].outcome = "ok" =>
                     seen'[s].by = i /\ Satisfies(seen'[s].status, action)
    <3>1. CASE again \in Goal[action]
      BY <1>4, <1>5, <2>1, <2>3, <3>1
    <3>2. CASE again \notin Goal[action]
      BY <1>4, <1>6, <2>3, <3>2
    <3> QED BY <3>1, <3>2
  <2>4. ASSUME NEW outcome \in {"safe", "stuck"}, Saw(i, s, service[s]), Result(i, outcome)
        PROVE  /\ \A t \in Service : t # s => seen'[t] = seen[t]
               /\ run'[i].outcome # "ok"
    BY <1>4, <1>6, <1>7, <2>4
  <2> QED BY <1>2, <2>2, <2>3, <2>4
<1> QED BY <1>8, <1>9, <1>10 DEF ServiceStep

LEMMA SightKept ==
  ASSUME Typing, OwnInv, JournalInv, CurrentInv, AtInv, SeenInv, [Next]_vars
  PROVE  SeenInv'
<1>1. CASE Others \/ UNCHANGED vars
  BY <1>1, RunKept DEF SeenInv, Behind, Failed, Tells, Restarted, Course
<1>2. ASSUME NEW i \in Invocation, Operate(i), NEW j \in Invocation,
             run'[j].stage \in Looping, ~run'[j].resume,
             NEW p \in 1 .. Len(Course(j)'),
             Behind(j, p)', Course(j)'[p].resource # "worktree",
             Course(j)'[p].resource \notin run'[j].failed,
             \A q \in 1 .. Len(Course(j)') :
                Failed(j, q)' => /\ Course(j)'[q].resource # Course(j)'[p].resource
                                 /\ Course(j)'[q].action # "barrier"
      PROVE  Tells(j, p)'
  <2>1. CASE j # i
    <3>1. run'[j] = run[j]
      BY <1>2, <2>1, LocalMoves
    <3>2. Course(j)' = Course(j)
      BY <3>1, CourseKept
    <3>3. seen' = seen
      BY <1>2, <2>1, <3>1, Alone DEF Looping, Owning
    <3>4. Tells(j, p)
      BY <1>2, <3>1, <3>2 DEF SeenInv, Behind, Failed
    <3>5. Restarted(j, p) => Restarted(j, p)'
      BY <3>1, <3>2 DEF Restarted, Behind
    <3> QED BY <3>1, <3>2, <3>3, <3>4, <3>5 DEF Tells
  <2>2. CASE j = i /\ Survey(i)
    <3>1. run[i].base \in Base
      BY <2>2 DEF Survey, OwnInv, Bound, Owning
    <3>2. run'[i].at = 1 /\ run'[i].stage = "stepping"
      BY <2>2, <3>1, Fields DEF Surveyed
    <3>3. p \in Nat /\ p >= 1
      OBVIOUS
    <3> QED BY <1>2, <2>2, <3>2, <3>3 DEF Behind
  <2>3. CASE j = i /\ ~Survey(i)
    <3>1. /\ run[i].stage \in Looping /\ run'[i].command = run[i].command
          /\ run'[i].resume = run[i].resume
      BY <1>2, <2>3, Fields DEF Operate, Planned, Moved, Advanced, Blamed, Keeps, Looping
    <3>2. Course(i)' = Course(i)
      BY <3>1, CourseKept
    <3> DEFINE plan == Course(i)
               step == plan[p]
               at == run[i].at
    <3>3. /\ at \in Nat /\ p \in Nat /\ p \in 1 .. Len(plan)
          /\ MoreSteps(i) \/ run[i].stage \in {"effect", "recording"} =>
                /\ at \in 1 .. Len(plan)
                /\ At(i).resource = plan[at].resource /\ At(i).action = plan[at].action
                /\ Fitting(run[i].command, plan[at])
      BY <1>2, <2>3, <3>1, <3>2, StepsAlike
    <3>4. ASSUME Behind(i, p), step.resource \notin run[i].failed,
                 \A q \in 1 .. Len(plan) :
                    Failed(i, q) => plan[q].resource # step.resource /\ plan[q].action # "barrier"
          PROVE  Tells(i, p)
      BY <1>2, <2>3, <3>1, <3>2, <3>4 DEF SeenInv
    <3>5. (\E command \in Commands, force \in BOOLEAN : Plan(i, command, force))
              \/ Acquire(i) \/ Recheck(i) \/ Begin(i) \/ TurnedAway(i) \/ LetGo(i)
              \/ FinishFailed(i) \/ Commit(i) \/ Vanish(i) \/ Halt(i) \/ Fails(i)
           => run'[i].stage \notin Looping
      BY Fields DEF Planned, Moved, Blamed, Looping
    <3>6. \A q \in 1 .. Len(plan) : Behind(i, q) => Behind(i, q)'
      <4> TAKE q \in 1 .. Len(plan)
      <4>1. CASE StartStep(i) \/ ServiceStep(i) \/ WorktreeStep(i)
        <5>1. run'[i].at = at /\ run[i].stage \in {"stepping", "effect"}
          BY <4>1, Fields DEF Moved
        <5> QED BY <5>1 DEF Behind
      <4>2. CASE Skip(i) \/ Record(i) \/ RecordFailure(i)
        <5>1. run'[i].at = at + 1
          BY <1>2, <2>3, <4>2, Fields DEF Advanced, Blamed, Looping
        <5> QED BY <3>3, <5>1 DEF Behind
      <4> QED BY <1>2, <2>3, <3>5, <4>1, <4>2 DEF Operate
    <3>7. Restarted(i, p) => Restarted(i, p)'
      BY <3>6, <3>2 DEF Restarted
    <3>8. CASE StartStep(i)
      <4>1. /\ run'[i].at = at /\ run[i].stage = "stepping" /\ run'[i].stage = "effect"
            /\ run'[i].failed = run[i].failed /\ seen' = seen
        BY <3>8, Fields DEF Moved, StartStep, KeepsTally
      <4>2. Behind(i, p) /\ \A q \in 1 .. Len(plan) : ~Failed(i, q)
        BY <1>2, <2>3, <4>1 DEF Behind, Failed
      <4>3. Tells(i, p)
        BY <1>2, <2>3, <3>2, <3>4, <4>1, <4>2
      <4> QED BY <2>3, <3>1, <3>2, <3>7, <4>1, <4>3 DEF Tells
    <3>9. CASE Skip(i)
      <4>1. /\ run'[i].at = at + 1 /\ run[i].stage = "stepping" /\ run'[i].stage = "stepping"
            /\ run'[i].failed = run[i].failed /\ seen' = seen
        BY <3>9, Fields DEF Advanced, Skip, KeepsTally
      <4>2. MoreSteps(i) /\ At(i).resource \in run[i].failed
        BY <1>2, <2>3, <3>1, <3>9 DEF Skip, Skipped, Unreplayed
      <4>3. p # at
        BY <1>2, <2>3, <3>2, <3>3, <4>1, <4>2
      <4>4. Behind(i, p) /\ \A q \in 1 .. Len(plan) : ~Failed(i, q)
        BY <1>2, <2>3, <3>3, <4>1, <4>3 DEF Behind, Failed
      <4>5. Tells(i, p)
        BY <1>2, <2>3, <3>2, <3>4, <4>1, <4>4
      <4> QED BY <2>3, <3>1, <3>2, <3>7, <4>1, <4>5 DEF Tells
    <3>10. CASE Record(i)
      <4>1. /\ run'[i].at = at + 1 /\ run[i].stage = "recording" /\ run'[i].stage = "stepping"
            /\ run'[i].failed = run[i].failed /\ seen' = seen /\ run[i].outcome = "ok"
        BY <3>10, Fields DEF Advanced, Record, KeepsTally
      <4>2. Behind(i, p) /\ \A q \in 1 .. Len(plan) : ~Failed(i, q)
        BY <1>2, <2>3, <3>3, <4>1 DEF Behind, Failed
      <4>3. Tells(i, p)
        BY <1>2, <2>3, <3>2, <3>4, <4>1, <4>2
      <4> QED BY <2>3, <3>1, <3>2, <3>7, <4>1, <4>3 DEF Tells
    <3>11. CASE RecordFailure(i)
      <4>1. /\ run'[i].at = at + 1 /\ run[i].stage = "recording" /\ run'[i].stage = "stepping"
            /\ run'[i].failed = run[i].failed \cup {At(i).resource} /\ seen' = seen
            /\ At(i).resource # "worktree"
        BY <1>2, <2>3, <3>11, Fields DEF Advanced, Blamed, RecordFailure, Looping
      <4>2. step.resource \notin run[i].failed /\ step.resource # At(i).resource
        BY <1>2, <2>3, <3>2, <4>1
      <4>3. p # at
        BY <3>3, <4>1, <4>2
      <4>4. Behind(i, p)
        BY <1>2, <2>3, <3>3, <4>1, <4>3 DEF Behind
      <4>5. \A q \in 1 .. Len(plan) :
               Failed(i, q) => plan[q].resource # step.resource /\ plan[q].action # "barrier"
        BY <3>3, <4>1, <4>2 DEF Failed, Fitting
      <4>6. Tells(i, p)
        BY <3>4, <4>2, <4>4, <4>5
      <4> QED BY <2>3, <3>1, <3>2, <3>7, <4>1, <4>6 DEF Tells
    <3>12. ASSUME ServiceStep(i) \/ WorktreeStep(i)
          PROVE  /\ run'[i].at = at /\ run[i].stage = "effect" /\ run'[i].stage = "recording"
                 /\ run'[i].failed = run[i].failed
                 /\ at \in 1 .. Len(plan)
                 /\ At(i).resource = plan[at].resource /\ At(i).action = plan[at].action
                 /\ Fitting(run[i].command, plan[at])
                 /\ p < at \/ (p = at /\ run'[i].outcome = "ok")
                 /\ run'[i].outcome # "ok" =>
                       plan[at].resource # step.resource /\ plan[at].action # "barrier"
                 /\ p < at => Tells(i, p)
      <4>1. /\ run'[i].at = at /\ run[i].stage = "effect" /\ run'[i].stage = "recording"
            /\ run'[i].failed = run[i].failed
        BY <3>12, Fields DEF Moved, KeepsTally
      <4>2. /\ at \in 1 .. Len(plan)
            /\ At(i).resource = plan[at].resource /\ At(i).action = plan[at].action
            /\ Fitting(run[i].command, plan[at])
        BY <3>3, <4>1
      <4>3. p < at \/ (p = at /\ run'[i].outcome = "ok")
        BY <1>2, <2>3, <3>3, <4>1 DEF Behind
      <4>4. run'[i].outcome # "ok" => Failed(i, at)'
        BY <4>1 DEF Failed
      <4>5. \A q \in 1 .. Len(plan) :
               Failed(i, q)' => plan[q].resource # step.resource /\ plan[q].action # "barrier"
        BY <1>2, <2>3, <3>2
      <4>6. p < at => Behind(i, p) /\ \A q \in 1 .. Len(plan) : ~Failed(i, q)
        BY <4>1 DEF Behind, Failed
      <4>7. p < at => Tells(i, p)
        BY <1>2, <2>3, <3>2, <3>4, <4>1, <4>6
      <4> QED BY <4>1, <4>2, <4>3, <4>4, <4>5, <4>7
    <3>13. run[i].command \in Command /\ "worktree" \notin Service
           /\ step \in JournalStep /\ Fitting(run[i].command, step)
      BY <3>1, <3>3, Guided, ResourcesType DEF Begun, Looping
    <3>14. CASE ServiceStep(i)
      <4>1. CASE step.resource # At(i).resource
        <5>1. p < at
          BY <3>12, <3>14, <4>1
        <5>2. Tells(i, p)
          BY <3>12, <3>14, <5>1
        <5>3. step.resource \in Service
          BY <1>2, <2>3, <3>2, <3>13 DEF JournalStep
        <5>4. seen'[step.resource] = seen[step.resource]
          BY <3>14, <4>1, <5>3, ServiceSeen
        <5> QED BY <2>3, <3>1, <3>2, <3>7, <5>2, <5>4 DEF Tells
      <4>2. CASE step.resource = At(i).resource
        <5>1. run'[i].outcome = "ok"
          BY <3>12, <3>14, <4>2
        <5>2. /\ seen'[step.resource].by = i
              /\ Satisfies(seen'[step.resource].status, plan[at].action)
          BY <3>12, <3>14, <4>2, <5>1, ServiceSeen
        <5>3. plan[at].action \in Action /\ step.action \in Action
          BY <3>1, <3>12, <3>13, <3>14, Guided DEF JournalStep, Begun, Looping
        <5>4. p = at \/ /\ step.action = "start" => plan[at].action = "start"
                        /\ step.action \in {"delete", "absence"} =>
                              plan[at].action \in {"delete", "absence"}
          <6>1. CASE p < at
            <7>1. step.resource = plan[at].resource /\ step.resource # "worktree"
              BY <1>2, <2>3, <3>2, <3>12, <3>14, <4>2
            <7> QED BY <3>3, <3>12, <3>13, <3>14, <6>1, <7>1, PlanOrder DEF Course
          <6> QED BY <3>12, <3>14, <6>1
        <5>5. step.action = "stop" =>
                 \/ plan[at].action = "stop"
                 \/ plan[at].action = "start" /\ run[i].command = "restart"
          BY <3>12, <3>13, <3>14, <5>3 DEF Fitting, Action
        <5>6. plan[at].action = "start" => Restarted(i, p)'
          <6> SUFFICES ASSUME plan[at].action = "start" PROVE Restarted(i, p)'
            OBVIOUS
          <6>1. PICK q \in 1 .. Len(plan) : q = at /\ Behind(i, q)'
            BY <3>12, <3>14, <5>1 DEF Behind
          <6>2. plan[q].action = "start" /\ plan[q].resource = step.resource
            BY <3>12, <3>14, <4>2, <6>1
          <6> QED BY <3>2, <6>1, <6>2 DEF Restarted
        <5> QED BY <2>3, <3>1, <3>2, <5>2, <5>4, <5>5, <5>6 DEF Tells, Satisfies
      <4> QED BY <4>1, <4>2
    <3>15. CASE WorktreeStep(i)
      <4>1. p < at
        BY <1>2, <2>3, <3>2, <3>12, <3>15 DEF WorktreeStep
      <4>2. Tells(i, p)
        BY <3>12, <3>15, <4>1
      <4>3. CASE seen' = seen
        BY <2>3, <3>1, <3>2, <3>7, <4>2, <4>3 DEF Tells
      <4>4. CASE Barrier(i) /\ At(i).action = "barrier"
        <5>1. run'[i].outcome = "ok"
          BY <3>12, <3>15, <4>4
        <5>2. Result(i, "stuck") => run'[i].outcome = "stuck"
          BY Outcome
        <5>3. Fresh /\ seen' = [s \in Service |-> [by |-> i, status |-> service[s]]]
          BY <4>4, <5>1, <5>2 DEF Barrier
        <5>4. step.resource \in Service
          BY <1>2, <2>3, <3>2, <3>13 DEF JournalStep
        <5>5. seen'[step.resource] = [by |-> i, status |-> "absent"]
          BY <5>3, <5>4 DEF Fresh
        <5>6. run[i].command = "delete"
          BY <3>12, <3>15, <4>4 DEF Fitting
        <5>7. step.action \notin {"start", "stop"}
          BY <3>13, <5>6 DEF Fitting
        <5> QED BY <2>3, <3>2, <5>5, <5>7 DEF Tells
      <4> QED BY <3>15, <4>3, <4>4 DEF WorktreeStep, RemoveWorktree, LookAtWorktree
    <3> QED BY <1>2, <2>3, <3>8, <3>9, <3>10, <3>11, <3>14, <3>15, <3>5 DEF Operate
  <2> QED BY <2>1, <2>2, <2>3
<1>3. ASSUME NEW i \in Invocation, Operate(i) PROVE SeenInv'
  <2> SUFFICES ASSUME NEW j \in Invocation, (run[j].stage \in Looping /\ ~run[j].resume)',
                      NEW p \in (1 .. Len(Course(j)))',
                      /\ Behind(j, p)'
                      /\ Course(j)'[p].resource # "worktree"
                      /\ Course(j)'[p].resource \notin run'[j].failed
                      /\ \A q \in 1 .. Len(Course(j)') :
                            Failed(j, q)' => /\ Course(j)'[q].resource # Course(j)'[p].resource
                                             /\ Course(j)'[q].action # "barrier"
               PROVE  Tells(j, p)'
    BY DEF SeenInv
  <2> QED BY <1>2, <1>3
<1> QED BY <1>1, <1>3, WhoSteps

(* The record of a start that is behind stays.                             *)
LEMMA StartedKept ==
  ASSUME Typing, OwnInv, JournalInv, CurrentInv, AtInv, ResumeInv, StartedInv, [Next]_vars
  PROVE  StartedInv'
<1>1. CASE Others \/ UNCHANGED vars
  BY <1>1, RunKept DEF StartedInv, Course, Steps
<1>2. ASSUME NEW i \in Invocation, Operate(i), NEW j \in Invocation, run'[j].stage \in Looping,
             NEW p \in 1 .. Len(Course(j)'), p < run'[j].at, Course(j)'[p].action = "start"
      PROVE  Steps(j)'[p].status = "completed"
  <2>1. CASE j # i
    <3>1. run'[j] = run[j]
      BY <1>2, <2>1, LocalMoves
    <3>2. Course(j)' = Course(j)
      BY <3>1, CourseKept
    <3>3. operations' = operations
      BY <1>2, <2>1, <3>1, Alone DEF Looping, Owning
    <3>4. Steps(j)' = Steps(j)
      BY <3>1, <3>3 DEF Steps
    <3> QED BY <1>2, <3>1, <3>2, <3>4 DEF StartedInv
  <2>2. CASE j = i /\ Survey(i)
    <3>1. run[i].base \in Base
      BY <2>2 DEF Survey, OwnInv, Bound, Owning
    <3>2. run'[i].at = 1
      BY <2>2, <3>1, Fields DEF Surveyed
    <3>3. p \in Nat /\ p >= 1
      OBVIOUS
    <3> QED BY <1>2, <2>2, <3>2, <3>3
  <2>3. CASE j = i /\ ~Survey(i)
    <3>1. run[i].stage \in Looping /\ run'[i].command = run[i].command /\ run'[i].op = run[i].op
      BY <1>2, <2>3, Fields DEF Operate, Planned, Moved, Advanced, Blamed, Keeps, Looping
    <3>2. Course(i)' = Course(i)
      BY <3>1, CourseKept
    <3> DEFINE plan == Course(i)
               at == run[i].at
    <3>3. /\ at \in Nat /\ p \in Nat /\ p \in 1 .. Len(plan) /\ plan[p].action = "start"
          /\ MoreSteps(i) \/ run[i].stage \in {"effect", "recording"} =>
                /\ at \in 1 .. Len(plan)
                /\ At(i).resource = plan[at].resource /\ At(i).action = plan[at].action
                /\ Fitting(run[i].command, plan[at])
      BY <1>2, <2>3, <3>1, <3>2, StepsAlike
    <3>4. p < at => Steps(i)[p].status = "completed"
      BY <3>1, <3>3 DEF StartedInv
    <3>5. /\ run[i].op \in Operation /\ operations \in [Operation -> Journal]
          /\ Steps(i) \in Seq(JournalStep) /\ p \in DOMAIN Steps(i)
          /\ Len(Steps(i)) = Len(plan)
      BY <3>1, <3>3, Guided DEF Looping, Begun, Operation, Typing
    <3>6. ASSUME NEW status, Marked(i, status), at \in 1 .. Len(plan)
          PROVE  /\ p # at => Steps(i)'[p] = Steps(i)[p]
                 /\ p = at => Steps(i)'[p].status = status
      <4>1. operations' = [operations EXCEPT ![run[i].op] =
               [operations[run[i].op] EXCEPT !.steps =
                  [operations[run[i].op].steps EXCEPT ![at].status = status]]]
        BY <3>5, <3>6 DEF Marked
      <4>2. operations'[run[i].op] = [operations[run[i].op] EXCEPT !.steps =
                  [operations[run[i].op].steps EXCEPT ![at].status = status]]
        BY <3>5, <4>1
      <4>3. operations[run[i].op] \in Journal
        BY <3>5
      <4>4. operations'[run[i].op].steps = [operations[run[i].op].steps EXCEPT ![at].status = status]
        BY <4>2, <4>3 DEF Journal
      <4>5. Steps(i)' = [Steps(i) EXCEPT ![at].status = status]
        BY <3>1, <4>4 DEF Steps
      <4>6. at \in DOMAIN Steps(i) /\ Steps(i)[at] \in JournalStep
        BY <3>5, <3>6
      <4>7. Steps(i)'[at] = [Steps(i)[at] EXCEPT !.status = status]
        BY <4>5, <4>6
      <4> QED BY <3>5, <4>5, <4>6, <4>7 DEF JournalStep
    <3>7. CASE StartStep(i)
      <4>1. run'[i].at = at /\ run[i].stage = "stepping"
        BY <3>7, Fields DEF Moved
      <4>2. Marked(i, "running") /\ MoreSteps(i)
        BY <3>7 DEF StartStep
      <4>3. p < at
        BY <1>2, <2>3, <4>1
      <4> QED BY <2>3, <3>3, <3>4, <3>6, <4>2, <4>3
    <3>8. CASE Record(i)
      <4>1. run'[i].at = at + 1 /\ run[i].stage = "recording"
        BY <3>8, Fields DEF Advanced
      <4>2. Marked(i, "completed")
        BY <3>8 DEF Record
      <4>3. p < at \/ p = at
        BY <1>2, <2>3, <3>3, <4>1
      <4> QED BY <2>3, <3>3, <3>4, <3>6, <4>1, <4>2, <4>3
    <3>9. CASE RecordFailure(i)
      <4>1. /\ run'[i].at = at + 1 /\ run[i].stage = "recording" /\ GoesOn(i)
        BY <1>2, <2>3, <3>9, Fields DEF Advanced, Blamed, Looping
      <4>2. Marked(i, "failed") /\ At(i).action # "start"
        BY <3>9, <4>1 DEF RecordFailure, GoesOn
      <4>3. p < at
        BY <1>2, <2>3, <3>3, <4>1, <4>2
      <4> QED BY <2>3, <3>3, <3>4, <3>6, <4>1, <4>2, <4>3
    <3>10. CASE Skip(i)
      <4>1. run'[i].at = at + 1 /\ run[i].stage = "stepping" /\ operations' = operations
        BY <3>10, Fields DEF Advanced, Skip
      <4>2. MoreSteps(i) /\ Skipped(i)
        BY <3>10 DEF Skip
      <4>3. At(i).action # "start"
        <5>1. CASE Unreplayed(i)
          <6>1. run[i].command = "delete"
            BY <3>1, <5>1 DEF Unreplayed, ResumeInv, Looping, Begun
          <6> QED BY <3>3, <4>2, <6>1 DEF Fitting
        <5>2. CASE ~Unreplayed(i)
          BY <4>2, <5>2 DEF Skipped, Halts
        <5> QED BY <5>1, <5>2
      <4>4. p < at
        BY <1>2, <2>3, <3>3, <4>1, <4>2, <4>3
      <4> QED BY <2>3, <3>1, <3>4, <4>1, <4>4 DEF Steps
    <3>11. CASE ServiceStep(i) \/ WorktreeStep(i)
      <4>1. run'[i].at = at /\ operations' = operations
        BY <3>11, Fields DEF Moved, ServiceStep, WorktreeStep
      <4>2. p < at
        BY <1>2, <2>3, <4>1
      <4> QED BY <2>3, <3>1, <3>4, <4>1, <4>2 DEF Steps
    <3>12. (\E command \in Commands, force \in BOOLEAN : Plan(i, command, force))
              \/ Acquire(i) \/ Recheck(i) \/ Begin(i) \/ TurnedAway(i) \/ LetGo(i)
              \/ FinishFailed(i) \/ Commit(i) \/ Vanish(i) \/ Halt(i) \/ Fails(i)
           => run'[i].stage \notin Looping
      BY Fields DEF Planned, Moved, Blamed, Looping
    <3> QED BY <1>2, <2>3, <3>7, <3>8, <3>9, <3>10, <3>11, <3>12 DEF Operate
  <2> QED BY <2>1, <2>2, <2>3
<1>3. ASSUME NEW i \in Invocation, Operate(i) PROVE StartedInv'
  BY <1>2, <1>3 DEF StartedInv
<1> QED BY <1>1, <1>3, WhoSteps

-----------------------------------------------------------------------------
(* The invariant.                                                          *)
LEMMA InitTyping ==
  ASSUME Init
  PROVE  /\ Typing
         /\ run = [i \in Invocation |-> Idle] /\ Creation \notin Invocation
         /\ workspace.op = Creation /\ ~workspace.forgotten
         /\ workspace.state \in {"ready", "stopped", "create_failed"}
         /\ operations[Creation].kind = "create"
         /\ \A o \in Operation : operations[o].steps = <<>>
         /\ \A o \in Invocation : operations[o].kind = "none"
<1>1. PICK state \in {"ready", "stopped", "create_failed"} :
         /\ workspace = [state |-> state, version |-> 0, op |-> Creation, forgotten |-> FALSE]
         /\ operations = [o \in Operation |->
                IF o = Creation
                THEN [kind |-> "create", steps |-> <<>>,
                      status |-> IF state = "create_failed" THEN "failed" ELSE "completed"]
                ELSE Unused]
         /\ worktree \in IF state = "create_failed" THEN {"present", "absent"} ELSE {"present"}
         /\ \E status \in CASE state = "ready" -> {"ready"}
                             [] state = "stopped" -> {"stopped", "absent"}
                             [] OTHER -> ServiceStatus :
                service = [s \in Service |-> status]
  BY DEF Init
<1>2. Creation \in Operation /\ Creation \notin Invocation /\ \A o \in Invocation : o \in Operation
  BY LifecycleAssumption DEF Operation
<1>3. workspace \in [state : State, version : Nat, op : Operation, forgotten : BOOLEAN]
  BY <1>1, <1>2 DEF State
<1>4. /\ operations \in [Operation -> Journal]
      /\ operations[Creation].kind = "create"
      /\ \A o \in Operation : operations[o].steps = <<>>
      /\ \A o \in Invocation : operations[o].kind = "none"
  <2>1. <<>> \in Seq(JournalStep)
    OBVIOUS
  <2>2. PICK first \in Journal : /\ first.kind = "create" /\ first.steps = <<>>
                                 /\ operations = [o \in Operation |->
                                        IF o = Creation THEN first ELSE Unused]
    <3> DEFINE status == IF workspace.state = "create_failed" THEN "failed" ELSE "completed"
               first == [kind |-> "create", steps |-> <<>>, status |-> status]
    <3>1. status \in OperationStatus /\ "create" \in Kind
      BY DEF OperationStatus, Kind
    <3>2. operations = [o \in Operation |-> IF o = Creation THEN first ELSE Unused]
      BY <1>1
    <3> HIDE DEF status
    <3>3. first \in Journal
      BY <2>1, <3>1 DEF Journal
    <3>4. first.kind = "create" /\ first.steps = <<>>
      OBVIOUS
    <3> HIDE DEF first
    <3> QED BY <3>2, <3>3, <3>4
  <2>3. Unused \in Journal /\ Unused.steps = <<>> /\ Unused.kind = "none"
    BY <2>1 DEF Unused, Journal, Kind, OperationStatus
  <2> QED BY <1>2, <2>2, <2>3
<1>5. worktree \in {"present", "absent"}
  BY <1>1
<1>6. service \in [Service -> Condition]
  BY <1>1, LifecycleAssumption DEF Condition
<1>7. Idle \in Local
  BY DEF Idle, Local, Stage, Bound, Owning
<1>8. run = [i \in Invocation |-> Idle] /\ run \in [Invocation -> Local]
  BY <1>7 DEF Init
<1>9. /\ seen \in [Service -> [by : Invocation \cup {NoOne}, status : Condition \cup {"unknown"}]]
      /\ undermined \in BOOLEAN
  BY DEF Init
<1>10. holder \in Invocation \cup {NoOne} /\ drifts \in 0 .. MaxDrift
  BY LifecycleAssumption DEF Init
<1> QED BY <1>1, <1>2, <1>3, <1>4, <1>5, <1>6, <1>8, <1>9, <1>10 DEF Typing

LEMMA LifecycleInit == ASSUME Init PROVE LifecycleInv
<1>1. \A i \in Invocation : /\ run[i].stage = "idle" /\ run[i].failed = {}
                            /\ run[i].blame = "none" /\ run[i].resume = FALSE
  BY InitTyping DEF Idle
<1>2. /\ OwnInv /\ CurrentInv /\ BlameInv /\ AtInv /\ ResumeInv /\ SeenInv /\ StartedInv
      /\ RemovedInv
  BY <1>1 DEF OwnInv, CurrentInv, BlameInv, AtInv, ResumeInv, SeenInv, StartedInv, RemovedInv,
              Owning, Bound, Begun, Looping
<1>3. JournalInv
  <2>1. "none" \notin Command /\ Creation \in Operation /\ \A o \in Invocation : o \in Operation
    BY DEF Command, Operation
  <2> QED BY <2>1, InitTyping DEF JournalInv
<1>4. StateMatchesJournal
  BY InitTyping DEF StateMatchesJournal
<1> QED BY <1>2, <1>3, <1>4, InitTyping DEF LifecycleInv

LEMMA LifecycleStep == ASSUME LifecycleInv, [Next]_vars PROVE LifecycleInv'
<1> USE DEF LifecycleInv
<1>1. Typing'
  BY TypingKept
<1>2. OwnInv' /\ JournalInv' /\ AtInv'
  BY <1>1, OwnKept, JournalKept, AtKept
<1>3. CurrentInv' /\ BlameInv'
  BY <1>1, <1>2, CurrentKept, BlameKept
<1>4. StateMatchesJournal'
  BY <1>1, <1>2, <1>3, StateKept
<1>5. ResumeInv' /\ SeenInv' /\ StartedInv' /\ RemovedInv'
  BY ResumeKept, SightKept, StartedKept, RemovedKept
<1> QED BY <1>1, <1>2, <1>3, <1>4, <1>5

(* Whatever the commands and however they fail, the journal follows the    *)
(* plans and the holder's view of its Services is the last one.            *)
THEOREM LifecycleInvariant == Spec => []LifecycleInv
<1>1. Init => LifecycleInv
  BY LifecycleInit
<1>2. LifecycleInv /\ [Next]_vars => LifecycleInv'
  BY LifecycleStep
<1> QED BY <1>1, <1>2, PTL DEF Spec

(* The aggregate, the journal and the commands have the types of           *)
(* workspaces.py and registry.py, and a command in its critical section    *)
(* is the owner of the lease.                                              *)
THEOREM TypeCorrect == Spec => []TypeOK
<1>1. ASSUME LifecycleInv PROVE TypeOK
  <2> USE <1>1 DEF LifecycleInv
  <2>1. \A o \in Operation :
          /\ operations[o].kind \in Command \cup {"none", "create"}
          /\ operations[o].status \in {"none", "running", "completed", "failed"}
          /\ \A p \in DOMAIN operations[o].steps :
                operations[o].steps[p].status \in
                    {"pending", "running", "completed", "failed", "unknown"}
    <3> TAKE o \in Operation
    <3>1. operations[o] \in Journal
      BY DEF Typing
    <3>2. \A p \in DOMAIN operations[o].steps : operations[o].steps[p] \in JournalStep
      BY <3>1 DEF Journal
    <3>3. \A p \in DOMAIN operations[o].steps :
             operations[o].steps[p].status \in
                    {"pending", "running", "completed", "failed", "unknown"}
      BY <3>2 DEF JournalStep, StepStatus
    <3> QED BY <3>1, <3>3 DEF Journal, Kind, OperationStatus
  <2>2. \A i \in Invocation :
          /\ run[i].stage \in Stage
          /\ run[i].stage \in Owning => holder = i
          /\ run[i].outcome \in {"none", "ok", "safe", "stuck"}
          /\ run[i].failed \subseteq Service
    BY DEF Typing, Local, OwnInv
  <2>3. /\ workspace.state \in {"ready", "stopped", "create_failed", "starting", "stopping",
                            "deleting", "start_failed", "stop_failed", "delete_failed",
                            "deleted"}
        /\ workspace.op \in Operation
    BY DEF Typing, State
  <2>4. /\ holder \in Invocation \cup {NoOne} /\ worktree \in {"present", "absent"}
        /\ service \in [Service -> {"absent", "stopped", "ready", "degraded"}]
        /\ drifts \in 0 .. MaxDrift /\ undermined \in BOOLEAN
    BY DEF Typing, Condition
  <2> QED BY <2>1, <2>2, <2>3, <2>4 DEF TypeOK
<1> QED BY <1>1, LifecycleInvariant, PTL

(* After any crash, interrupt or failure the state of the aggregate and    *)
(* its current operation in the journal tell the same story.               *)
THEOREM StateAndJournal == Spec => []StateMatchesJournal
<1>1. LifecycleInv => StateMatchesJournal
  BY DEF LifecycleInv
<1> QED BY <1>1, LifecycleInvariant, PTL

-----------------------------------------------------------------------------
(* What a step may never do.                                               *)

(* Deleted and forgotten Workspaces stay so: begin_lifecycle refuses them, *)
(* and no operation was left to run when they came to be.                  *)
THEOREM Tombstones == Spec => TombstonesStay
<1> DEFINE Stay ==
      /\ workspace.state = "deleted" => workspace'.state = "deleted"
      /\ workspace.forgotten =>
            /\ UNCHANGED workspace
            /\ \A o \in Operation :
                  /\ operations'[o].kind = operations[o].kind
                  /\ operations'[o].status = operations[o].status
<1>1. ASSUME LifecycleInv, [Next]_vars PROVE Stay
  <2> USE <1>1 DEF LifecycleInv
  <2>1. CASE Others \/ UNCHANGED vars
    BY <2>1, RunKept
  <2>2. ASSUME NEW i \in Invocation, Operate(i) PROVE Stay
    <3>0. run[i].stage \in Owning =>
             run[i].command \in Command /\ run[i].base \in Base /\ run[i].op \in Operation
      BY DEF OwnInv, Bound, Operation
    <3>1. CASE Begin(i)
      <4>1. ~workspace.forgotten /\ (workspace.state = "deleted" => run[i].command = "forget")
        BY <3>1 DEF Begin
      <4>2. workspace.state = run[i].base.state /\ workspace'.state = EnterState(i)
        BY <3>1 DEF Begin, CurrentInv, Typing
      <4> QED BY <4>1, <4>2 DEF EnterState
    <3>2. ASSUME run[i].stage \in Begun
          PROVE  /\ ~workspace.forgotten
                 /\ workspace.state = "deleted" =>
                       run[i].command = "forget" /\ run[i].base.state = "deleted"
      <4>1. run[i].command \in Command
        BY <3>2 DEF OwnInv, Begun, Bound, Owning
      <4> QED BY <3>2, <4>1 DEF CurrentInv, Underway, Command
    <3>3. CASE StartStep(i)
      <4>1. run[i].stage \in Begun /\ run[i].stage \in {"begun"} \cup Looping /\ MoreSteps(i)
        BY <3>3 DEF StartStep, MoreSteps, Begun, Looping
      <4>2. At(i).action = "start" => run[i].command \in {"start", "restart"}
        BY <4>1, BlamedOnPlan
      <4>3. workspace' = IF At(i).action = "start"
                         THEN [workspace EXCEPT !.state = "starting"] ELSE workspace
        BY <3>3 DEF StartStep
      <4> QED BY <3>2, <4>1, <4>2, <4>3
    <3>4. CASE FinishFailed(i) \/ Commit(i)
      <4>1. run[i].stage \in Begun
        BY <3>4 DEF FinishFailed, Commit, Begun
      <4>2. FinishFailed(i) => workspace'.state = FailedState(i)
        BY DEF FinishFailed, Typing
      <4>3. Commit(i) => workspace'.state = SuccessState(run[i].command, run[i].base.state)
        BY DEF Commit, Typing
      <4>4. run[i].command = "forget" /\ run[i].base.state = "deleted" =>
               /\ FailedState(i) = "deleted"
               /\ SuccessState(run[i].command, run[i].base.state) = "deleted"
        BY DEF FailedState, SuccessState
      <4> QED BY <3>2, <3>4, <4>1, <4>2, <4>3, <4>4
    <3>5. CASE ~Begin(i) /\ ~StartStep(i) /\ ~FinishFailed(i) /\ ~Commit(i)
      <4>1. workspace' = workspace
        BY <2>2, <3>5, WorkspaceKept
      <4>2. \A o \in Operation : /\ operations'[o].kind = operations[o].kind
                                 /\ operations'[o].status = operations[o].status
        BY <2>2, <3>5, JournalMoves
      <4> QED BY <4>1, <4>2
    <3> QED BY <3>1, <3>3, <3>4, <3>5
  <2> QED BY <2>1, <2>2, WhoSteps
<1>2. LifecycleInv /\ [Next]_vars => [Stay]_vars
  BY <1>1
<1> QED BY <1>2, LifecycleInvariant, PTL DEF Spec, TombstonesStay

(* What the plan of a command that has got past a step says of a Service.  *)
LEMMA WhatIsBehind ==
  ASSUME LifecycleInv, NEW i \in Invocation, run[i].stage \in Looping, ~run[i].resume,
         run[i].stage = "recording" => run[i].outcome = "ok", run[i].failed = {},
         NEW p \in 1 .. Len(Course(i)), p < run[i].at, NEW s \in Service, Course(i)[p].resource = s
  PROVE  Tells(i, p)
<1>1. s # "worktree"
  BY ResourcesType
<1> QED BY <1>1 DEF LifecycleInv, SeenInv, Behind, Failed

(* A restart starts no Service before it has itself seen every one of them *)
(* down, or ready after it has started it (workspaces.py, the loop of      *)
(* _operate).                                                              *)
THEOREM StopsFirst == Spec => StopsBeforeStarts
<1> DEFINE First == \A i \in Invocation :
            /\ run[i].command = "restart"
            /\ run[i].stage = "effect"
            /\ ServiceStep(i)
            /\ Mutates(i)
            /\ At(i).action = "start"
            => \A s \in Service :
                  /\ seen[s].by = i
                  /\ seen[s].status \in
                        IF HasStarted(i, s) THEN {"ready"} ELSE {"stopped", "absent"}
<1>1. ASSUME LifecycleInv PROVE First
  <2> SUFFICES ASSUME NEW i \in Invocation, run[i].command = "restart", run[i].stage = "effect",
                      At(i).action = "start", NEW s \in Service
               PROVE  /\ seen[s].by = i
                      /\ HasStarted(i, s) => seen[s].status = "ready"
                      /\ ~HasStarted(i, s) => seen[s].status \in {"stopped", "absent"}
    OBVIOUS
  <2> USE <1>1 DEF LifecycleInv
  <2>1. run[i].stage \in Looping /\ run[i].stage \in Begun
    BY DEF Looping, Begun
  <2>2. /\ run[i].at \in 1 .. Len(Course(i)) /\ Course(i)[run[i].at].action = "start"
        /\ run[i].command \in Command /\ DOMAIN Steps(i) = 1 .. Len(Course(i))
    BY <2>1, StepsAlike, Guided
  <2>3. ~run[i].resume /\ run[i].failed = {}
    BY <2>1, <2>2 DEF ResumeInv, AtInv
  <2>4. PICK p \in 1 .. Len(Course(i)) : p < run[i].at /\ Course(i)[p].resource = s
    BY <2>2, PlanCovers DEF Course
  <2>5. Tells(i, p)
    BY <2>1, <2>3, <2>4, WhatIsBehind
  <2>6. Course(i)[p].action \in Action /\ Fitting(run[i].command, Course(i)[p])
    BY <2>1, Guided DEF JournalStep
  <2>7. Course(i)[p].action \in {"start", "stop"}
    BY <2>6 DEF Fitting, Action
  <2>8. ASSUME NEW q \in 1 .. Len(Course(i))
        PROVE  /\ Steps(i)[q].action = Course(i)[q].action
               /\ Steps(i)[q].resource = Course(i)[q].resource
    BY <2>1, Guided
  <2>9. CASE HasStarted(i, s)
    <3>1. PICK q \in 1 .. Len(Course(i)) :
             q < run[i].at /\ Course(i)[q].action = "start" /\ Course(i)[q].resource = s
      BY <2>2, <2>8, <2>9 DEF HasStarted
    <3>2. Tells(i, q)
      BY <2>1, <2>3, <3>1, WhatIsBehind
    <3> QED BY <2>9, <3>1, <3>2 DEF Tells
  <2>10. CASE ~HasStarted(i, s)
    <3>1. ASSUME NEW q \in 1 .. Len(Course(i)), q < run[i].at, Course(i)[q].action = "start",
                 Course(i)[q].resource = s
          PROVE  FALSE
      <4>1. Steps(i)[q].status = "completed"
        BY <2>1, <3>1 DEF StartedInv
      <4> QED BY <2>2, <2>8, <2>10, <3>1, <4>1 DEF HasStarted
    <3>2. Course(i)[p].action = "stop"
      BY <2>4, <2>7, <3>1
    <3>3. ~Restarted(i, p)
      BY <2>4, <3>1 DEF Restarted, Behind
    <3> QED BY <2>4, <2>5, <2>10, <3>2, <3>3 DEF Tells
  <2> QED BY <2>9, <2>10
<1>2. LifecycleInv /\ [Next]_vars => [First]_vars
  BY <1>1
<1> QED BY <1>2, LifecycleInvariant, PTL DEF Spec, StopsBeforeStarts

LEMMA RemovedBySeer ==
  ASSUME LifecycleInv, NEW i \in Invocation, WorktreeStep(i), worktree' # worktree,
         NEW s \in Service
  PROVE  seen[s] = [by |-> i, status |-> "absent"]
<1> USE DEF LifecycleInv
<1>1. RemoveWorktree(i) /\ run[i].stage = "effect" /\ At(i).resource = "worktree"
      /\ At(i).action = "delete" /\ worktree' = "absent"
  BY DEF WorktreeStep, Barrier, RemoveWorktree, LookAtWorktree
<1>2. run[i].stage \in Looping /\ run[i].stage \in Begun
  BY <1>1 DEF Looping, Begun
<1>3. /\ run[i].at \in 1 .. Len(Course(i)) /\ Removal(Course(i)[run[i].at])
      /\ run[i].command \in Command
      /\ Course(i)[run[i].at].resource = "worktree"
  BY <1>1, <1>2, StepsAlike, Guided DEF Removal
<1>4. ~run[i].resume
  BY <1>1, <1>2 DEF ResumeInv, Typing
<1>5. run[i].failed = {}
  BY <1>1, <1>2, <1>3 DEF AtInv
<1>6. PICK p \in 1 .. Len(Course(i)) :
         p < run[i].at /\ Course(i)[p].action = "delete" /\ Course(i)[p].resource = s
  BY <1>3, PlanCovers DEF Course
<1>7. Tells(i, p)
  BY <1>1, <1>2, <1>4, <1>5, <1>6, WhatIsBehind
<1>8. seen[s].by = i /\ seen[s].status = "absent"
  BY <1>6, <1>7 DEF Tells
<1>9. seen[s] \in [by : Invocation \cup {NoOne}, status : Condition \cup {"unknown"}]
  BY DEF Typing
<1> QED BY <1>8, <1>9

(* Whoever removes the Worktree is the last to have looked at every        *)
(* Service, and found it absent (workspaces.py, delete_owned_worktree      *)
(* behind the barrier).                                                    *)
THEOREM RemovedLast == Spec => RemovalAfterBarrier
<1> DEFINE Proved == \A i \in Invocation :
            WorktreeStep(i) /\ worktree' # worktree =>
                \A s \in Service : seen[s] = [by |-> i, status |-> "absent"]
<1>1. LifecycleInv /\ [Next]_vars => [Proved]_vars
  BY RemovedBySeer
<1> QED BY <1>1, LifecycleInvariant, PTL DEF Spec, RemovalAfterBarrier

-----------------------------------------------------------------------------
(* How commands end, whatever others do to the Worktree.                   *)
LEMMA SeenBySelf ==
  ASSUME LifecycleInv, NEW i \in Invocation, Commit(i), run[i].command # "forget",
         ~run[i].resume, NEW s \in Service
  PROVE  /\ seen[s].by = i
         /\ seen[s].status \in CASE run[i].command = "delete" -> {"absent"}
                                 [] run[i].command = "stop" -> {"stopped", "absent"}
                                 [] OTHER -> {"ready"}
<1> USE DEF LifecycleInv
<1>1. run[i].stage = "stepping" /\ run[i].stage \in Looping /\ run[i].stage \in Begun
      /\ ~MoreSteps(i) /\ run[i].failed = {}
  <2>1. run[i].stage = "stepping" /\ run[i].at > Len(Steps(i)) /\ run[i].failed = {}
    BY DEF Commit
  <2>2. run[i].stage \in Looping /\ run[i].stage \in Begun
    BY <2>1 DEF Looping, Begun
  <2>3. Len(Steps(i)) \in Nat /\ run[i].at \in Nat
    BY <2>2, Guided, StepsAlike
  <2> QED BY <2>1, <2>2, <2>3 DEF MoreSteps
<1>2. /\ run[i].at = Len(Course(i)) + 1 /\ Len(Course(i)) \in Nat /\ run[i].command \in Command
      /\ \A p \in 1 .. Len(Course(i)) : p < run[i].at /\ Fitting(run[i].command, Course(i)[p])
  BY <1>1, StepsAlike, Guided
<1>3. ASSUME NEW p \in 1 .. Len(Course(i)), Course(i)[p].resource = s
      PROVE  Tells(i, p)
  BY <1>1, <1>2, <1>3, WhatIsBehind
<1>4. CASE run[i].command \in {"start", "restart"}
  <2>1. PICK p \in 1 .. Len(Course(i)) :
           Course(i)[p].action = "start" /\ Course(i)[p].resource = s
    BY <1>2, <1>4, PlanCovers DEF Course
  <2>2. seen[s].by = i /\ seen[s].status = "ready"
    BY <1>3, <2>1 DEF Tells
  <2> QED BY <1>4, <2>2
<1>5. CASE run[i].command = "stop"
  <2>1. PICK p \in 1 .. Len(Course(i)) :
           Course(i)[p].action = "stop" /\ Course(i)[p].resource = s
    BY <1>2, <1>5, PlanCovers DEF Course
  <2>2. ~Restarted(i, p)
    BY <1>2, <1>5 DEF Restarted, Fitting
  <2>3. seen[s].by = i /\ seen[s].status \in {"stopped", "absent"}
    BY <1>3, <2>1, <2>2 DEF Tells
  <2> QED BY <1>5, <2>3
<1>6. CASE run[i].command = "delete"
  <2>1. PICK p \in 1 .. Len(Course(i)) :
           Course(i)[p].action = "delete" /\ Course(i)[p].resource = s
    BY <1>2, <1>6, PlanCovers DEF Course
  <2>2. seen[s].by = i /\ seen[s].status = "absent"
    BY <1>3, <2>1 DEF Tells
  <2> QED BY <1>6, <2>2
<1> QED BY <1>2, <1>4, <1>5, <1>6 DEF Command

LEMMA DeletedByCommit ==
  ASSUME LifecycleInv, NEW i \in Invocation, Operate(i), workspace.state # "deleted",
         workspace'.state = "deleted"
  PROVE  /\ Commit(i) /\ run[i].command = "delete" /\ run[i].stage \in Looping
         /\ worktree = "absent" /\ worktree' = worktree /\ seen' = seen
<1> USE DEF LifecycleInv
<1>1. ~Begin(i)
  <2>1. CASE Begin(i)
    <3>1. workspace'.state = EnterState(i) /\ workspace.state = run[i].base.state
      BY <2>1 DEF Begin, CurrentInv, Typing
    <3>2. run[i].command \in Command
      BY <2>1 DEF Begin, OwnInv, Bound, Owning
    <3> QED BY <3>1, <3>2 DEF EnterState, Command
  <2> QED BY <2>1
<1>2. ~StartStep(i)
  BY DEF StartStep, Typing
<1>3. run[i].stage \in Begun =>
         /\ run[i].command \in Command
         /\ run[i].command = "forget" => workspace.state = run[i].base.state
  BY DEF OwnInv, Begun, Bound, Owning, CurrentInv
<1>4. ~FinishFailed(i)
  <2>1. CASE FinishFailed(i)
    <3>1. workspace'.state = FailedState(i) /\ run[i].stage \in Begun
      BY <2>1 DEF FinishFailed, Typing, Begun
    <3> QED BY <1>3, <3>1 DEF FailedState, Command
  <2> QED BY <2>1
<1>5. Commit(i)
  BY <1>1, <1>2, <1>4, WorkspaceKept
<1>6. run[i].stage \in Begun /\ run[i].stage = "stepping" /\ run[i].stage \in Looping
      /\ workspace'.state = SuccessState(run[i].command, run[i].base.state)
      /\ worktree' = worktree /\ seen' = seen
  BY <1>5 DEF Commit, Typing, Begun, Looping
<1>7. run[i].command = "delete"
  BY <1>3, <1>6 DEF SuccessState, Command
<1>8. worktree = "absent"
  <2>1. run[i].at = Len(Course(i)) + 1 /\ Len(Course(i)) \in Nat \ {0}
    <3>1. Len(Steps(i)) = Len(Course(i)) /\ Len(Course(i)) \in Nat \ {0}
          /\ run[i].at \in 1 .. Len(Course(i)) + 1
      BY <1>6, Guided, StepsAlike
    <3> QED BY <1>5, <3>1 DEF Commit
  <2>2. Len(Course(i)) \in 1 .. Len(Course(i)) /\ Behind(i, Len(Course(i)))
    BY <2>1 DEF Behind
  <2>3. Removal(Course(i)[Len(Course(i))])
    BY <1>7, DeleteEnds DEF Course
  <2> QED BY <1>6, <2>2, <2>3 DEF RemovedInv
<1> QED BY <1>5, <1>6, <1>7, <1>8

-----------------------------------------------------------------------------
(* Receipts.                                                               *)

(* The first barrier on record is one that a command records.              *)
LEMMA NeverBarredKept ==
  ASSUME LifecycleInv, NeverBarred, NEW i \in Invocation, Operate(i)
  PROVE  NeverBarred' \/ (Record(i) /\ At(i).action = "barrier")
<1> USE DEF LifecycleInv
<1> SUFFICES ASSUME ~(Record(i) /\ At(i).action = "barrier") PROVE NeverBarred'
  OBVIOUS
<1>1. ASSUME NEW o \in Operation PROVE ~Barred(operations'[o].steps)
  <2>1. CASE Begin(i)
    <3> DEFINE op == run[i].op
    <3>1. op \in Operation /\ run[i].command \in Command
      BY <2>1 DEF Begin, OwnInv, Bound, Owning, Operation
    <3>2. PICK steps : /\ steps = IF operations[op].kind # "none" THEN operations[op].steps
                                  ELSE CommandSteps(run[i].command, Resources)
                       /\ operations' = [operations EXCEPT ![op] =
                             [kind |-> run[i].command, status |-> "running", steps |-> steps]]
      BY <2>1 DEF Begin
    <3>3. ~Barred(CommandSteps(run[i].command, Resources))
      <4>1. ASSUME NEW p \in DOMAIN CommandSteps(run[i].command, Resources)
            PROVE  CommandSteps(run[i].command, Resources)[p].status # "completed"
        BY <3>1, PlanTypes DEF Fitting
      <4> QED BY <4>1 DEF Barred, Recorded
    <3>4. ~Barred(steps)
      BY <3>1, <3>2, <3>3 DEF NeverBarred
    <3> HIDE DEF op
    <3>5. operations'[op].steps = steps /\ (o # op => operations'[o] = operations[o])
      BY <3>1, <3>2 DEF Typing
    <3> QED BY <3>4, <3>5 DEF NeverBarred
  <2>2. CASE ~Begin(i)
    <3>1. Barred(operations'[o].steps) =>
             Barred(operations[o].steps) \/ (Record(i) /\ At(i).action = "barrier")
      BY <2>2, JournalMoves
    <3> QED BY <3>1 DEF NeverBarred
  <2> QED BY <2>1, <2>2
<1>2. ASSUME NEW j \in Invocation, run'[j].stage \in Bound PROVE ~run'[j].base.receipt
  <2>1. CASE j # i
    <3>1. run'[j] = run[j]
      BY <2>1, LocalMoves
    <3> QED BY <1>2, <3>1 DEF NeverBarred
  <2>2. CASE j = i /\ Survey(i)
    <3>1. run[i].base \in Base
      BY <2>2 DEF Survey, OwnInv, Bound, Owning
    <3> QED BY <2>2, <3>1, Fields DEF Surveyed
  <2>3. CASE j = i /\ \E command \in Commands, force \in BOOLEAN : Plan(i, command, force)
    <3>1. run'[i].base = Snapshot
      BY <2>3, Fields DEF Planned
    <3>2. Snapshot.receipt => Barred(operations[workspace.op].steps)
      BY DEF Snapshot, CleanupReceipt, Barred
    <3>3. workspace.op \in Operation
      BY DEF Typing
    <3> QED BY <2>3, <3>1, <3>2, <3>3 DEF NeverBarred
  <2>4. CASE j = i /\ ~Survey(i) /\ ~\E command \in Commands, force \in BOOLEAN :
                                        Plan(i, command, force)
    <3>1. run'[i].base = run[i].base /\ run[i].stage \in Bound
      BY <1>2, <2>4, Fields DEF Operate, Moved, Advanced, Blamed, Begun, Bound, Owning
    <3> QED BY <2>4, <3>1 DEF NeverBarred
  <2> QED BY <2>1, <2>2, <2>3, <2>4
<1> QED BY <1>1, <1>2 DEF NeverBarred

(* Whoever records a barrier has seen every Service absent.                *)
LEMMA SeenAtBarrier ==
  ASSUME LifecycleInv, NEW i \in Invocation, Record(i), At(i).action = "barrier"
  PROVE  AllAbsent /\ seen' = seen
<1> USE DEF LifecycleInv
<1>1. /\ run[i].stage = "recording" /\ run[i].outcome = "ok" /\ seen' = seen
      /\ run[i].stage \in Looping /\ run[i].stage \in Begun
  BY DEF Record, Looping, Begun
<1>2. /\ run[i].at \in 1 .. Len(Course(i)) /\ Course(i)[run[i].at].action = "barrier"
      /\ run[i].command \in Command /\ Fitting(run[i].command, Course(i)[run[i].at])
  BY <1>1, StepsAlike, Guided
<1>3. Course(i)[run[i].at].resource = "worktree" /\ ~run[i].resume /\ run[i].failed = {}
  BY <1>1, <1>2 DEF Fitting, AtInv
<1>4. ASSUME NEW s \in Service PROVE seen[s].status = "absent"
  <2>1. PICK p \in 1 .. Len(Course(i)) :
           p < run[i].at /\ Course(i)[p].action = "delete" /\ Course(i)[p].resource = s
    BY <1>2, PlanCovers DEF Course
  <2>2. Tells(i, p)
    BY <1>1, <1>3, <2>1, WhatIsBehind
  <2> QED BY <2>1, <2>2 DEF Tells
<1> QED BY <1>1, <1>4 DEF AllAbsent

LEMMA PresentKept ==
  ASSUME LifecycleInv, PresentInv, Typing', [Next]_vars
  PROVE  PresentInv'
<1> USE DEF LifecycleInv
<1>1. CASE Others \/ UNCHANGED vars
  <2>1. run' = run /\ operations' = operations
    BY <1>1, RunKept
  <2>2. /\ \A i \in Invocation : /\ Course(i)' = Course(i)
                                 /\ PassedBarrier(i)' = PassedBarrier(i)
                                 /\ \A p : Past(i, p)' = Past(i, p)
        /\ NeverBarred' = NeverBarred
    BY <2>1 DEF Course, PassedBarrier, Past, NeverBarred
  <2>3. \/ worktree' = worktree /\ (undermined => undermined')
        \/ undermined' \/ NeverBarred
    BY <1>1, OthersKeep DEF vars
  <2> QED BY <2>1, <2>2, <2>3 DEF PresentInv
<1>2. ASSUME NEW i \in Invocation, Operate(i), NEW j \in Invocation,
             run'[j].stage \in Looping, run'[j].command = "delete", ~run'[j].resume,
             NEW p \in 1 .. Len(Course(j)'), Course(j)'[p].resource # "worktree", Past(j, p)',
             \A q \in 1 .. Len(Course(j)') : Past(j, q)' => ~Removal(Course(j)'[q])
      PROVE  worktree' = "present" \/ undermined' \/ NeverBarred' \/ PassedBarrier(j)'
  <2>0. undermined' = undermined
    BY <1>2, UnderminedKept
  <2>1. CASE j # i
    <3>1. run'[j] = run[j]
      BY <1>2, <2>1, LocalMoves
    <3>2. Course(j)' = Course(j)
      BY <3>1, CourseKept
    <3>3. worktree' = worktree
      BY <1>2, <2>1, <3>1, Alone DEF Looping, Owning
    <3>4. ~Record(i)
      <4>1. run[j].stage \in Owning
        BY <1>2, <3>1 DEF Looping, Owning
      <4> QED BY <2>1, <4>1 DEF Record, OwnInv, Owning
    <3>5. NeverBarred => NeverBarred'
      BY <1>2, <3>4, NeverBarredKept
    <3>6. PassedBarrier(j) => PassedBarrier(j)'
      BY <3>1, <3>2 DEF PassedBarrier
    <3>7. worktree = "present" \/ undermined \/ NeverBarred \/ PassedBarrier(j)
      BY <1>2, <3>1, <3>2 DEF PresentInv, Past
    <3> QED BY <2>0, <3>3, <3>5, <3>6, <3>7
  <2>2. CASE j = i /\ Survey(i)
    <3>1. run[i].base \in Base
      BY <2>2 DEF Survey, OwnInv, Bound, Owning
    <3>2. run'[i].at = 1 /\ run'[i].stage = "stepping"
      BY <2>2, <3>1, Fields DEF Surveyed
    <3>3. p \in Nat /\ p >= 1
      OBVIOUS
    <3> QED BY <1>2, <2>2, <3>2, <3>3 DEF Past
  <2>3. CASE j = i /\ ~Survey(i)
    <3>1. /\ run[i].stage \in Looping /\ run'[i].command = run[i].command
          /\ run'[i].resume = run[i].resume
      BY <1>2, <2>3, Fields DEF Operate, Planned, Moved, Advanced, Blamed, Keeps, Looping
    <3>2. Course(i)' = Course(i)
      BY <3>1, CourseKept
    <3> DEFINE plan == Course(i)
               at == run[i].at
    <3>3. /\ at \in Nat /\ p \in Nat /\ p \in 1 .. Len(plan) /\ plan[p].resource # "worktree"
          /\ MoreSteps(i) \/ run[i].stage \in {"effect", "recording"} =>
                /\ at \in 1 .. Len(plan)
                /\ At(i).resource = plan[at].resource /\ At(i).action = plan[at].action
      BY <1>2, <2>3, <3>1, <3>2, StepsAlike
    <3>4. ASSUME NEW s \in 1 .. Len(plan), plan[s].resource # "worktree", Past(i, s),
                 \A q \in 1 .. Len(plan) : Past(i, q) => Past(i, q)'
          PROVE  worktree = "present" \/ undermined \/ NeverBarred \/ PassedBarrier(i)
      BY <1>2, <2>3, <3>1, <3>2, <3>4 DEF PresentInv, Past
    <3>11. ASSUME worktree = "present" \/ undermined \/ NeverBarred \/ PassedBarrier(i),
                  worktree' = worktree, run'[i].at \in {at, at + 1}
           PROVE  worktree' = "present" \/ undermined' \/ NeverBarred' \/ PassedBarrier(j)'
      <4>1. PassedBarrier(i) => PassedBarrier(i)'
        BY <3>2, <3>3, <3>11 DEF PassedBarrier
      <4>2. Record(i) /\ At(i).action = "barrier" => PassedBarrier(i)'
        <5>1. SUFFICES ASSUME Record(i), At(i).action = "barrier" PROVE PassedBarrier(i)'
          OBVIOUS
        <5>2. run[i].stage = "recording" /\ run'[i].at = at + 1
          BY <5>1, Fields DEF Advanced
        <5>3. at \in 1 .. Len(plan) /\ plan[at].action = "barrier" /\ at < run'[i].at
          BY <3>3, <5>1, <5>2
        <5> QED BY <3>2, <5>3 DEF PassedBarrier
      <4> QED BY <1>2, <2>0, <2>3, <3>11, <4>1, <4>2, NeverBarredKept
    <3>5. CASE StartStep(i)
      <4>1. /\ run'[i].at = at /\ run[i].stage = "stepping" /\ run'[i].stage = "effect"
            /\ worktree' = worktree
        BY <3>5, Fields DEF Moved, StartStep
      <4>2. Past(i, p) /\ \A q \in 1 .. Len(plan) : Past(i, q) => Past(i, q)'
        BY <1>2, <2>3, <4>1 DEF Past
      <4> QED BY <3>3, <3>4, <3>11, <4>1, <4>2
    <3>6. CASE Skip(i)
      <4>1. /\ run'[i].at = at + 1 /\ run[i].stage = "stepping" /\ run'[i].stage = "stepping"
            /\ worktree' = worktree
        BY <3>6, Fields DEF Advanced, Skip
      <4>2. \A q \in 1 .. Len(plan) : Past(i, q) => Past(i, q)'
        BY <3>3, <4>1 DEF Past
      <4>3. CASE p < at
        <5>1. Past(i, p)
          BY <4>3 DEF Past
        <5> QED BY <3>3, <3>4, <3>11, <4>1, <4>2, <5>1
      <4>4. CASE p = at
        <5>1. MoreSteps(i) /\ At(i).resource \in run[i].failed
          BY <1>2, <2>3, <3>1, <3>6 DEF Skip, Skipped, Unreplayed
        <5>2. PICK s \in 1 .. Len(plan) : s < at /\ plan[s].resource = At(i).resource
          BY <3>1, <5>1 DEF AtInv
        <5>3. Past(i, s) /\ plan[s].resource # "worktree"
          BY <3>3, <4>4, <5>1, <5>2 DEF Past
        <5> QED BY <3>4, <3>11, <4>1, <4>2, <5>3
      <4> QED BY <1>2, <2>3, <3>3, <4>1, <4>3, <4>4 DEF Past
    <3>7. CASE Record(i) \/ RecordFailure(i)
      <4>1. /\ run'[i].at = at + 1 /\ run[i].stage = "recording" /\ run'[i].stage = "stepping"
            /\ worktree' = worktree
        BY <1>2, <2>3, <3>7, Fields DEF Advanced, Blamed, Record, RecordFailure, Looping
      <4>2. Past(i, p) /\ \A q \in 1 .. Len(plan) : Past(i, q) => Past(i, q)'
        BY <1>2, <2>3, <3>3, <4>1 DEF Past
      <4> QED BY <3>3, <3>4, <3>11, <4>1, <4>2
    <3>8. CASE ServiceStep(i)
      BY <3>8 DEF ServiceStep
    <3>9. CASE WorktreeStep(i)
      <4>1. /\ run'[i].at = at /\ run[i].stage = "effect" /\ run'[i].stage = "recording"
            /\ At(i).resource = "worktree"
        BY <3>9, Fields DEF Moved, WorktreeStep
      <4>2. Past(i, at)' /\ \A q \in 1 .. Len(plan) : Past(i, q) => Past(i, q)'
        BY <4>1 DEF Past
      <4>3. p < at
        BY <1>2, <2>3, <3>3, <4>1 DEF Past
      <4>4. Past(i, p)
        BY <4>3 DEF Past
      <4>5. worktree = "present" \/ undermined \/ NeverBarred \/ PassedBarrier(i)
        BY <3>3, <3>4, <4>2, <4>4
      <4>6. ~Removal(plan[at])
        BY <1>2, <2>3, <3>2, <3>3, <4>1, <4>2
      <4>7. At(i).action # "delete"
        BY <3>3, <4>1, <4>6 DEF Removal
      <4>8. worktree' = worktree
        BY <3>9, <4>7 DEF WorktreeStep, Barrier, LookAtWorktree
      <4> QED BY <3>11, <4>1, <4>5, <4>8
    <3>10. (\E command \in Commands, force \in BOOLEAN : Plan(i, command, force))
              \/ Acquire(i) \/ Recheck(i) \/ Begin(i) \/ TurnedAway(i) \/ LetGo(i)
              \/ FinishFailed(i) \/ Commit(i) \/ Vanish(i) \/ Halt(i) \/ Fails(i)
           => run'[i].stage \notin Looping
      BY Fields DEF Planned, Moved, Blamed, Looping
    <3> QED BY <1>2, <2>3, <3>5, <3>6, <3>7, <3>8, <3>9, <3>10 DEF Operate
  <2> QED BY <2>1, <2>2, <2>3
<1>3. ASSUME NEW i \in Invocation, Operate(i) PROVE PresentInv'
  BY <1>2, <1>3 DEF PresentInv, Past
<1> QED BY <1>1, <1>3, WhoSteps

(* The Worktree of a delete at its barrier is there, or went when no       *)
(* barrier had been passed.                                                *)
LEMMA BarredInPresence ==
  ASSUME LifecycleInv, PresentInv, NEW i \in Invocation,
         run[i].stage = "effect", At(i).action = "barrier"
  PROVE  worktree = "present" \/ undermined \/ NeverBarred
<1> USE DEF LifecycleInv
<1> DEFINE plan == Course(i)
           at == run[i].at
<1>1. run[i].stage \in Looping /\ run[i].stage \in Begun
  BY DEF Looping, Begun
<1>2. /\ at \in 1 .. Len(plan) /\ plan[at].action = "barrier" /\ run[i].command \in Command
      /\ Fitting(run[i].command, plan[at])
  BY <1>1, StepsAlike, Guided
<1>3. run[i].command = "delete" /\ ~run[i].resume
  BY <1>1, <1>2 DEF Fitting, AtInv
<1>4. plan = CommandSteps("delete", Resources)
  BY <1>3 DEF Course
<1>5. PICK s \in Service : TRUE
  <2>1. Service # {}
    BY <1>2, <1>4, DeleteEnds
  <2> QED BY <2>1
<1>6. PICK p \in 1 .. Len(plan) : p < at /\ plan[p].resource = s
  BY <1>2, <1>3, <1>4, PlanCovers
<1>7. plan[p].resource # "worktree"
  BY <1>6, ResourcesType
<1>8. ASSUME NEW q \in 1 .. Len(plan), q < at
      PROVE  ~Removal(plan[q]) /\ plan[q].action # "barrier"
  BY <1>2, <1>3, <1>4, <1>8, PlanOrder
<1>9. ~PassedBarrier(i) /\ \A q \in 1 .. Len(plan) : Past(i, q) => ~Removal(plan[q])
  BY <1>8 DEF PassedBarrier, Past
<1>10. Past(i, p)
  BY <1>6 DEF Past
<1> QED BY <1>1, <1>3, <1>6, <1>7, <1>9, <1>10 DEF PresentInv

LEMMA SightsKept ==
  ASSUME LifecycleInv, PresentInv, worktree = "absent", ~undermined, ~NeverBarred, [Next]_vars
  PROVE  seen' = seen
<1>1. ASSUME NEW i \in Invocation, WorktreeStep(i) PROVE seen' = seen
  <2>1. CASE At(i).action = "barrier"
    <3>1. run[i].stage = "effect"
      BY <1>1 DEF WorktreeStep
    <3> QED BY <2>1, <3>1, BarredInPresence
  <2>2. CASE At(i).action # "barrier"
    BY <1>1, <2>2 DEF WorktreeStep, RemoveWorktree, LookAtWorktree
  <2> QED BY <2>1, <2>2
<1>2. ASSUME NEW i \in Invocation, Operate(i) PROVE seen' = seen
  BY <1>1, <1>2, SeenKept DEF ServiceStep
<1> QED BY <1>2, WhoSteps, RunKept

LEMMA BarrierKept ==
  ASSUME LifecycleInv, PresentInv, BarrierInv, Typing', [Next]_vars
  PROVE  BarrierInv'
<1> USE DEF LifecycleInv
<1>1. CASE Others \/ UNCHANGED vars
  <2>1. UNCHANGED <<workspace, operations, holder, run, seen>>
    BY <1>1, RunKept
  <2>2. (AllAbsent => AllAbsent') /\ (NeverBarred => NeverBarred')
    BY <2>1 DEF AllAbsent, NeverBarred
  <2>3. \/ worktree' = worktree /\ (undermined => undermined')
        \/ undermined' \/ NeverBarred
    BY <1>1, OthersKeep DEF vars
  <2> QED BY <2>2, <2>3 DEF BarrierInv
<1>2. ASSUME NEW i \in Invocation, Operate(i), worktree # "absent", worktree' = "absent"
      PROVE  AllAbsent'
  <2>1. WorktreeStep(i) /\ worktree' # worktree
    BY <1>2, WorktreeKept
  <2>2. \A s \in Service : seen[s].status = "absent"
    <3> TAKE s \in Service
    <3>1. seen[s] = [by |-> i, status |-> "absent"]
      BY <2>1, RemovedBySeer
    <3> QED BY <3>1
  <2>3. RemoveWorktree(i)
    BY <2>1 DEF WorktreeStep, Barrier, LookAtWorktree
  <2>4. seen' = seen
    BY <2>3 DEF RemoveWorktree
  <2> QED BY <2>2, <2>4 DEF AllAbsent
<1>3. ASSUME NEW i \in Invocation, Operate(i), worktree = "absent", NeverBarred
      PROVE  AllAbsent' \/ NeverBarred'
  BY <1>3, NeverBarredKept, SeenAtBarrier DEF AllAbsent
<1>4. ASSUME NEW i \in Invocation, Operate(i), worktree = "absent", ~NeverBarred, AllAbsent,
             ~undermined
      PROVE  AllAbsent'
  BY <1>4, SightsKept DEF AllAbsent
<1>5. ASSUME NEW i \in Invocation, Operate(i) PROVE BarrierInv'
  <2>1. undermined' = undermined
    BY <1>5, UnderminedKept
  <2> QED BY <1>2, <1>3, <1>4, <1>5, <2>1 DEF BarrierInv
<1> QED BY <1>1, <1>5, WhoSteps

(* A delete that does not replay its Service steps observes none.          *)
LEMMA ResumedSightsKept ==
  ASSUME LifecycleInv, NEW j \in Invocation, run[j].stage \in Begun, run[j].resume,
         NEW i \in Invocation, Operate(i)
  PROVE  seen' = seen
<1> USE DEF LifecycleInv
<1>1. CASE j # i
  BY <1>1, Alone DEF Begun, Owning
<1>2. CASE j = i
  <2>1. worktree = "absent"
    BY DEF ResumeInv
  <2>2. ASSUME WorktreeStep(i) PROVE seen' = seen
    <3>1. run[i].stage = "effect" /\ run[i].stage \in Looping
      BY <2>2 DEF WorktreeStep, Looping
    <3>2. Course(i)[run[i].at].action # "barrier"
      BY <1>2, <3>1 DEF AtInv
    <3>3. At(i).action # "barrier"
      BY <3>1, <3>2, StepsAlike
    <3> QED BY <2>2, <3>3 DEF WorktreeStep, RemoveWorktree, LookAtWorktree
  <2> QED BY <2>1, <2>2, SeenKept DEF ServiceStep
<1> QED BY <1>1, <1>2

LEMMA ResumedKept ==
  ASSUME LifecycleInv, BarrierInv, ResumedInv, Typing', [Next]_vars
  PROVE  ResumedInv'
<1> USE DEF LifecycleInv
<1>1. CASE Others \/ UNCHANGED vars
  <2>1. run' = run /\ seen' = seen
    BY <1>1, RunKept
  <2>2. undermined => undermined'
    BY <1>1, OthersKeep DEF vars
  <2> QED BY <2>1, <2>2 DEF ResumedInv, AllAbsent
<1>2. ASSUME NEW i \in Invocation, Operate(i), NEW j \in Invocation,
             run'[j].stage \in Begun, run'[j].resume
      PROVE  AllAbsent' \/ undermined'
  <2>0. undermined' = undermined
    BY <1>2, UnderminedKept
  <2>1. CASE run[j].stage \in Begun /\ run[j].resume
    <3>1. AllAbsent \/ undermined
      BY <2>1 DEF ResumedInv
    <3>2. seen' = seen
      BY <1>2, <2>1, ResumedSightsKept
    <3> QED BY <2>0, <3>1, <3>2 DEF AllAbsent
  <2>2. CASE j = i /\ Survey(i)
    <3>1. run[i].base \in Base /\ run[i].stage \in Bound
      BY <2>2 DEF Survey, OwnInv, Bound, Owning
    <3>2. ResumesRemoved(i) /\ seen' = seen
      BY <1>2, <2>2, <3>1, Fields DEF Surveyed, Survey
    <3>3. worktree = "absent" /\ run[i].base.receipt
      BY <3>2 DEF ResumesRemoved
    <3>4. AllAbsent \/ undermined
      BY <3>1, <3>3 DEF BarrierInv, NeverBarred
    <3> QED BY <2>0, <3>2, <3>4 DEF AllAbsent
  <2>3. CASE ~(run[j].stage \in Begun /\ run[j].resume) /\ ~(j = i /\ Survey(i))
    <3>1. j = i
      BY <1>2, <2>3, LocalMoves
    <3>2. run'[i].resume = run[i].resume /\ (run[i].stage \in Begun \/ run[i].stage = "checked")
      BY <1>2, <2>3, <3>1, Fields DEF Operate, Planned, Moved, Advanced, Blamed, Begun
    <3> QED BY <1>2, <2>3, <3>1, <3>2 DEF OwnInv
  <2> QED BY <2>1, <2>2, <2>3
<1>3. ASSUME NEW i \in Invocation, Operate(i) PROVE ResumedInv'
  BY <1>2, <1>3 DEF ResumedInv, AllAbsent
<1> QED BY <1>1, <1>3, WhoSteps

(* What a command that comes to its end has seen.                          *)
LEMMA SeenAtTheEnd ==
  ASSUME LifecycleInv, ResumedInv, NEW i \in Invocation, Commit(i), run[i].command # "forget",
         NEW s \in Service
  PROVE  /\ seen[s].by = i \/ run[i].resume
         /\ \/ run[i].resume /\ undermined
            \/ seen[s].status \in CASE run[i].command = "delete" -> {"absent"}
                                    [] run[i].command = "stop" -> {"stopped", "absent"}
                                    [] OTHER -> {"ready"}
<1>1. CASE run[i].resume
  <2>1. run[i].stage \in Looping /\ run[i].stage \in Begun
    BY DEF Commit, Looping, Begun
  <2>2. run[i].command = "delete" /\ (seen[s].status = "absent" \/ undermined)
    BY <1>1, <2>1 DEF LifecycleInv, ResumeInv, ResumedInv, AllAbsent
  <2> QED BY <1>1, <2>2
<1> QED BY <1>1, SeenBySelf

(* Nothing looks at the Services of a deleted Workspace.                   *)
LEMMA DeletedSightsKept ==
  ASSUME LifecycleInv, workspace.state = "deleted", worktree = "absent",
         NEW i \in Invocation, Operate(i)
  PROVE  seen' = seen
<1> USE DEF LifecycleInv
<1>1. ASSUME WorktreeStep(i) PROVE seen' = seen
  <2>1. run[i].stage = "effect" /\ run[i].stage \in Looping /\ run[i].stage \in Begun
    BY <1>1 DEF WorktreeStep, Looping, Begun
  <2>2. run[i].command \in Command /\ run[i].command # "delete"
    <3>1. run[i].command \in Command
      BY <2>1, Guided
    <3> QED BY <2>1, <3>1 DEF CurrentInv, Underway
  <2>3. At(i).action # "barrier"
    BY <2>1, <2>2, StepsAlike DEF Fitting
  <2> QED BY <1>1, <2>3 DEF WorktreeStep, RemoveWorktree, LookAtWorktree
<1> QED BY <1>1, SeenKept DEF ServiceStep

LEMMA ProvenKept ==
  ASSUME LifecycleInv, ResumedInv, DeletedIsProven, Typing', [Next]_vars
  PROVE  DeletedIsProven'
<1>0. worktree' = worktree \/ worktree' = "absent"
  BY WorktreeGoes
<1>1. CASE Others \/ UNCHANGED vars
  <2>1. workspace' = workspace /\ seen' = seen
    BY <1>1, RunKept
  <2>2. undermined => undermined'
    BY <1>1, OthersKeep DEF vars, LifecycleInv
  <2> QED BY <1>0, <2>1, <2>2 DEF DeletedIsProven
<1>2. ASSUME NEW i \in Invocation, Operate(i), workspace.state = "deleted"
      PROVE  worktree' = "absent" /\ (undermined \/ \A s \in Service : seen'[s].status = "absent")
  <2>1. worktree = "absent" /\ (undermined \/ \A s \in Service : seen[s].status = "absent")
    BY <1>2 DEF DeletedIsProven
  <2> QED BY <1>0, <1>2, <2>1, DeletedSightsKept
<1>3. ASSUME NEW i \in Invocation, Operate(i), workspace.state # "deleted",
             workspace'.state = "deleted"
      PROVE  worktree' = "absent" /\ (undermined \/ \A s \in Service : seen'[s].status = "absent")
  <2>1. /\ Commit(i) /\ run[i].command = "delete" /\ worktree = "absent"
        /\ worktree' = worktree /\ seen' = seen
    BY <1>3, DeletedByCommit
  <2>2. \A s \in Service : undermined \/ seen[s].status = "absent"
    BY <2>1, SeenAtTheEnd
  <2> QED BY <2>1, <2>2
<1>4. ASSUME NEW i \in Invocation, Operate(i) PROVE DeletedIsProven'
  <2>1. undermined' = undermined
    BY <1>4, UnderminedKept
  <2> QED BY <1>2, <1>3, <1>4, <2>1 DEF DeletedIsProven
<1> QED BY <1>1, <1>4, WhoSteps

LEMMA ReceiptInit == ASSUME Init PROVE ReceiptInv
<1>1. \A i \in Invocation : run[i].stage = "idle"
  BY InitTyping DEF Idle
<1>2. PresentInv /\ ResumedInv
  BY <1>1 DEF PresentInv, ResumedInv, Looping, Begun
<1>3. NeverBarred
  <2>1. \A o \in Operation : operations[o].steps = <<>>
    BY InitTyping
  <2> QED BY <1>1, <2>1 DEF NeverBarred, Barred, Recorded, Bound, Owning
<1>4. DeletedIsProven
  BY InitTyping DEF DeletedIsProven
<1> QED BY <1>2, <1>3, <1>4 DEF ReceiptInv, BarrierInv

(* The receipts a resumed delete goes by (workspaces.py,                   *)
(* _service_cleanup_receipt) are not older than what was last seen, unless *)
(* others removed the Worktree after a barrier had been passed.            *)
THEOREM ReceiptInvariant == Spec => []ReceiptInv
<1>1. Init => ReceiptInv
  BY ReceiptInit
<1>2. LifecycleInv /\ LifecycleInv' /\ ReceiptInv /\ [Next]_vars => ReceiptInv'
  <2> SUFFICES ASSUME LifecycleInv, LifecycleInv', ReceiptInv, [Next]_vars PROVE ReceiptInv'
    OBVIOUS
  <2> USE DEF ReceiptInv
  <2>1. Typing'
    BY DEF LifecycleInv
  <2> QED BY <2>1, PresentKept, BarrierKept, ResumedKept, ProvenKept
<1> QED BY <1>1, <1>2, LifecycleInvariant, PTL DEF Spec

(* A Workspace called deleted has no Worktree, and every Service was       *)
(* absent when last looked at, unless others removed the Worktree after a  *)
(* barrier had been passed - for any number of attempts, takeovers and     *)
(* failures.                                                               *)
THEOREM Proven == Spec => []DeletedIsProven
<1>1. ReceiptInv => DeletedIsProven
  BY DEF ReceiptInv
<1> QED BY <1>1, ReceiptInvariant, PTL

(* A command that succeeds has itself seen every Service last, in the      *)
(* state it declares; a resumed delete relies on what its receipts say,    *)
(* with the same exception.                                                *)
THEOREM CommitSeen == Spec => CommitIsSeen
<1> DEFINE Seen == \A i \in Invocation :
            Commit(i) /\ run[i].command # "forget" =>
                \A s \in Service :
                    /\ seen[s].by = i \/ run[i].resume
                    /\ \/ run[i].resume /\ undermined
                       \/ seen[s].status \in
                             CASE run[i].command = "delete" -> {"absent"}
                               [] run[i].command = "stop" -> {"stopped", "absent"}
                               [] OTHER -> {"ready"}
<1>1. LifecycleInv /\ ReceiptInv /\ [Next]_vars => [Seen]_vars
  BY SeenAtTheEnd DEF ReceiptInv
<1> QED BY <1>1, LifecycleInvariant, ReceiptInvariant, PTL DEF Spec, CommitIsSeen
=============================================================================
