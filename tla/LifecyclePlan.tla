---------------------------- MODULE LifecyclePlan ---------------------------
(***************************************************************************)
(* What a create and a lifecycle command intend (src/fangorn/              *)
(* _lifecycle.py): which states they accept, the steps they journal, and   *)
(* the state they end in.  The Worktree is the first resource and Services *)
(* follow in declaration order.                                            *)
(***************************************************************************)
EXTENDS Naturals, Sequences, SequencesExt

Command == {"start", "stop", "restart", "delete", "forget"}

(* The states plan_lifecycle accepts.  forget has no plan to reject.       *)
Accepted ==
    LET running == {"ready", "starting", "start_failed", "stop_failed", "stopped", "stopping"}
    IN  [start |-> {"stopped", "start_failed", "ready", "starting"},
         stop |-> running,
         restart |-> running]

Accepts(command, state) ==
    command \in DOMAIN Accepted => state \in Accepted[command]

SuccessState(command, state) ==
    CASE command = "delete" -> "deleted"
      [] command = "stop" -> "stopped"
      [] command = "forget" -> state
      [] OTHER -> "ready"

(* A step as it is journaled; a verify_ step is the same action, verified. *)
Step(action, resource) ==
    [action |-> action, resource |-> resource, verify |-> FALSE, status |-> "pending"]

Verification(action, resource) == [Step(action, resource) EXCEPT !.verify = TRUE]

(* resource_steps: reversed for stop and delete, so the Worktree is last.  *)
StopSteps(resources) ==
    [p \in DOMAIN resources |-> Step("stop", Reverse(resources)[p])]
    \o IF Len(resources) > 1
       THEN [p \in DOMAIN resources |-> Verification("stop", resources[p])] ELSE <<>>

StartSteps(resources) ==
    [p \in DOMAIN resources |-> Step("start", resources[p])]
    \o IF Len(resources) > 1
       THEN [p \in DOMAIN resources |-> Verification("start", resources[p])] ELSE <<>>

DeleteStepsInOrder(resources) ==
    FlattenSeq([p \in DOMAIN resources |->
                   <<Step("delete", resources[p]), Step("absence", resources[p])>>])

DeleteSteps(resources) ==
    LET n == Len(resources)
    IN  [p \in DOMAIN resources |-> Step("ownership", Reverse(resources)[p])]
        \o [p \in 1 .. 2 * (n - 1) |->
               Step(IF p % 2 = 1 THEN "delete" ELSE "absence",
                    Reverse(resources)[(p + 1) \div 2])]
        \o (IF n > 1 THEN <<Step("barrier", "worktree")>> ELSE <<>>)
        \o <<Step("delete", "worktree"), Step("absence", "worktree")>>

CommandSteps(command, resources) ==
    CASE command = "start" -> StartSteps(resources)
      [] command = "stop" -> StopSteps(resources)
      [] command = "restart" -> StopSteps(resources) \o StartSteps(resources)
      [] command = "delete" -> DeleteSteps(resources)
      [] command = "forget" -> <<Step("forget", "worktree")>>

(* plan_create, and the state finish_create wants each Service in.         *)
CreateSteps(resources, start) ==
    [p \in DOMAIN resources |-> Step("create", resources[p])]
    \o (IF start THEN [p \in DOMAIN resources |-> Step("start", resources[p])] ELSE <<>>)
    \o [p \in DOMAIN resources |-> Step("inspect", resources[p])]

CreatedState(start) == IF start THEN "ready" ELSE "stopped"

Created(start) == IF start THEN {"ready"} ELSE {"stopped", "absent"}
=============================================================================
