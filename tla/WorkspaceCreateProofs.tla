------------------------ MODULE WorkspaceCreateProofs -----------------------
(***************************************************************************)
(* Proofs about the creation of Workspaces, for any number of requests,    *)
(* attempts, Services, failures, kills and acts of others.                 *)
(*                                                                         *)
(* An attempt works alone on the records of its request while it has the   *)
(* lease; what it knows of them is what they say (OwnerInv, ProgressInv).  *)
(* Paths belong to known requests, and an ownership token to the request   *)
(* that drew it, so nobody else writes to its target, its staging          *)
(* directory and its receipt (PathsInv, StagingInv).  A step is journaled  *)
(* as running before it does anything, so that a later attempt knows what  *)
(* it may find (ClearInv).                                                 *)
(***************************************************************************)
EXTENDS WorkspaceCreate, TLAPS

Resolved == [sha : Commit, token : Tokens] \cup {Unresolved}
Intent == [status : Status, sha : Commit \cup {NoCommit}, resolved : Resolved]
Aggregate == [state : {"none", "creating", "starting", "create_failed", "ready", "stopped"},
              definition : Resolved, completed : BOOLEAN]
JournalStep == [action : {"create", "start", "inspect"}, resource : {"worktree"} \cup Service,
                verify : BOOLEAN, status : {"pending", "running", "completed", "unknown"}]
Journal == [status : {"none", "running", "failed", "completed"}, steps : Seq(JournalStep)]
Local == [stage : Stage, request : Requests \cup {NoId}, snap : Intent, resolved : Resolved,
          at : Nat, previous : {"none", "pending", "running", "completed", "unknown"}]
Trees == [token : Tokens \cup {NoOne, <<>>}, branch : Branch \cup {NoBranch},
          head : Commit \cup {NoCommit}]

Typing ==
  /\ intents \in [Requests -> Intent]
  /\ aggregates \in [Requests -> Aggregate]
  /\ journal \in [Requests -> Journal]
  /\ superseded \subseteq Requests
  /\ holder \in [Requests -> Invocation \cup {NoOne}]
  /\ run \in [Invocation -> Local]
  /\ target \in [Path -> Trees]
  /\ staging \in [Tokens -> Trees]
  /\ receipts \subseteq Tokens
  /\ refs \in [Branch -> Commit \cup {NoCommit}]
  /\ base \in Commit
  /\ faults \in 0 .. MaxFaults
  /\ meddled \in 0 .. MaxMeddling

(* The records of a request agree.  Its resolution has the token it drew.  *)
Told(status) ==
  CASE status = "none" -> "none"
    [] status = "create_failed" -> "failed"
    [] status = "completed" -> "completed"
    [] OTHER -> "running"

Agree(r) ==
  /\ journal[r].status = Told(intents[r].status)
  /\ aggregates[r].completed <=> intents[r].status = "completed"
  /\ aggregates[r].state = "none" <=> aggregates[r].definition = Unresolved
  /\ aggregates[r].completed => aggregates[r].state # "none"
  /\ aggregates[r].state # "none" =>
        CASE intents[r].status = "completed" -> aggregates[r].state = CreatedState(r.start)
          [] intents[r].status = "create_failed" -> aggregates[r].state = "create_failed"
          [] OTHER -> aggregates[r].state \in {"creating", "starting"}

Definite(r) ==
  /\ intents[r].status = "none" => intents[r].resolved = Unresolved
  /\ intents[r].resolved # Unresolved =>
        /\ intents[r].sha = intents[r].resolved.sha
        /\ \E j \in Invocation : intents[r].resolved.token = <<j, r>>
  /\ aggregates[r].definition \in {Unresolved, intents[r].resolved}

RecordsInv == \A r \in Requests : Agree(r) /\ Definite(r)

PathsInv == \A q, r \in Requests : Known(q) /\ Known(r) /\ q.path = r.path => q = r

(* A lease is held by an attempt that is under way or gone; a Workspace    *)
(* that a lifecycle command took over is not created any more.             *)
LeaseInv ==
  /\ \A r \in Requests :
        holder[r] # NoOne =>
            /\ run[holder[r]].stage \in Owning \cup {"gone"}
            /\ Request(holder[r]) = r
            /\ intents[r].status = "creating"
  /\ \A r \in superseded : holder[r] = NoOne /\ aggregates[r].definition # Unresolved

OwnerInv ==
  \A i \in Invocation :
      /\ run[i].stage # "idle" => /\ Request(i) \in Requests
                                  /\ Known(Request(i))
                                  /\ run[i].snap.resolved \in
                                        {Unresolved, intents[Request(i)].resolved}
      /\ run[i].stage \in Owning => holder[Request(i)] = i

(* How far an attempt has come.                                            *)
Building == {"staging", "mark", "checkout", "publish"}
AtStep == InWorktree \cup {"service", "inspect", "recording"}
Defined == AtStep \cup {"stepping", "observed"}

Progress(i) ==
  /\ run[i].stage = "resolved" =>
        /\ run[i].resolved # Unresolved
        /\ Sha(i) = intents[Request(i)].sha
        /\ Token(i) = <<i, Request(i)>>
  /\ run[i].stage \in Defined \cup {"enriched"} =>
        /\ run[i].resolved # Unresolved
        /\ run[i].resolved = intents[Request(i)].resolved
  /\ run[i].stage \in Defined =>
        /\ aggregates[Request(i)].definition = run[i].resolved
        /\ run[i].at # 0
        /\ \A p \in DOMAIN Steps(i) : p < run[i].at => Steps(i)[p].status = "completed"
  /\ run[i].stage \in AtStep => run[i].at \in DOMAIN Steps(i)
  /\ run[i].stage = "observed" => run[i].at > Len(Steps(i))

ProgressInv == \A i \in Invocation : Progress(i)

(* A directory is built where nobody's Worktree is, under a receipt; what  *)
(* is published under a token has left the staging directory.              *)
Ours(tree) == tree \notin {Absent, Foreign}

StagingInv ==
  /\ StagingHasReceipt
  /\ \A i \in Invocation :
        /\ run[i].stage \in Building => Token(i) \in receipts /\ ~Ours(There(i))
        /\ run[i].stage = "publish" => Matches(i, Staged(i))
        /\ run[i].stage = "tidy" => Staged(i) = Absent
  /\ \A p \in Path :
        Ours(target[p]) =>
            \E r \in Requests : /\ r.path = p
                                /\ intents[r].resolved # Unresolved
                                /\ target[p].token = intents[r].resolved.token
                                /\ staging[target[p].token] = Absent

ThereInv ==
  /\ CompletedIsThere
  /\ \A i \in Invocation :
        run[i].stage = "observed" /\ Request(i).path \notin touched => Matches(i, There(i))

CreateInv ==
  /\ Typing /\ RecordsInv /\ PathsInv /\ LeaseInv /\ OwnerInv /\ ProgressInv
  /\ StagingInv /\ ThereInv /\ CreateJournalComplete
-----------------------------------------------------------------------------
StepOf(i) == Create(i) \/ Fails(i) \/ Vanish(i)

Others ==
  \/ BaseMoves
  \/ \E b \in Branch : BranchAppears(b)
  \/ \E p \in Path : TargetAppears(p) \/ TargetRemoved(p)
  \/ \E r \in Requests : Supersede(r) \/ \E s \in Service : ServiceDrifts(r, s)

LEMMA WhoSteps == ASSUME Next PROVE (\E i \in Invocation : StepOf(i)) \/ Others
BY DEF Next, StepOf, Others

(* Who changes what.                                                       *)
LEMMA IntentsKept ==
  ASSUME NEW i \in Invocation, StepOf(i),
         ~Acquire(i), ~Resolve(i), ~Enrich(i), ~Complete(i), ~FailCreate(i), \A r \in
         Requests : ~BeginIntent(i, r)
  PROVE  intents' = intents
BY DEF StepOf, Create, FindIntent, ReturnCompleted, TurnedAway, UseResolved,
       RecordDefinition, StartStep, AdoptTarget, ClaimStaging, ContinueStaging,
       AddWorktree, Mark, Checkout, Publish, Tidy, Inspect, ServiceStep, Record,
       Observe, Refuse, Fails, Vanish, registry

LEMMA AggregatesKept ==
  ASSUME NEW i \in Invocation, StepOf(i),
         ~Acquire(i), ~RecordDefinition(i), ~StartStep(i), ~Complete(i), ~FailCreate(i)
  PROVE  aggregates' = aggregates
BY DEF StepOf, Create, BeginIntent, FindIntent, ReturnCompleted, TurnedAway, Resolve,
       Enrich, UseResolved, AdoptTarget, ClaimStaging, ContinueStaging, AddWorktree,
       Mark, Checkout, Publish, Tidy, Inspect, ServiceStep, Record, Observe, Refuse,
       Fails, Vanish, registry

LEMMA JournalKept ==
  ASSUME NEW i \in Invocation, StepOf(i),
         ~Acquire(i), ~Enrich(i), ~StartStep(i), ~Record(i), ~Complete(i),
         ~FailCreate(i), \A r \in Requests : ~BeginIntent(i, r)
  PROVE  journal' = journal
BY DEF StepOf, Create, FindIntent, ReturnCompleted, TurnedAway, Resolve, UseResolved,
       RecordDefinition, AdoptTarget, ClaimStaging, ContinueStaging, AddWorktree, Mark,
       Checkout, Publish, Tidy, Inspect, ServiceStep, Observe, Refuse, Fails, Vanish,
       registry

LEMMA HolderKept ==
  ASSUME NEW i \in Invocation, StepOf(i),
         ~Acquire(i), ~Complete(i), ~FailCreate(i)
  PROVE  holder' = holder
BY DEF StepOf, Create, BeginIntent, FindIntent, ReturnCompleted, TurnedAway, Resolve,
       Enrich, UseResolved, RecordDefinition, StartStep, AdoptTarget, ClaimStaging,
       ContinueStaging, AddWorktree, Mark, Checkout, Publish, Tidy, Inspect,
       ServiceStep, Record, Observe, Refuse, Fails, Vanish

LEMMA SupersededKept ==
  ASSUME NEW i \in Invocation, StepOf(i)
  PROVE  superseded' = superseded
BY DEF StepOf, Create, BeginIntent, FindIntent, ReturnCompleted, Acquire, TurnedAway,
       Resolve, Enrich, UseResolved, RecordDefinition, StartStep, AdoptTarget,
       ClaimStaging, ContinueStaging, AddWorktree, Mark, Checkout, Publish, Tidy,
       Inspect, ServiceStep, Record, Observe, Complete, Refuse, FailCreate, Fails,
       Vanish, registry

LEMMA TargetKept ==
  ASSUME NEW i \in Invocation, StepOf(i),
         ~Publish(i)
  PROVE  target' = target
BY DEF StepOf, Create, BeginIntent, FindIntent, ReturnCompleted, Acquire, TurnedAway,
       Resolve, Enrich, UseResolved, RecordDefinition, StartStep, AdoptTarget,
       ClaimStaging, ContinueStaging, AddWorktree, Mark, Checkout, Tidy, Inspect,
       ServiceStep, Record, Observe, Complete, Refuse, FailCreate, Fails, Vanish, disk

LEMMA StagingKept ==
  ASSUME NEW i \in Invocation, StepOf(i),
         ~AddWorktree(i), ~Mark(i), ~Checkout(i), ~Publish(i)
  PROVE  staging' = staging
BY DEF StepOf, Create, BeginIntent, FindIntent, ReturnCompleted, Acquire, TurnedAway,
       Resolve, Enrich, UseResolved, RecordDefinition, StartStep, AdoptTarget,
       ClaimStaging, ContinueStaging, Tidy, Inspect, ServiceStep, Record, Observe,
       Complete, Refuse, FailCreate, Fails, Vanish, disk

LEMMA ReceiptsKept ==
  ASSUME NEW i \in Invocation, StepOf(i),
         ~ClaimStaging(i), ~Tidy(i)
  PROVE  receipts' = receipts
BY DEF StepOf, Create, BeginIntent, FindIntent, ReturnCompleted, Acquire, TurnedAway,
       Resolve, Enrich, UseResolved, RecordDefinition, StartStep, AdoptTarget,
       ContinueStaging, AddWorktree, Mark, Checkout, Publish, Inspect, ServiceStep,
       Record, Observe, Complete, Refuse, FailCreate, Fails, Vanish, disk

LEMMA RefsKept ==
  ASSUME NEW i \in Invocation, StepOf(i),
         ~Checkout(i)
  PROVE  refs' = refs
BY DEF StepOf, Create, BeginIntent, FindIntent, ReturnCompleted, Acquire, TurnedAway,
       Resolve, Enrich, UseResolved, RecordDefinition, StartStep, AdoptTarget,
       ClaimStaging, ContinueStaging, AddWorktree, Mark, Publish, Tidy, Inspect,
       ServiceStep, Record, Observe, Complete, Refuse, FailCreate, Fails, Vanish, disk

LEMMA OthersKept ==
  ASSUME NEW i \in Invocation, StepOf(i)
  PROVE  base' = base /\ touched' = touched /\ meddled' = meddled
BY DEF StepOf, Create, BeginIntent, FindIntent, ReturnCompleted, Acquire, TurnedAway,
       Resolve, Enrich, UseResolved, RecordDefinition, StartStep, AdoptTarget,
       ClaimStaging, ContinueStaging, AddWorktree, Mark, Checkout, Publish, Tidy,
       Inspect, ServiceStep, Record, Observe, Complete, Refuse, FailCreate, Fails,
       Vanish, others

LEMMA FaultsKept ==
  ASSUME NEW i \in Invocation, StepOf(i)
  PROVE  faults' = faults \/ (faults < MaxFaults /\ faults' = faults + 1)
BY DEF StepOf, Create, BeginIntent, FindIntent, ReturnCompleted, Acquire, TurnedAway,
       Resolve, Enrich, UseResolved, RecordDefinition, StartStep, AdoptTarget,
       ClaimStaging, ContinueStaging, AddWorktree, Mark, Checkout, Publish, Tidy,
       Inspect, ServiceStep, Record, Observe, Complete, Refuse, FailCreate, Fails,
       Vanish, others

-----------------------------------------------------------------------------
(* The local state of an attempt.                                          *)
RunTyping ==
  /\ run \in [Invocation -> Local]
  /\ \A i \in Invocation : run[i].stage # "idle" => Request(i) \in Requests

LEMMA Moved ==
  ASSUME RunTyping, NEW i \in Invocation, NEW stage \in Stage, run[i].stage # "idle",
         To(i, stage)
  PROVE  /\ RunTyping'
         /\ \A j \in Invocation \ {i} : run'[j] = run[j]
         /\ run'[i].stage = stage
         /\ run'[i].request = run[i].request
         /\ run'[i].snap = run[i].snap
         /\ run'[i].resolved = run[i].resolved
         /\ run'[i].at = run[i].at
BY DEF RunTyping, Local, To, Request

LEMMA Became ==
  ASSUME RunTyping, NEW i \in Invocation, NEW new \in Local,
         new.stage # "idle" => new.request \in Requests,
         run' = [run EXCEPT ![i] = new]
  PROVE  RunTyping' /\ run'[i] = new /\ \A j \in Invocation \ {i} : run'[j] = run[j]
BY DEF RunTyping, Local, Request

LEMMA IdleIsLocal == Idle \in Local
BY DEF Idle, Local, Stage, NoIntent, Intent, Status, Resolved

(* What a step of an attempt does to its own local state.                  *)
Joins(i) == \E r \in Requests : BeginIntent(i, r) \/ FindIntent(i, r)

Turns(i) ==
  /\ RunTyping'
  /\ \A j \in Invocation \ {i} : run'[j] = run[j]
  /\ run[i].stage \notin {"gone", "done"}
  /\ run[i].stage = "idle" => Joins(i)
  /\ run'[i].stage # "idle" =>
        Joins(i) \/ (run'[i].request = run[i].request /\ run'[i].snap = run[i].snap)
  /\ run'[i].stage \in Owning =>
        \/ run'[i].resolved = run[i].resolved
        \/ Resolve(i) \/ Enrich(i) \/ UseResolved(i)
  /\ run'[i].stage \in Owning =>
        run'[i].at = run[i].at \/ RecordDefinition(i) \/ StartStep(i) \/ Record(i)

(* The steps by which it reaches a stage.                                  *)
Reaches(i) ==
  LET stage == run'[i].stage
  IN  /\ stage = "begun" => Joins(i)
      /\ stage = "leased" => Acquire(i)
      /\ stage = "resolved" => Resolve(i)
      /\ stage = "enriched" => Enrich(i) \/ UseResolved(i)
      /\ stage = "stepping" => RecordDefinition(i) \/ StartStep(i) \/ Record(i)
      /\ stage \in {"service", "target", "inspect"} => StartStep(i)
      /\ stage = "staging" => ClaimStaging(i)
      /\ stage = "mark" => ContinueStaging(i) \/ AddWorktree(i)
      /\ stage = "checkout" => Mark(i)
      /\ stage = "publish" => Checkout(i)
      /\ stage = "tidy" => AdoptTarget(i) \/ (Publish(i) /\ There(i) = Absent)
      /\ stage = "recording" => Tidy(i) \/ Inspect(i) \/ ServiceStep(i)
      /\ stage = "observed" => Observe(i)
      /\ stage = "failing" => run[i].stage \in Owning \ {"failing"}
      /\ stage = "done" => Complete(i) \/ ReturnCompleted(i)
      /\ stage = "gone" => Vanish(i)
      /\ stage = "idle" => FailCreate(i) \/ TurnedAway(i)

LEMMA AtIsStep ==
  ASSUME Typing, ProgressInv, OwnerInv, NEW i \in Invocation,
         run[i].stage \in Defined, run[i].at <= Len(Steps(i))
  PROVE  run[i].at \in DOMAIN Steps(i) /\ At(i) \in JournalStep
<1>1. Request(i) \in Requests /\ run[i].at # 0
  BY DEF OwnerInv, ProgressInv, Progress, Defined, AtStep, InWorktree
<1>2. run[i].at \in Nat /\ Steps(i) \in Seq(JournalStep)
  BY <1>1 DEF Typing, Local, Journal, Steps
<1> QED BY <1>1, <1>2 DEF At

LEMMA RunSteps ==
  ASSUME Typing, OwnerInv, ProgressInv, NEW i \in Invocation, StepOf(i)
  PROVE  Turns(i) /\ Reaches(i)
<1> RunTyping
  BY DEF Typing, OwnerInv, RunTyping
<1> USE DEF Turns, Reaches
<1>i. CASE TurnedAway(i) \/ FailCreate(i)
  <2>1. Idle.stage = "idle"
    BY DEF Idle
  <2>2. run' = [run EXCEPT ![i] = Idle] /\ run[i].stage \in {"begun", "failing"}
    BY <1>i DEF TurnedAway, FailCreate
  <2>3. RunTyping' /\ run'[i] = Idle /\ \A j \in Invocation \ {i} : run'[j] = run[j]
    BY <2>1, <2>2, IdleIsLocal, Became
  <2> QED BY <1>i, <2>1, <2>2, <2>3 DEF Owning, InWorktree
<1>j. ASSUME NEW r \in Requests, NEW intent \in Intent, Join(i, r, intent),
             run[i].stage = "idle", Joins(i)
      PROVE  Turns(i) /\ Reaches(i)
  <2> DEFINE new == [Idle EXCEPT !.stage = "begun", !.request = r, !.snap = intent]
  <2>1. new \in Local /\ new.stage = "begun" /\ new.request = r
    BY IdleIsLocal DEF Idle, Local, Stage
  <2>2. run' = [run EXCEPT ![i] = new]
    BY <1>j DEF Join
  <2> HIDE DEF new
  <2> QED BY <1>j, <2>1, <2>2, Became DEF Owning, InWorktree
<1>1. ASSUME NEW r \in Requests, BeginIntent(i, r) PROVE Turns(i) /\ Reaches(i)
  <2>1. intents'[r] \in Intent
    BY <1>1 DEF BeginIntent, Typing, Intent, Status
  <2>2. Join(i, r, intents'[r]) /\ run[i].stage = "idle" /\ Joins(i)
    BY <1>1 DEF BeginIntent, Joins
  <2> QED BY <2>1, <2>2, <1>j
<1>2. ASSUME NEW r \in Requests, FindIntent(i, r) PROVE Turns(i) /\ Reaches(i)
  <2>1. intents[r] \in Intent
    BY DEF Typing
  <2>2. Join(i, r, intents[r]) /\ run[i].stage = "idle" /\ Joins(i)
    BY <1>2 DEF FindIntent, Joins
  <2> QED BY <2>1, <2>2, <1>j
<1>3. CASE ReturnCompleted(i)
  <2>1. run[i].stage \in {"begun"} \cup Owning /\ To(i, "done")
    BY <1>3 DEF ReturnCompleted, Owning, InWorktree
  <2> QED BY <1>3, <2>1, Moved DEF Stage, Owning, InWorktree
<1>4. CASE Acquire(i)
  <2>1. run[i].stage \in {"begun"} \cup Owning /\ To(i, "leased")
    BY <1>4 DEF Acquire, Owning, InWorktree
  <2> QED BY <1>4, <2>1, Moved DEF Stage, Owning, InWorktree
<1>5. CASE AdoptTarget(i)
  <2>1. run[i].stage \in {"begun"} \cup Owning /\ To(i, "tidy")
    BY <1>5 DEF AdoptTarget, Owning, InWorktree
  <2> QED BY <1>5, <2>1, Moved DEF Stage, Owning, InWorktree
<1>6. CASE ClaimStaging(i)
  <2>1. run[i].stage \in {"begun"} \cup Owning /\ To(i, "staging")
    BY <1>6 DEF ClaimStaging, Owning, InWorktree
  <2> QED BY <1>6, <2>1, Moved DEF Stage, Owning, InWorktree
<1>7. CASE ContinueStaging(i)
  <2>1. run[i].stage \in {"begun"} \cup Owning /\ To(i, "mark")
    BY <1>7 DEF ContinueStaging, Owning, InWorktree
  <2> QED BY <1>7, <2>1, Moved DEF Stage, Owning, InWorktree
<1>8. CASE AddWorktree(i)
  <2>1. run[i].stage \in {"begun"} \cup Owning /\ To(i, "mark")
    BY <1>8 DEF AddWorktree, Owning, InWorktree
  <2> QED BY <1>8, <2>1, Moved DEF Stage, Owning, InWorktree
<1>9. CASE Mark(i)
  <2>1. run[i].stage \in {"begun"} \cup Owning /\ To(i, "checkout")
    BY <1>9 DEF Mark, Owning, InWorktree
  <2> QED BY <1>9, <2>1, Moved DEF Stage, Owning, InWorktree
<1>10. CASE Tidy(i)
  <2>1. run[i].stage \in {"begun"} \cup Owning /\ To(i, "recording")
    BY <1>10 DEF Tidy, Owning, InWorktree
  <2> QED BY <1>10, <2>1, Moved DEF Stage, Owning, InWorktree
<1>11. CASE Inspect(i)
  <2>1. run[i].stage \in {"begun"} \cup Owning /\ To(i, "recording")
    BY <1>11 DEF Inspect, Owning, InWorktree
  <2> QED BY <1>11, <2>1, Moved DEF Stage, Owning, InWorktree
<1>12. CASE ServiceStep(i)
  <2>1. run[i].stage \in {"begun"} \cup Owning /\ To(i, "recording")
    BY <1>12 DEF ServiceStep, Owning, InWorktree
  <2> QED BY <1>12, <2>1, Moved DEF Stage, Owning, InWorktree
<1>13. CASE Observe(i)
  <2>1. run[i].stage \in {"begun"} \cup Owning /\ To(i, "observed")
    BY <1>13 DEF Observe, Owning, InWorktree
  <2> QED BY <1>13, <2>1, Moved DEF Stage, Owning, InWorktree
<1>14. CASE Complete(i)
  <2>1. run[i].stage \in {"begun"} \cup Owning /\ To(i, "done")
    BY <1>14 DEF Complete, Owning, InWorktree
  <2> QED BY <1>14, <2>1, Moved DEF Stage, Owning, InWorktree
<1>15. CASE Fails(i)
  <2>1. run[i].stage \in {"begun"} \cup Owning /\ To(i, "failing")
    BY <1>15 DEF Fails, Owning, InWorktree
  <2>2. run[i].stage \in Owning \ {"failing"}
    BY <1>15 DEF Fails, Owning, InWorktree
  <2> QED BY <1>15, <2>1, <2>2, Moved DEF Stage, Owning, InWorktree
<1>16. CASE Vanish(i)
  <2>1. run[i].stage \in {"begun"} \cup Owning /\ To(i, "gone")
    BY <1>16 DEF Vanish, Owning, InWorktree
  <2> QED BY <1>16, <2>1, Moved DEF Stage, Owning, InWorktree
<1>17. CASE Refuse(i)
  <2>1. run[i].stage \in {"begun"} \cup Owning /\ To(i, "failing")
    BY <1>17 DEF Refuse, Refused, Owning, InWorktree
  <2>2. run[i].stage \in Owning \ {"failing"}
    BY <1>17 DEF Refuse, Refused, Owning, InWorktree
  <2> QED BY <1>17, <2>1, <2>2, Moved DEF Stage, Owning, InWorktree
<1>18. CASE Checkout(i)
  <2>1. PICK stage \in {"publish", "failing"} : To(i, stage)
    BY <1>18 DEF Checkout
  <2>2. run[i].stage = "checkout"
    BY <1>18 DEF Checkout
  <2> QED BY <1>18, <2>1, <2>2, Moved DEF Stage, Owning, InWorktree
<1>19. CASE Publish(i)
  <2>1. PICK stage \in {"tidy", "failing"} :
           To(i, stage) /\ (stage = "tidy" => There(i) = Absent)
    BY <1>19 DEF Publish
  <2>2. run[i].stage = "publish"
    BY <1>19 DEF Publish
  <2> QED BY <1>19, <2>1, <2>2, Moved DEF Stage, Owning, InWorktree
<1>20. CASE Resolve(i)
  <2> DEFINE drawn == [sha |-> Resolution(Request(i)), token |-> <<i, Request(i)>>]
             new == [run[i] EXCEPT !.stage = "resolved", !.resolved = drawn]
  <2>1. Request(i) \in Requests /\ run[i] \in Local
    BY <1>20 DEF Resolve, RunTyping
  <2>2. drawn \in Resolved
    BY <2>1 DEF Typing, Intent, Resolution, Resolved, Tokens
  <2>3. run' = [run EXCEPT ![i] = new] /\ run[i].stage = "leased"
    BY <1>20 DEF Resolve
  <2> HIDE DEF drawn
  <2>4. /\ new \in Local /\ new.stage = "resolved" /\ new.request = run[i].request
        /\ new.snap = run[i].snap /\ new.at = run[i].at
    BY <2>1, <2>2 DEF Local, Stage, Owning
  <2> HIDE DEF new
  <2> QED BY <1>20, <2>1, <2>3, <2>4, Became DEF Owning, InWorktree, Request
<1>21. CASE Enrich(i) \/ UseResolved(i)
  <2>1. Request(i) \in Requests /\ run[i] \in Local
    BY <1>21 DEF Enrich, UseResolved, RunTyping
  <2>2. PICK resolution \in Resolved :
           /\ run' = [run EXCEPT ![i] = [run[i] EXCEPT !.stage = "enriched",
                                                       !.resolved = resolution]]
           /\ run[i].stage \in {"leased", "resolved"}
    <3>1. CASE UseResolved(i)
      BY <2>1, <3>1 DEF UseResolved, Local, Intent
    <3>2. CASE Enrich(i) /\ intents[Request(i)].resolved # Unresolved
      BY <2>1, <3>2 DEF Enrich, Typing, Intent
    <3>3. CASE Enrich(i) /\ intents[Request(i)].resolved = Unresolved
      <4>1. /\ [run[i] EXCEPT !.stage = "enriched"] =
               [run[i] EXCEPT !.stage = "enriched", !.resolved = run[i].resolved]
            /\ run[i].resolved \in Resolved
        BY <2>1 DEF Local
      <4> QED BY <3>3, <4>1 DEF Enrich, To
    <3> QED BY <1>21, <3>1, <3>2, <3>3
  <2> DEFINE new == [run[i] EXCEPT !.stage = "enriched", !.resolved = resolution]
  <2>3. /\ new \in Local /\ new.stage = "enriched" /\ new.request = run[i].request
        /\ new.snap = run[i].snap /\ new.at = run[i].at
    BY <2>1 DEF Local, Stage, Owning
  <2>4. run' = [run EXCEPT ![i] = new]
    BY <2>2
  <2> HIDE DEF new
  <2> QED BY <1>21, <2>1, <2>2, <2>3, <2>4, Became DEF Owning, InWorktree, Request
<1>22. CASE RecordDefinition(i) \/ Record(i)
  <2>1. Request(i) \in Requests /\ run[i] \in Local
    BY <1>22 DEF RecordDefinition, Record, RunTyping
  <2>2. PICK at \in Nat :
           /\ run' = [run EXCEPT ![i] = [run[i] EXCEPT !.stage = "stepping", !.at = at]]
           /\ run[i].stage \in {"enriched", "recording"}
    <3>1. run[i].at + 1 \in Nat /\ 1 \in Nat
      BY <2>1 DEF Local
    <3>2. CASE RecordDefinition(i)
      BY <3>1, <3>2 DEF RecordDefinition
    <3>3. CASE Record(i)
      BY <3>1, <3>3 DEF Record, Advance
    <3> QED BY <1>22, <3>2, <3>3
  <2> DEFINE new == [run[i] EXCEPT !.stage = "stepping", !.at = at]
  <2>3. /\ new \in Local /\ new.stage = "stepping" /\ new.request = run[i].request
        /\ new.snap = run[i].snap /\ new.resolved = run[i].resolved
    BY <2>1 DEF Local, Stage, Owning
  <2>4. run' = [run EXCEPT ![i] = new]
    BY <2>2
  <2> HIDE DEF new
  <2> QED BY <1>22, <2>1, <2>2, <2>3, <2>4, Became DEF Owning, InWorktree, Request
<1>23. CASE StartStep(i)
  <2>1. Request(i) \in Requests /\ run[i] \in Local /\ At(i) \in JournalStep
    BY <1>23, AtIsStep DEF StartStep, RunTyping, Defined
  <2>2. PICK at \in Nat, stage \in {"stepping", "service", "target", "inspect"} :
           run' = [run EXCEPT ![i] = [run[i] EXCEPT !.previous = At(i).status, !.at = at,
                                                    !.stage = stage]]
    <3>1. PICK at \in Nat : at = IF Skips(At(i)) THEN run[i].at + 1 ELSE run[i].at
      BY <2>1 DEF Local
    <3>2. PICK stage \in {"stepping", "service", "target", "inspect"} :
             stage = IF Skips(At(i)) THEN "stepping"
                     ELSE IF At(i).resource # "worktree" THEN "service"
                     ELSE IF At(i).action = "create" THEN "target" ELSE "inspect"
      OBVIOUS
    <3>3. run' = [run EXCEPT ![i] = [run[i] EXCEPT !.previous = At(i).status, !.at = at,
                                                   !.stage = stage]]
      BY <1>23, <2>1, <3>1, <3>2 DEF StartStep
    <3> QED BY <3>3
  <2> DEFINE new == [run[i] EXCEPT !.previous = At(i).status, !.at = at, !.stage = stage]
  <2>3. /\ new \in Local /\ new.stage = stage /\ new.request = run[i].request
        /\ new.snap = run[i].snap /\ new.resolved = run[i].resolved
    BY <2>1 DEF Local, JournalStep, Stage, Owning, InWorktree
  <2>4. run' = [run EXCEPT ![i] = new] /\ run[i].stage = "stepping"
    BY <1>23, <2>2 DEF StartStep
  <2> HIDE DEF new
  <2> QED BY <1>23, <2>1, <2>3, <2>4, Became DEF Owning, InWorktree, Request
<1> QED BY <1>i, <1>1, <1>2, <1>3, <1>4, <1>5, <1>6, <1>7, <1>8, <1>9, <1>10, <1>11,
           <1>12, <1>13, <1>14, <1>15, <1>16, <1>17, <1>18, <1>19, <1>20, <1>21, <1>22,
           <1>23
    DEF StepOf, Create

-----------------------------------------------------------------------------
(* What is journaled, and what becomes of it when a lease is taken over.   *)
LEMMA SequenceOf ==
  ASSUME NEW S, NEW n \in Nat, NEW f \in [1 .. n -> S] PROVE f \in Seq(S) /\ Len(f) = n
OBVIOUS

LEMMA ResourcesType == Resources \in Seq({"worktree"} \cup Service)
<1>1. Services \in Seq({"worktree"} \cup Service)
  <2>1. Services \in Seq(Service)
    BY CreateAssumption DEF Service
  <2> QED BY <2>1
<1>2. <<"worktree">> \in Seq({"worktree"} \cup Service)
  OBVIOUS
<1> QED BY <1>1, <1>2 DEF Resources

LEMMA PlanTypes ==
  ASSUME NEW start \in BOOLEAN PROVE CreateSteps(Resources, start) \in Seq(JournalStep)
<1>1. ASSUME NEW action \in {"create", "start", "inspect"}
      PROVE  [p \in DOMAIN Resources |-> Step(action, Resources[p])] \in Seq(JournalStep)
  <2>1. DOMAIN Resources = 1 .. Len(Resources) /\ Len(Resources) \in Nat
    BY ResourcesType
  <2>2. ASSUME NEW p \in DOMAIN Resources
        PROVE  Step(action, Resources[p]) \in JournalStep
    <3>1. Resources[p] \in {"worktree"} \cup Service
      BY ResourcesType
    <3> QED BY <3>1 DEF Step, JournalStep
  <2> DEFINE f == [p \in DOMAIN Resources |-> Step(action, Resources[p])]
  <2>3. f \in [1 .. Len(Resources) -> JournalStep]
    BY <2>1, <2>2
  <2> QED BY <2>1, <2>3, SequenceOf
<1> DEFINE Phase(action) == [p \in DOMAIN Resources |-> Step(action, Resources[p])]
<1>2. ASSUME NEW action \in {"create", "start", "inspect"}
      PROVE  Phase(action) \in Seq(JournalStep)
  BY <1>1
<1>3. CreateSteps(Resources, start) =
        Phase("create") \o (IF start THEN Phase("start") ELSE <<>>) \o Phase("inspect")
  BY DEF CreateSteps
<1> HIDE DEF Phase
<1>4. /\ Phase("create") \in Seq(JournalStep) /\ Phase("start") \in Seq(JournalStep)
      /\ Phase("inspect") \in Seq(JournalStep) /\ <<>> \in Seq(JournalStep)
  BY <1>2
<1> QED BY <1>3, <1>4

LEMMA SettledTypes ==
  ASSUME NEW steps \in Seq(JournalStep) PROVE Settled(steps) \in Seq(JournalStep)
<1>1. DOMAIN steps = 1 .. Len(steps) /\ Len(steps) \in Nat
  OBVIOUS
<1>2. ASSUME NEW p \in DOMAIN steps
      PROVE  [steps[p] EXCEPT !.status = "unknown"] \in JournalStep /\ steps[p] \in JournalStep
  <2>1. steps[p] \in JournalStep
    OBVIOUS
  <2> QED BY <2>1 DEF JournalStep
<1>3. Settled(steps) \in [1 .. Len(steps) -> JournalStep]
  BY <1>1, <1>2 DEF Settled
<1> QED BY <1>1, <1>3, SequenceOf

LEMMA RequestTypes ==
  ASSUME NEW r \in Requests
  PROVE  r.start \in BOOLEAN /\ r.path \in Path /\ r.branch \in Branch
BY CreateAssumption DEF Path, Branch

LEMMA UnresolvedTypes == Unresolved \in Resolved /\ \A d \in Resolved :
                            d # Unresolved => d.sha \in Commit /\ d.token \in Tokens
BY DEF Resolved

LEMMA ResolvedSha == \A d \in Resolved : d # Unresolved => d.sha # NoCommit
BY CreateAssumption DEF Resolved

(* Where an attempt is, and what is there.                                 *)
LEMMA Asked ==
  ASSUME OwnerInv, NEW i \in Invocation, run[i].stage # "idle"
  PROVE  Request(i) \in Requests /\ Known(Request(i))
BY DEF OwnerInv

LEMMA OwnerFacts ==
  ASSUME Typing, OwnerInv, LeaseInv, NEW i \in Invocation, run[i].stage \in Owning
  PROVE  /\ Request(i) \in Requests /\ Request(i).path \in Path
         /\ Request(i).branch \in Branch /\ Request(i).start \in BOOLEAN
         /\ Known(Request(i)) /\ holder[Request(i)] = i
         /\ intents[Request(i)].status = "creating" /\ Request(i) \notin superseded
<1>1. Request(i) \in Requests /\ Known(Request(i)) /\ holder[Request(i)] = i
  BY DEF OwnerInv, Owning, InWorktree
<1>2. holder[Request(i)] # NoOne
  BY <1>1, CreateAssumption
<1> QED BY <1>1, <1>2, RequestTypes DEF LeaseInv

LEMMA IntentsTyping ==
  ASSUME Typing, OwnerInv, NEW i \in Invocation, StepOf(i)
  PROVE  intents' \in [Requests -> Intent]
<1>1. ASSUME NEW r \in Requests, BeginIntent(i, r) PROVE intents' \in [Requests -> Intent]
  BY <1>1 DEF BeginIntent, Typing, Intent, Status
<1>2. CASE Acquire(i) \/ Complete(i) \/ FailCreate(i)
  <2>1. Request(i) \in Requests
    BY <1>2, Asked DEF Acquire, Complete, FailCreate
  <2>2. PICK status \in Status : intents' = [intents EXCEPT ![Request(i)].status = status]
    BY <1>2 DEF Acquire, Complete, FailCreate, Status
  <2> QED BY <2>1, <2>2 DEF Typing, Intent
<1>3. CASE Resolve(i)
  <2>1. Request(i) \in Requests
    BY <1>3, Asked DEF Resolve
  <2>2. Resolution(Request(i)) \in Commit
    BY <2>1 DEF Resolution, Typing, Intent
  <2> QED BY <1>3, <2>1, <2>2 DEF Resolve, Typing, Intent
<1>4. CASE Enrich(i)
  <2>1. run[i].resolved \in Resolved /\ Request(i) \in Requests
    BY <1>4, Asked DEF Typing, Local, Enrich
  <2>2. \/ intents' = intents
        \/ intents' = [intents EXCEPT ![Request(i)].resolved = run[i].resolved]
    BY <1>4 DEF Enrich
  <2> QED BY <2>1, <2>2 DEF Typing, Intent
<1> QED BY <1>1, <1>2, <1>3, <1>4, IntentsKept DEF Typing

LEMMA AggregatesTyping ==
  ASSUME Typing, OwnerInv, LeaseInv, NEW i \in Invocation, StepOf(i)
  PROVE  aggregates' \in [Requests -> Aggregate]
<1>1. CASE Acquire(i)
  BY <1>1 DEF Acquire, Typing, Aggregate
<1>2. CASE FailCreate(i)
  BY <1>2 DEF FailCreate, FailedState, Typing, Aggregate
<1>3. CASE RecordDefinition(i)
  <2>1. run[i].resolved \in Resolved /\ Request(i) \in Requests
    BY <1>3, Asked DEF Typing, Local, RecordDefinition
  <2>2. \/ aggregates' = aggregates
        \/ aggregates' = [aggregates EXCEPT ![Request(i)] =
                             [@ EXCEPT !.definition = run[i].resolved, !.state = "creating"]]
    BY <1>3 DEF RecordDefinition
  <2>3. [aggregates[Request(i)] EXCEPT !.definition = run[i].resolved, !.state = "creating"]
           \in Aggregate
    BY <2>1 DEF Typing, Aggregate
  <2> QED BY <2>1, <2>2, <2>3 DEF Typing
<1>4. CASE StartStep(i)
  <2>1. Request(i) \in Requests
    BY <1>4, Asked DEF StartStep
  <2>2. [aggregates[Request(i)] EXCEPT !.state = "starting"] \in Aggregate
    BY <2>1 DEF Typing, Aggregate
  <2>3. \/ aggregates' = aggregates
        \/ aggregates' = [aggregates EXCEPT ![Request(i)] = [@ EXCEPT !.state = "starting"]]
    BY <1>4 DEF StartStep
  <2> QED BY <2>1, <2>2, <2>3 DEF Typing
<1>5. CASE Complete(i)
  BY <1>5 DEF Complete, CreatedState, Typing, Aggregate
<1> QED BY <1>1, <1>2, <1>3, <1>4, <1>5, AggregatesKept DEF Typing

LEMMA JournalTyping ==
  ASSUME Typing, OwnerInv, LeaseInv, NEW i \in Invocation, StepOf(i)
  PROVE  journal' \in [Requests -> Journal]
<1>0. ASSUME NEW r \in Requests
      PROVE  journal[r] \in Journal /\ journal[r].steps \in Seq(JournalStep)
             /\ Settled(journal[r].steps) \in Seq(JournalStep)
  BY SettledTypes DEF Typing, Journal
<1>1. ASSUME NEW r \in Requests, BeginIntent(i, r) PROVE journal' \in [Requests -> Journal]
  BY <1>1 DEF BeginIntent, Typing, Journal
<1>2. CASE Acquire(i)
  BY <1>2, <1>0 DEF Acquire, Typing, Journal
<1>3. CASE FailCreate(i)
  BY <1>3, <1>0 DEF FailCreate, Typing, Journal
<1>4. CASE Enrich(i)
  <2>1. CreateSteps(Resources, Request(i).start) \in Seq(JournalStep) /\ Request(i) \in Requests
    BY <1>4, OwnerFacts, PlanTypes DEF Enrich, Owning
  <2>2. PICK plan : /\ plan = CreateSteps(Resources, Request(i).start)
                    /\ journal' = journal
                       \/ journal' = [journal EXCEPT ![Request(i)].steps = plan]
    BY <1>4 DEF Enrich
  <2> QED BY <2>1, <2>2 DEF Typing, Journal
<1>5. ASSUME NEW r \in Requests, NEW p, NEW status \in {"running", "completed"},
             journal' = [journal EXCEPT ![r].steps[p].status = status]
      PROVE  journal' \in [Requests -> Journal]
  <2>1. [journal[r].steps EXCEPT ![p].status = status] \in Seq(JournalStep)
    <3>1. journal[r].steps \in Seq(JournalStep)
      BY <1>0
    <3>2. CASE p \in DOMAIN journal[r].steps
      <4>1. [journal[r].steps[p] EXCEPT !.status = status] \in JournalStep
        <5>1. journal[r].steps[p] \in JournalStep
          BY <3>1, <3>2
        <5> QED BY <5>1 DEF JournalStep
      <4> QED BY <3>1, <3>2, <4>1
    <3>3. CASE p \notin DOMAIN journal[r].steps
      <4>1. [journal[r].steps EXCEPT ![p].status = status] = journal[r].steps
        BY <3>1, <3>3
      <4> QED BY <3>1, <4>1
    <3> QED BY <3>2, <3>3
  <2>2. [journal[r] EXCEPT !.steps = [journal[r].steps EXCEPT ![p].status = status]] \in Journal
    BY <2>1, <1>0 DEF Journal
  <2> QED BY <1>5, <2>2 DEF Typing
<1>6. CASE StartStep(i) \/ Record(i)
  <2>1. Request(i) \in Requests
    BY <1>6, Asked DEF StartStep, Record
  <2>2. PICK status \in {"running", "completed"} :
           \/ journal' = journal
           \/ journal' = [journal EXCEPT ![Request(i)].steps[run[i].at].status = status]
    BY <1>6 DEF StartStep, Record
  <2> QED BY <1>5, <2>1, <2>2 DEF Typing
<1>7. CASE Complete(i)
  BY <1>7 DEF Complete, Typing, Journal
<1> QED BY <1>1, <1>2, <1>3, <1>4, <1>6, <1>7, JournalKept DEF Typing

LEMMA DefinedFacts ==
  ASSUME Typing, OwnerInv, LeaseInv, ProgressInv, NEW i \in Invocation,
         run[i].stage \in Defined \cup {"enriched"}
  PROVE  Token(i) \in Tokens /\ Sha(i) \in Commit /\ run[i].stage \in Owning
<1>1. run[i].resolved \in Resolved /\ run[i].resolved # Unresolved
  BY DEF Typing, Local, ProgressInv, Progress
<1> QED BY <1>1, UnresolvedTypes DEF Token, Sha, Defined, AtStep, Owning

LEMMA TreesTypes ==
  Absent \in Trees /\ Foreign \in Trees /\ Absent.head = NoCommit /\ Foreign.head = NoCommit
BY DEF Absent, Foreign, Tree, Trees

LEMMA DiskTyping ==
  ASSUME Typing, OwnerInv, LeaseInv, ProgressInv, NEW i \in Invocation, StepOf(i)
  PROVE  /\ target' \in [Path -> Trees]
         /\ staging' \in [Tokens -> Trees]
         /\ receipts' \subseteq Tokens
         /\ refs' \in [Branch -> Commit \cup {NoCommit}]
<1>1. CASE ClaimStaging(i)
  <2>1. Token(i) \in Tokens
    BY <1>1, DefinedFacts DEF ClaimStaging, Defined, AtStep, InWorktree
  <2> QED BY <1>1, <2>1 DEF ClaimStaging, Receipted, Typing
<1>2. CASE Tidy(i)
  BY <1>2 DEF Tidy, Typing
<1>3. CASE AddWorktree(i)
  <2>1. Token(i) \in Tokens /\ Sha(i) \in Commit
    BY <1>3, DefinedFacts DEF AddWorktree, Defined, AtStep, InWorktree
  <2>2. Tree(NoOne, NoBranch, Sha(i)) \in Trees
    BY <2>1 DEF Tree, Trees
  <2> QED BY <1>3, <2>1, <2>2 DEF AddWorktree, Typing
<1>4. CASE Mark(i)
  <2>1. Token(i) \in Tokens
    BY <1>4, DefinedFacts DEF Mark, Defined, AtStep, InWorktree
  <2> QED BY <1>4, <2>1 DEF Mark, Typing, Trees
<1>5. CASE Checkout(i)
  <2>1. /\ Token(i) \in Tokens /\ Sha(i) \in Commit
        /\ Request(i).branch \in Branch /\ Request(i) \in Requests
    BY <1>5, DefinedFacts, OwnerFacts DEF Checkout, Defined, AtStep, InWorktree
  <2>2. PICK head : head = IF Ref(i) = NoCommit THEN Sha(i) ELSE Ref(i)
    OBVIOUS
  <2>3. head \in Commit /\ Tree(Token(i), Request(i).branch, head) \in Trees
    BY <2>1, <2>2 DEF Ref, Typing, Tree, Trees
  <2> QED BY <1>5, <2>1, <2>2, <2>3 DEF Checkout, Typing
<1>6. CASE Publish(i)
  <2>1. Token(i) \in Tokens /\ Request(i).path \in Path
    BY <1>6, DefinedFacts, OwnerFacts DEF Publish, Defined, AtStep, InWorktree
  <2>2. Staged(i) \in Trees
    BY <2>1 DEF Staged, Typing
  <2> QED BY <1>6, <2>1, <2>2, TreesTypes DEF Publish, Typing
<1> QED BY <1>1, <1>2, <1>3, <1>4, <1>5, <1>6, TargetKept, StagingKept, ReceiptsKept, RefsKept
    DEF Typing

LEMMA TypingStep ==
  ASSUME Typing, OwnerInv, LeaseInv, ProgressInv, [Next]_vars PROVE Typing'
<1>1. ASSUME NEW i \in Invocation, StepOf(i) PROVE Typing'
  <2>1. run' \in [Invocation -> Local]
    BY <1>1, RunSteps DEF Turns, RunTyping
  <2>2. holder' \in [Requests -> Invocation \cup {NoOne}]
    BY <1>1, HolderKept DEF Acquire, Complete, FailCreate, Typing
  <2>3. faults' \in 0 .. MaxFaults
    BY <1>1, FaultsKept, CreateAssumption DEF Typing
  <2> QED BY <1>1, <2>1, <2>2, <2>3, IntentsTyping, AggregatesTyping, JournalTyping, DiskTyping,
             SupersededKept, OthersKept DEF Typing
<1>2. CASE Others
  <2>1. CASE BaseMoves
    <3>1. base' \in Commit /\ meddled' \in 0 .. MaxMeddling
      BY <2>1, CreateAssumption DEF BaseMoves, Meddle, Typing
    <3>2. UNCHANGED <<intents, aggregates, journal, superseded, holder, run, target, staging,
                      receipts, refs, faults>>
      BY <2>1 DEF BaseMoves, Meddle, registry
    <3> QED BY <3>1, <3>2 DEF Typing
  <2>2. ASSUME NEW b \in Branch, BranchAppears(b) PROVE Typing'
    BY <2>2, CreateAssumption DEF BranchAppears, Meddle, registry, Typing
  <2>3. ASSUME NEW p \in Path, TargetAppears(p) \/ TargetRemoved(p) PROVE Typing'
    <3>1. target' \in [Path -> Trees]
      BY <2>3, TreesTypes DEF TargetAppears, TargetRemoved, Typing
    <3>2. meddled' \in 0 .. MaxMeddling
      BY <2>3, CreateAssumption DEF TargetAppears, TargetRemoved, Meddle, Typing
    <3> QED BY <2>3, <3>1, <3>2 DEF TargetAppears, TargetRemoved, Meddle, registry, Typing
  <2>4. ASSUME NEW r \in Requests, NEW s \in Service, ServiceDrifts(r, s) PROVE Typing'
    BY <2>4, CreateAssumption DEF ServiceDrifts, Meddle, registry, Typing
  <2>5. ASSUME NEW r \in Requests, Supersede(r) PROVE Typing'
    <3>1. journal' \in [Requests -> Journal]
      <4>1. PICK steps \in Seq(JournalStep) : journal' = [journal EXCEPT ![r].steps = steps]
        <5>1. journal[r].steps \in Seq(JournalStep)
          BY DEF Typing, Journal
        <5> QED BY <2>5, <5>1, SettledTypes DEF Supersede
      <4> QED BY <4>1 DEF Typing, Journal
    <3>2. target' \in [Path -> Trees]
      BY <2>5, TreesTypes DEF Supersede, Typing
    <3>3. superseded' \subseteq Requests /\ holder' \in [Requests -> Invocation \cup {NoOne}]
      BY <2>5 DEF Supersede, Typing
    <3>4. meddled' \in 0 .. MaxMeddling
      BY <2>5, CreateAssumption DEF Supersede, Meddle, Typing
    <3> QED BY <2>5, <3>1, <3>2, <3>3, <3>4 DEF Supersede, Meddle, Typing
  <2> QED BY <1>2, <2>1, <2>2, <2>3, <2>4, <2>5 DEF Others
<1>3. CASE UNCHANGED vars
  BY <1>3 DEF vars, Typing
<1> QED BY <1>1, <1>2, <1>3, WhoSteps

-----------------------------------------------------------------------------
(* The records of a request agree.                                         *)
LEMMA RecordsKept ==
  ASSUME NEW i \in Invocation, StepOf(i), ~Acquire(i), ~Resolve(i), ~Enrich(i),
         ~RecordDefinition(i), ~StartStep(i), ~Record(i), ~Complete(i), ~FailCreate(i),
         \A r \in Requests : ~BeginIntent(i, r)
  PROVE  intents' = intents /\ aggregates' = aggregates /\ journal' = journal
BY IntentsKept, AggregatesKept, JournalKept

(* Steps of the journal may change, but neither its status nor the others. *)
LEMMA AgreeKept ==
  ASSUME NEW r \in Requests, Agree(r),
         intents'[r].status = intents[r].status, journal'[r].status = journal[r].status,
         aggregates'[r] = aggregates[r]
  PROVE  Agree(r)'
BY DEF Agree

LEMMA AgreeStep ==
  ASSUME Typing, RecordsInv, OwnerInv, LeaseInv, ProgressInv,
         NEW i \in Invocation, StepOf(i), NEW r \in Requests
  PROVE  Agree(r)'
<1>0. /\ intents[r] \in Intent /\ aggregates[r] \in Aggregate /\ journal[r] \in Journal
      /\ Agree(r) /\ Definite(r)
  BY DEF Typing, RecordsInv
<1>1. ASSUME NEW q \in Requests, BeginIntent(i, q) PROVE Agree(r)'
  <2>1. /\ intents' = [intents EXCEPT ![q].status = "preparing"]
        /\ journal' = [journal EXCEPT ![q].status = "running"]
        /\ aggregates' = aggregates /\ intents[q].status = "none"
    BY <1>1 DEF BeginIntent, MayBegin, Known, registry
  <2>2. CASE r = q
    <3>1. intents'[r].status = "preparing" /\ journal'[r].status = "running"
      BY <2>1, <2>2 DEF Typing, Intent, Journal
    <3>2. aggregates[r].state = "none" /\ ~aggregates[r].completed
      BY <1>0, <2>1, <2>2 DEF Agree, Definite
    <3> QED BY <1>0, <2>1, <3>1, <3>2 DEF Agree, Told
  <2>3. CASE r # q
    BY <1>0, <2>1, <2>3, AgreeKept DEF Typing
  <2> QED BY <2>2, <2>3
<1>2. CASE Acquire(i)
  <2>1. Request(i) \in Requests
    BY <1>2, Asked DEF Acquire
  <2>2. PICK steps :
           /\ journal' = [journal EXCEPT ![Request(i)] = [status |-> "running", steps |-> steps]]
           /\ intents' = [intents EXCEPT ![Request(i)].status = "creating"]
           /\ aggregates' = [aggregates EXCEPT ![Request(i)].state =
                               IF @ = "none" THEN @ ELSE "creating"]
           /\ intents[Request(i)].status # "completed"
    BY <1>2 DEF Acquire, MayResume
  <2>3. CASE r = Request(i)
    <3>1. /\ intents'[r].status = "creating" /\ journal'[r].status = "running"
          /\ aggregates'[r] = [aggregates[r] EXCEPT !.state =
                                  IF aggregates[r].state = "none" THEN "none" ELSE "creating"]
      BY <2>1, <2>2, <2>3 DEF Typing, Intent, Journal
    <3> QED BY <1>0, <2>2, <2>3, <3>1 DEF Agree, Told, Aggregate
  <2>4. CASE r # Request(i)
    BY <1>0, <2>2, <2>4, AgreeKept DEF Typing
  <2> QED BY <2>3, <2>4
<1>3. CASE Resolve(i) \/ Enrich(i) \/ Record(i)
  <2>1. aggregates' = aggregates
    BY <1>3 DEF Resolve, Enrich, Record
  <2>2. intents'[r].status = intents[r].status
    BY <1>0, <1>3 DEF Resolve, Enrich, Record, Typing, Intent
  <2>3. journal'[r].status = journal[r].status
    <3>1. CASE Resolve(i)
      BY <3>1 DEF Resolve
    <3>2. CASE Enrich(i)
      <4>1. PICK steps : \/ journal' = journal
                         \/ journal' = [journal EXCEPT ![Request(i)].steps = steps]
        BY <3>2 DEF Enrich
      <4>2. journal'[r] = journal[r] \/ journal'[r] = [journal[r] EXCEPT !.steps = steps]
        BY <4>1 DEF Typing
      <4> QED BY <1>0, <4>2 DEF Journal
    <3>3. CASE Record(i)
      BY <1>0, <3>3 DEF Record, Typing, Journal
    <3> QED BY <1>3, <3>1, <3>2, <3>3
  <2> QED BY <1>0, <2>1, <2>2, <2>3, AgreeKept
<1>4. CASE RecordDefinition(i)
  <2>1. /\ intents' = intents /\ journal' = journal /\ intents[Request(i)].status = "creating"
        /\ Request(i) \in Requests
    BY <1>4, OwnerFacts DEF RecordDefinition, Owning
  <2>2. \/ aggregates' = aggregates
        \/ aggregates' = [aggregates EXCEPT ![Request(i)] =
                             [@ EXCEPT !.definition = run[i].resolved, !.state = "creating"]]
    BY <1>4 DEF RecordDefinition
  <2>3. run[i].resolved # Unresolved
    BY <1>4 DEF RecordDefinition, ProgressInv, Progress
  <2>4. CASE r = Request(i) /\ aggregates' # aggregates
    <3>1. aggregates'[r] = [aggregates[r] EXCEPT !.definition = run[i].resolved,
                                                 !.state = "creating"]
      BY <2>1, <2>2, <2>4 DEF Typing
    <3> QED BY <1>0, <2>1, <2>3, <2>4, <3>1 DEF Agree, Aggregate
  <2>5. CASE r # Request(i) \/ aggregates' = aggregates
    <3>1. aggregates'[r] = aggregates[r]
      BY <2>2, <2>5 DEF Typing
    <3> QED BY <1>0, <2>1, <3>1, AgreeKept
  <2> QED BY <2>4, <2>5
<1>5. CASE StartStep(i)
  <2>1. /\ intents' = intents /\ intents[Request(i)].status = "creating"
        /\ Request(i) \in Requests
    BY <1>5, OwnerFacts DEF StartStep, Owning
  <2>2. journal'[r].status = journal[r].status
    BY <1>0, <1>5 DEF StartStep, Typing, Journal
  <2>3. aggregates[Request(i)].definition # Unresolved
    BY <1>5 DEF StartStep, ProgressInv, Progress, Defined
  <2>4. \/ aggregates' = aggregates
        \/ aggregates' = [aggregates EXCEPT ![Request(i)].state = "starting"]
    BY <1>5 DEF StartStep
  <2>5. CASE r = Request(i) /\ aggregates' # aggregates
    <3>1. aggregates'[r] = [aggregates[r] EXCEPT !.state = "starting"]
      BY <2>1, <2>4, <2>5 DEF Typing
    <3> QED BY <1>0, <2>1, <2>2, <2>3, <2>5, <3>1 DEF Agree, Aggregate
  <2>6. CASE r # Request(i) \/ aggregates' = aggregates
    <3>1. aggregates'[r] = aggregates[r]
      BY <2>4, <2>6 DEF Typing
    <3> QED BY <1>0, <2>1, <2>2, <3>1, AgreeKept
  <2> QED BY <2>5, <2>6
<1>6. CASE Complete(i)
  <2>1. /\ Request(i) \in Requests
        /\ intents' = [intents EXCEPT ![Request(i)].status = "completed"]
        /\ journal' = [journal EXCEPT ![Request(i)].status = "completed"]
        /\ aggregates' = [aggregates EXCEPT ![Request(i)] =
              [@ EXCEPT !.state = CreatedState(Request(i).start), !.completed = TRUE]]
    BY <1>6, Asked DEF Complete
  <2>2. aggregates[Request(i)].definition # Unresolved
    BY <1>6 DEF Complete, ProgressInv, Progress, Defined
  <2>3. CASE r = Request(i)
    <3>1. /\ intents'[r].status = "completed" /\ journal'[r].status = "completed"
          /\ aggregates'[r] = [aggregates[r] EXCEPT !.state = CreatedState(r.start),
                                                    !.completed = TRUE]
      BY <2>1, <2>3 DEF Typing, Intent, Journal
    <3> QED BY <1>0, <2>2, <2>3, <3>1 DEF Agree, Told, Aggregate, CreatedState
  <2>4. CASE r # Request(i)
    BY <1>0, <2>1, <2>4, AgreeKept DEF Typing
  <2> QED BY <2>3, <2>4
<1>7. CASE FailCreate(i)
  <2>1. Request(i) \in Requests /\ intents[Request(i)].status = "creating"
    BY <1>7, OwnerFacts DEF FailCreate, Owning
  <2>2. PICK steps :
           /\ journal' = [journal EXCEPT ![Request(i)] = [status |-> "failed", steps |-> steps]]
           /\ intents' = [intents EXCEPT ![Request(i)].status = "create_failed"]
           /\ aggregates' = [aggregates EXCEPT ![Request(i)].state = FailedState(Request(i))]
    BY <1>7 DEF FailCreate
  <2>3. CASE r = Request(i)
    <3>1. /\ intents'[r].status = "create_failed" /\ journal'[r].status = "failed"
          /\ aggregates'[r] = [aggregates[r] EXCEPT !.state =
                IF aggregates[r].state = "none" THEN "none" ELSE "create_failed"]
      BY <2>1, <2>2, <2>3 DEF Typing, Intent, Journal, FailedState
    <3> QED BY <1>0, <2>1, <2>3, <3>1 DEF Agree, Told, Aggregate
  <2>4. CASE r # Request(i)
    BY <1>0, <2>2, <2>4, AgreeKept DEF Typing
  <2> QED BY <2>3, <2>4
<1> QED BY <1>0, <1>1, <1>2, <1>3, <1>4, <1>5, <1>6, <1>7, RecordsKept, AgreeKept

LEMMA DefiniteStep ==
  ASSUME Typing, RecordsInv, OwnerInv, LeaseInv, ProgressInv,
         NEW i \in Invocation, StepOf(i), NEW r \in Requests
  PROVE  Definite(r)'
<1>0. /\ intents[r] \in Intent /\ aggregates[r] \in Aggregate /\ Definite(r)
  BY DEF Typing, RecordsInv
<1>1. ASSUME NEW q \in Requests, BeginIntent(i, q) PROVE Definite(r)'
  <2>1. intents' = [intents EXCEPT ![q].status = "preparing"] /\ aggregates' = aggregates
    BY <1>1 DEF BeginIntent
  <2> QED BY <1>0, <2>1 DEF Definite, Typing, Intent
<1>2. CASE Acquire(i) \/ Complete(i) \/ FailCreate(i) \/ StartStep(i) \/ Record(i)
  <2>1. Request(i) \in Requests
    BY <1>2, Asked DEF Acquire, Complete, FailCreate, StartStep, Record
  <2>2. PICK status \in Status \ {"none"} :
           \/ intents' = [intents EXCEPT ![Request(i)].status = status]
           \/ intents' = intents
    <3>1. CASE Acquire(i)
      BY <3>1 DEF Acquire, Status
    <3>2. CASE Complete(i)
      BY <3>2 DEF Complete, Status
    <3>3. CASE FailCreate(i)
      BY <3>3 DEF FailCreate, Status
    <3>4. CASE StartStep(i) \/ Record(i)
      <4>1. intents' = intents /\ "completed" \in Status \ {"none"}
        BY <3>4 DEF StartStep, Record, Status
      <4> QED BY <4>1
    <3> QED BY <1>2, <3>1, <3>2, <3>3, <3>4
  <2>3. aggregates'[r].definition = aggregates[r].definition
    <3>1. CASE Acquire(i)
      <4>1. PICK state : \/ aggregates'[r] = aggregates[r]
                         \/ aggregates'[r] = [aggregates[r] EXCEPT !.state = state]
        BY <2>1, <3>1 DEF Acquire, Typing
      <4> QED BY <1>0, <4>1 DEF Aggregate
    <3>2. CASE Complete(i)
      <4>1. \/ aggregates'[r] = aggregates[r]
            \/ aggregates'[r] = [aggregates[r] EXCEPT !.state = CreatedState(Request(i).start),
                                                      !.completed = TRUE]
        BY <3>2 DEF Complete, Typing
      <4> QED BY <1>0, <4>1 DEF Aggregate
    <3>3. CASE FailCreate(i)
      BY <1>0, <3>3 DEF FailCreate, Typing, Aggregate
    <3>4. CASE StartStep(i) \/ Record(i)
      BY <1>0, <3>4 DEF StartStep, Record, Typing, Aggregate
    <3> QED BY <1>2, <3>1, <3>2, <3>3, <3>4
  <2>4. intents'[r].resolved = intents[r].resolved /\ intents'[r].sha = intents[r].sha
    BY <1>0, <2>1, <2>2 DEF Typing, Intent
  <2>5. intents'[r].status = "none" => intents[r].status = "none"
    BY <1>0, <2>1, <2>2 DEF Typing, Intent
  <2> QED BY <1>0, <2>3, <2>4, <2>5 DEF Definite
<1>3. CASE Resolve(i)
  <2>1. /\ Request(i) \in Requests /\ aggregates' = aggregates
        /\ intents' = [intents EXCEPT ![Request(i)].sha = Resolution(Request(i))]
    BY <1>3, Asked DEF Resolve
  <2>2. CASE intents[r].resolved = Unresolved
    BY <1>0, <2>1, <2>2 DEF Definite, Typing, Intent
  <2>3. CASE intents[r].resolved # Unresolved
    <3>1. intents[r].sha # NoCommit
      BY <1>0, <2>3, ResolvedSha DEF Definite, Intent
    <3>2. intents'[r] = intents[r]
      BY <1>0, <2>1, <3>1 DEF Resolution, Typing, Intent
    <3> QED BY <1>0, <2>1, <3>2 DEF Definite
  <2> QED BY <2>2, <2>3
<1>4. CASE Enrich(i)
  <2>1. /\ Request(i) \in Requests /\ aggregates' = aggregates /\ Known(Request(i))
        /\ \/ intents' = intents
           \/ /\ intents' = [intents EXCEPT ![Request(i)].resolved = run[i].resolved]
              /\ intents[Request(i)].resolved = Unresolved
    BY <1>4, Asked DEF Enrich
  <2>2. /\ Sha(i) = intents[Request(i)].sha /\ Token(i) = <<i, Request(i)>>
    BY <1>4 DEF Enrich, ProgressInv, Progress
  <2>3. CASE r = Request(i) /\ intents' # intents
    <3>1. intents'[r] = [intents[r] EXCEPT !.resolved = run[i].resolved]
      BY <2>1, <2>3 DEF Typing
    <3>2. intents'[r].status # "none" /\ intents'[r].sha = intents[r].sha
          /\ intents'[r].resolved = run[i].resolved
      BY <1>0, <2>1, <2>3, <3>1 DEF Intent, Known
    <3>3. aggregates[r].definition = Unresolved
      BY <1>0, <2>1, <2>3 DEF Definite
    <3> QED BY <2>1, <2>2, <2>3, <3>2, <3>3 DEF Definite, Sha, Token
  <2>4. CASE r # Request(i) \/ intents' = intents
    <3>1. intents'[r] = intents[r]
      BY <2>1, <2>4 DEF Typing
    <3> QED BY <1>0, <2>1, <3>1 DEF Definite
  <2> QED BY <2>3, <2>4
<1>5. CASE RecordDefinition(i)
  <2>1. /\ Request(i) \in Requests /\ intents' = intents
        /\ \/ aggregates' = aggregates
           \/ aggregates' = [aggregates EXCEPT ![Request(i)] =
                               [@ EXCEPT !.definition = run[i].resolved, !.state = "creating"]]
    BY <1>5, Asked DEF RecordDefinition
  <2>2. run[i].resolved = intents[Request(i)].resolved
    BY <1>5 DEF RecordDefinition, ProgressInv, Progress
  <2>3. \/ aggregates'[r].definition = aggregates[r].definition
        \/ aggregates'[r].definition = intents[r].resolved
    <3>1. \/ aggregates'[r] = aggregates[r]
          \/ r = Request(i) /\ aggregates'[r] =
                 [aggregates[r] EXCEPT !.definition = run[i].resolved, !.state = "creating"]
      BY <2>1 DEF Typing
    <3> QED BY <1>0, <2>2, <3>1 DEF Aggregate
  <2> QED BY <1>0, <2>1, <2>3 DEF Definite
<1> QED BY <1>0, <1>1, <1>2, <1>3, <1>4, <1>5, RecordsKept DEF Definite

LEMMA RecordsInvStep ==
  ASSUME Typing, RecordsInv, OwnerInv, LeaseInv, ProgressInv, [Next]_vars PROVE RecordsInv'
<1>1. ASSUME NEW i \in Invocation, StepOf(i) PROVE RecordsInv'
  BY <1>1, AgreeStep, DefiniteStep DEF RecordsInv
<1>2. CASE Others
  <2>1. intents' = intents /\ aggregates' = aggregates
    BY <1>2 DEF Others, BaseMoves, BranchAppears, TargetAppears, TargetRemoved, ServiceDrifts,
                Supersede, registry
  <2>2. \A r \in Requests : journal'[r].status = journal[r].status
    <3>1. CASE journal' = journal
      BY <3>1
    <3>2. ASSUME NEW q \in Requests, Supersede(q)
          PROVE  \A r \in Requests : journal'[r].status = journal[r].status
      <4>1. PICK steps : journal' = [journal EXCEPT ![q].steps = steps]
        BY <3>2 DEF Supersede
      <4> QED BY <4>1 DEF Typing, Journal
    <3> QED BY <1>2, <3>1, <3>2 DEF Others, BaseMoves, BranchAppears, TargetAppears,
               TargetRemoved, ServiceDrifts, registry
  <2> QED BY <2>1, <2>2, AgreeKept DEF RecordsInv, Definite
<1>3. CASE UNCHANGED vars
  BY <1>3, AgreeKept DEF vars, RecordsInv, Definite
<1> QED BY <1>1, <1>2, <1>3, WhoSteps

LEMMA KnownStays ==
  ASSUME Typing, OwnerInv, [Next]_vars, NEW r \in Requests, Known(r)
  PROVE  Known(r)'
<1>1. ASSUME NEW i \in Invocation, StepOf(i) PROVE Known(r)'
  <2>1. ASSUME NEW q \in Requests, BeginIntent(i, q) PROVE Known(r)'
    BY <2>1 DEF BeginIntent, Known, Typing, Intent
  <2>2. CASE Acquire(i) \/ Complete(i) \/ FailCreate(i)
    <3>1. PICK status \in Status \ {"none"} :
             intents' = [intents EXCEPT ![Request(i)].status = status]
      BY <2>2 DEF Acquire, Complete, FailCreate, Status
    <3> QED BY <3>1 DEF Known, Typing, Intent
  <2>3. CASE Resolve(i) \/ Enrich(i)
    BY <2>3 DEF Resolve, Enrich, Known, Typing, Intent
  <2> QED BY <1>1, <2>1, <2>2, <2>3, IntentsKept DEF Known
<1>2. CASE Others \/ UNCHANGED vars
  BY <1>2 DEF Others, BaseMoves, BranchAppears, TargetAppears, TargetRemoved, ServiceDrifts,
              Supersede, registry, vars, Known
<1> QED BY <1>1, <1>2, WhoSteps

(* Only begin_create_intent makes a request known.                         *)
LEMMA BecomesKnown ==
  ASSUME Typing, OwnerInv, [Next]_vars, NEW r \in Requests, ~Known(r), Known(r)'
  PROVE  MayBegin(r) /\ \A q \in Requests \ {r} : intents'[q] = intents[q]
<1>1. ASSUME NEW i \in Invocation, StepOf(i)
      PROVE  MayBegin(r) /\ \A q \in Requests \ {r} : intents'[q] = intents[q]
  <2>1. ASSUME NEW q \in Requests, BeginIntent(i, q) PROVE q = r
    BY <2>1 DEF BeginIntent, Known, Typing, Intent
  <2>2. BeginIntent(i, r) =>
           MayBegin(r) /\ \A q \in Requests \ {r} : intents'[q] = intents[q]
    BY DEF BeginIntent, Typing
  <2>3. ASSUME Acquire(i) \/ Complete(i) \/ FailCreate(i) PROVE FALSE
    <3>1. Request(i) \in Requests /\ Known(Request(i))
      BY <2>3, Asked DEF Acquire, Complete, FailCreate
    <3> QED BY <2>3, <3>1 DEF Acquire, Complete, FailCreate, Known, Typing, Intent
  <2>4. ASSUME Resolve(i) \/ Enrich(i) PROVE FALSE
    BY <2>4 DEF Resolve, Enrich, Known, Typing, Intent
  <2> QED BY <1>1, <2>1, <2>2, <2>3, <2>4, IntentsKept DEF Known
<1>2. ASSUME Others \/ UNCHANGED vars PROVE FALSE
  BY <1>2 DEF Others, BaseMoves, BranchAppears, TargetAppears, TargetRemoved, ServiceDrifts,
              Supersede, registry, vars, Known
<1> QED BY <1>1, <1>2, WhoSteps

LEMMA PathsInvStep ==
  ASSUME Typing, OwnerInv, PathsInv, [Next]_vars PROVE PathsInv'
<1> SUFFICES ASSUME NEW q \in Requests, NEW r \in Requests, Known(q)', Known(r)',
                    q.path = r.path
             PROVE  q = r
  BY DEF PathsInv
<1>1. CASE Known(q) /\ Known(r)
  BY <1>1 DEF PathsInv
<1>2. CASE ~Known(r)
  BY <1>2, BecomesKnown DEF MayBegin, PathTaken, Known
<1>3. CASE ~Known(q)
  BY <1>3, BecomesKnown DEF MayBegin, PathTaken, Known
<1> QED BY <1>1, <1>2, <1>3

(* What has been resolved stays.                                           *)
LEMMA ResolutionStays ==
  ASSUME Typing, OwnerInv, [Next]_vars, NEW r \in Requests
  PROVE  /\ intents[r].sha # NoCommit => intents'[r].sha = intents[r].sha
         /\ intents[r].resolved # Unresolved => intents'[r].resolved = intents[r].resolved
<1>0. intents[r] \in Intent
  BY DEF Typing
<1>1. ASSUME NEW i \in Invocation, StepOf(i)
      PROVE  /\ intents[r].sha # NoCommit => intents'[r].sha = intents[r].sha
             /\ intents[r].resolved # Unresolved => intents'[r].resolved = intents[r].resolved
  <2>1. ASSUME NEW q \in Requests, NEW status, intents' = [intents EXCEPT ![q].status = status]
        PROVE  intents'[r].sha = intents[r].sha /\ intents'[r].resolved = intents[r].resolved
    BY <1>0, <2>1 DEF Typing, Intent
  <2>2. ASSUME NEW q \in Requests, BeginIntent(i, q)
        PROVE  intents'[r].sha = intents[r].sha /\ intents'[r].resolved = intents[r].resolved
    BY <2>1, <2>2 DEF BeginIntent
  <2>3. CASE Acquire(i) \/ Complete(i) \/ FailCreate(i)
    <3>1. Request(i) \in Requests
      BY <2>3, Asked DEF Acquire, Complete, FailCreate
    <3> QED BY <2>1, <2>3, <3>1 DEF Acquire, Complete, FailCreate
  <2>4. CASE Resolve(i)
    BY <1>0, <2>4, Asked DEF Resolve, Resolution, Typing, Intent
  <2>5. CASE Enrich(i)
    BY <1>0, <2>5, Asked DEF Enrich, Typing, Intent
  <2> QED BY <1>1, <2>2, <2>3, <2>4, <2>5, IntentsKept
<1>2. CASE Others \/ UNCHANGED vars
  BY <1>2 DEF Others, BaseMoves, BranchAppears, TargetAppears, TargetRemoved, ServiceDrifts,
              Supersede, registry, vars
<1> QED BY <1>1, <1>2, WhoSteps

LEMMA DefinitionStays ==
  ASSUME Typing, OwnerInv, [Next]_vars, NEW r \in Requests,
         aggregates[r].definition # Unresolved
  PROVE  aggregates'[r].definition = aggregates[r].definition
<1>0. aggregates[r] \in Aggregate
  BY DEF Typing
<1>1. ASSUME NEW i \in Invocation, StepOf(i)
      PROVE  aggregates'[r].definition = aggregates[r].definition
  <2>1. CASE Acquire(i)
    <3>1. PICK state : \/ aggregates'[r] = aggregates[r]
                       \/ aggregates'[r] = [aggregates[r] EXCEPT !.state = state]
      BY <2>1, Asked DEF Acquire, Typing
    <3> QED BY <1>0, <3>1 DEF Aggregate
  <2>2. CASE Complete(i)
    <3>1. \/ aggregates'[r] = aggregates[r]
          \/ aggregates'[r] = [aggregates[r] EXCEPT !.state = CreatedState(Request(i).start),
                                                    !.completed = TRUE]
      BY <2>2 DEF Complete, Typing
    <3> QED BY <1>0, <3>1 DEF Aggregate
  <2>3. CASE FailCreate(i)
    BY <1>0, <2>3 DEF FailCreate, Typing, Aggregate
  <2>4. CASE StartStep(i)
    BY <1>0, <2>4 DEF StartStep, Typing, Aggregate
  <2>5. CASE RecordDefinition(i)
    BY <2>5 DEF RecordDefinition, Typing
  <2> QED BY <1>1, <2>1, <2>2, <2>3, <2>4, <2>5, AggregatesKept
<1>2. CASE Others \/ UNCHANGED vars
  BY <1>2 DEF Others, BaseMoves, BranchAppears, TargetAppears, TargetRemoved, ServiceDrifts,
              Supersede, registry, vars
<1> QED BY <1>1, <1>2, WhoSteps

-----------------------------------------------------------------------------
(* An attempt with the lease is alone with its request.                    *)
LEMMA Alone ==
  ASSUME Typing, LeaseInv, OwnerInv, NEW i \in Invocation, NEW j \in Invocation \ {i},
         run[j].stage \in Owning
  PROVE  /\ run[i].stage \in Owning => Request(i) # Request(j)
         /\ Acquire(i) => Request(i) # Request(j)
         /\ \A r \in Requests : BeginIntent(i, r) => r # Request(j)
<1>1. holder[Request(j)] = j /\ Known(Request(j)) /\ Request(j) \in Requests
  BY OwnerFacts
<1>2. run[i].stage \in Owning => holder[Request(i)] = i
  BY DEF OwnerInv
<1>3. ~Available(Request(j))
  BY <1>1, CreateAssumption DEF Available, Owning, InWorktree
<1> QED BY <1>1, <1>2, <1>3 DEF Acquire, MayResume, BeginIntent, MayBegin

LEMMA RecordsElsewhere ==
  ASSUME Typing, OwnerInv, NEW i \in Invocation, StepOf(i), NEW r \in Requests,
         run[i].stage \in Owning => Request(i) # r,
         Acquire(i) => Request(i) # r,
         ~BeginIntent(i, r)
  PROVE  /\ intents'[r] = intents[r] /\ aggregates'[r] = aggregates[r]
         /\ journal'[r] = journal[r] /\ holder'[r] = holder[r]
<1>1. ASSUME NEW q \in Requests, BeginIntent(i, q)
      PROVE  /\ intents'[r] = intents[r] /\ aggregates'[r] = aggregates[r]
             /\ journal'[r] = journal[r] /\ holder'[r] = holder[r]
  BY <1>1 DEF BeginIntent, Typing
<1>2. CASE Acquire(i)
  BY <1>2 DEF Acquire, Typing
<1>3. CASE Resolve(i) \/ Enrich(i) \/ Record(i)
  BY <1>3 DEF Resolve, Enrich, Record, Typing, Owning
<1>4. CASE RecordDefinition(i) \/ StartStep(i)
  BY <1>4 DEF RecordDefinition, StartStep, Typing, Owning
<1>5. CASE Complete(i) \/ FailCreate(i)
  BY <1>5 DEF Complete, FailCreate, Typing, Owning
<1> QED BY <1>1, <1>2, <1>3, <1>4, <1>5, RecordsKept, HolderKept

LEMMA OwningReached ==
  ASSUME Typing, OwnerInv, ProgressInv, NEW i \in Invocation, StepOf(i)
  PROVE  /\ run'[i].stage \in Owning =>
               Acquire(i) \/ (run[i].stage \in Owning /\ run'[i].request = run[i].request)
         /\ run[i].stage \in Owning =>
               /\ run'[i].stage \in Owning \cup {"gone"} \/ Complete(i) \/ FailCreate(i)
               /\ run'[i].stage \in Owning \cup {"gone"} => run'[i].request = run[i].request
<1>1. Turns(i) /\ Reaches(i)
  BY RunSteps
<1>2. run'[i].stage \in Stage
  BY <1>1 DEF Turns, RunTyping, Local
<1>3. Joins(i) => run[i].stage = "idle" /\ run'[i].stage = "begun"
  <2>1. ASSUME NEW r \in Requests, NEW intent, Join(i, r, intent) PROVE run'[i].stage = "begun"
    BY <2>1 DEF Join, Typing, Idle
  <2> QED BY <2>1 DEF Joins, BeginIntent, FindIntent
<1>4. Resolve(i) \/ Enrich(i) \/ UseResolved(i) \/ RecordDefinition(i) \/ StartStep(i)
      \/ Record(i) \/ ClaimStaging(i) \/ ContinueStaging(i) \/ AddWorktree(i) \/ Mark(i)
      \/ Checkout(i) \/ AdoptTarget(i) \/ Publish(i) \/ Tidy(i) \/ Inspect(i)
      \/ ServiceStep(i) \/ Observe(i) \/ Vanish(i) => run[i].stage \in Owning
  BY DEF Resolve, Enrich, UseResolved, RecordDefinition, StartStep, Record, ClaimStaging,
         ContinueStaging, AddWorktree, Mark, Checkout, AdoptTarget, Publish, Tidy, Inspect,
         ServiceStep, Observe, Vanish, Owning, InWorktree
<1>5. TurnedAway(i) \/ ReturnCompleted(i) => run[i].stage = "begun"
  BY DEF TurnedAway, ReturnCompleted
<1>6. "idle" \notin Owning /\ "begun" \notin Owning
  BY DEF Owning, InWorktree
<1>7. ASSUME run'[i].stage \in Owning
      PROVE  Acquire(i) \/ (run[i].stage \in Owning /\ run'[i].request = run[i].request)
  <2>1. Acquire(i) \/ run[i].stage \in Owning
    BY <1>1, <1>4, <1>7 DEF Reaches, Owning, InWorktree
  <2> QED BY <1>1, <1>3, <1>6, <1>7, <2>1 DEF Turns
<1>8. ASSUME run[i].stage \in Owning
      PROVE  /\ run'[i].stage \in Owning \cup {"gone"} \/ Complete(i) \/ FailCreate(i)
             /\ run'[i].stage \in Owning \cup {"gone"} => run'[i].request = run[i].request
  <2>1. ~Joins(i) /\ ~TurnedAway(i) /\ ~ReturnCompleted(i)
    BY <1>3, <1>5, <1>6, <1>8
  <2>2. run'[i].stage \in Owning \cup {"gone"} \/ Complete(i) \/ FailCreate(i)
    BY <1>1, <1>2, <2>1 DEF Reaches, Stage
  <2>3. "idle" \notin Owning \cup {"gone"}
    BY <1>6
  <2> QED BY <1>1, <2>1, <2>2, <2>3 DEF Turns
<1> QED BY <1>7, <1>8

LEMMA LeaseInvStep ==
  ASSUME Typing, OwnerInv, LeaseInv, ProgressInv, [Next]_vars PROVE LeaseInv'
<1>1. ASSUME NEW i \in Invocation, StepOf(i) PROVE LeaseInv'
  <2>0. Turns(i)
    BY <1>1, RunSteps
  <2>1. ASSUME NEW r \in Requests, holder'[r] # NoOne
        PROVE  /\ run'[holder'[r]].stage \in Owning \cup {"gone"}
               /\ run'[holder'[r]].request = r
               /\ intents'[r].status = "creating"
    <3>1. CASE Acquire(i) /\ r = Request(i)
      <4>1. holder'[r] = i /\ run'[i].stage = "leased" /\ run'[i].request = r
        BY <3>1, <2>1 DEF Acquire, To, Typing, Local, Request
      <4>2. intents'[r].status = "creating"
        BY <3>1, <2>1 DEF Acquire, Typing, Intent
      <4> QED BY <4>1, <4>2 DEF Owning
    <3>2. CASE ~(Acquire(i) /\ r = Request(i))
      <4>1. holder'[r] = holder[r] /\ holder[r] \in Invocation
        BY <2>1, <3>2, HolderKept, <1>1 DEF Acquire, Complete, FailCreate, Typing
      <4>2. /\ run[holder[r]].stage \in Owning \cup {"gone"}
            /\ Request(holder[r]) = r /\ intents[r].status = "creating"
        BY <2>1, <4>1 DEF LeaseInv
      <4>3. CASE holder[r] = i
        <5>1. run[i].stage \in Owning
          BY <2>0, <4>2, <4>3 DEF Turns
        <5>2. /\ ~Complete(i) /\ ~FailCreate(i) /\ ~Acquire(i)
              /\ \A q \in Requests : ~BeginIntent(i, q)
          BY <2>1, <4>1, <4>2, <4>3, <5>1
             DEF Complete, FailCreate, Acquire, BeginIntent, Owning, InWorktree, Typing
        <5>3. intents'[r].status = "creating"
          <6>1. CASE Resolve(i) \/ Enrich(i)
            BY <4>2, <2>1, <6>1 DEF Resolve, Enrich, Typing, Intent
          <6> QED BY <1>1, <4>2, <5>2, <6>1, IntentsKept
        <5> QED BY <1>1, <4>1, <4>2, <4>3, <5>1, <5>2, <5>3, OwningReached DEF Request
      <4>4. CASE holder[r] # i
        <5>1. run[i].stage \in Owning => Request(i) # r
          BY <4>4 DEF OwnerInv
        <5>2. ~BeginIntent(i, r)
          BY <4>2 DEF BeginIntent, MayBegin, Known
        <5>3. intents'[r] = intents[r]
          BY <1>1, <2>1, <3>2, <5>1, <5>2, RecordsElsewhere
        <5> QED BY <2>0, <4>1, <4>2, <4>4, <5>3 DEF Turns, Request
      <4> QED BY <4>3, <4>4
    <3> QED BY <3>1, <3>2
  <2>2. ASSUME NEW r \in superseded'
        PROVE  holder'[r] = NoOne /\ aggregates'[r].definition # Unresolved
    <3>1. r \in superseded /\ r \in Requests
      BY <1>1, SupersededKept DEF Typing
    <3>2. holder[r] = NoOne /\ aggregates[r].definition # Unresolved
      BY <3>1 DEF LeaseInv
    <3>3. run[i].stage \in Owning => Request(i) # r
      BY <3>1, OwnerFacts
    <3>4. Acquire(i) => Request(i) # r
      BY <3>1 DEF Acquire, MayResume
    <3>5. holder'[r] = holder[r]
      <4>1. CASE Acquire(i)
        BY <3>1, <3>4, <4>1 DEF Acquire, Typing
      <4>2. CASE Complete(i) \/ FailCreate(i)
        BY <3>1, <3>2, <4>2 DEF Complete, FailCreate, Typing
      <4> QED BY <1>1, <4>1, <4>2, HolderKept
    <3> QED BY <3>1, <3>2, <3>5, DefinitionStays
  <2> QED BY <2>1, <2>2 DEF LeaseInv, Request
<1>2. CASE Others
  <2>1. run' = run /\ intents' = intents /\ aggregates' = aggregates
    BY <1>2 DEF Others, BaseMoves, BranchAppears, TargetAppears, TargetRemoved, ServiceDrifts,
                Supersede, Meddle, registry
  <2>2. ASSUME NEW q \in Requests, Supersede(q) PROVE LeaseInv'
    <3>1. /\ holder' = [holder EXCEPT ![q] = NoOne] /\ superseded' = superseded \cup {q}
          /\ aggregates[q].definition # Unresolved
      BY <2>2 DEF Supersede
    <3> QED BY <2>1, <3>1 DEF LeaseInv, Request, Typing
  <2>3. CASE holder' = holder /\ superseded' = superseded
    BY <2>1, <2>3 DEF LeaseInv, Request
  <2> QED BY <1>2, <2>2, <2>3 DEF Others, BaseMoves, BranchAppears, TargetAppears,
             TargetRemoved, ServiceDrifts, registry
<1>3. CASE UNCHANGED vars
  BY <1>3 DEF vars, LeaseInv, Request
<1> QED BY <1>1, <1>2, <1>3, WhoSteps

LEMMA OwnerInvStep ==
  ASSUME Typing, OwnerInv, LeaseInv, ProgressInv, [Next]_vars PROVE OwnerInv'
<1>0. ASSUME NEW j \in Invocation, run'[j] = run[j],
             run[j].stage \in Owning => holder'[Request(j)] = holder[Request(j)]
      PROVE  /\ run'[j].stage # "idle" =>
                   /\ run'[j].request \in Requests /\ intents'[run'[j].request].status # "none"
                   /\ run'[j].snap.resolved \in {Unresolved, intents'[run'[j].request].resolved}
             /\ run'[j].stage \in Owning => holder'[run'[j].request] = j
  <2>1. run[j].stage # "idle" => /\ Request(j) \in Requests /\ Known(Request(j))
                                 /\ run[j].snap.resolved \in
                                       {Unresolved, intents[Request(j)].resolved}
    BY DEF OwnerInv
  <2>2. run[j].stage \in Owning => holder[Request(j)] = j
    BY DEF OwnerInv
  <2>3. ASSUME run[j].stage # "idle"
        PROVE  /\ Request(j) \in Requests /\ intents'[Request(j)].status # "none"
               /\ run[j].snap.resolved \in {Unresolved, intents'[Request(j)].resolved}
    <3>1. PICK r \in Requests : r = Request(j)
      BY <2>1, <2>3
    <3>2. intents'[r].status # "none"
      BY <2>1, <2>3, <3>1, KnownStays DEF Known
    <3>3. intents[r].resolved # Unresolved => intents'[r].resolved = intents[r].resolved
      BY ResolutionStays
    <3> QED BY <2>1, <2>3, <3>1, <3>2, <3>3
  <2> QED BY <1>0, <2>2, <2>3 DEF Request
<1>1. ASSUME NEW i \in Invocation, StepOf(i) PROVE OwnerInv'
  <2>0. Turns(i) /\ Reaches(i)
    BY <1>1, RunSteps
  <2>1. ASSUME NEW j \in Invocation \ {i}
        PROVE  /\ run'[j].stage # "idle" =>
                     /\ run'[j].request \in Requests /\ intents'[run'[j].request].status # "none"
                     /\ run'[j].snap.resolved \in
                           {Unresolved, intents'[run'[j].request].resolved}
               /\ run'[j].stage \in Owning => holder'[run'[j].request] = j
    <3>1. run[j].stage \in Owning => holder'[Request(j)] = holder[Request(j)]
      BY <1>1, Alone, RecordsElsewhere, OwnerFacts
    <3> QED BY <1>0, <2>0, <3>1 DEF Turns
  <2>2. run'[i].stage # "idle" =>
           /\ run'[i].request \in Requests /\ intents'[run'[i].request].status # "none"
           /\ run'[i].snap.resolved \in {Unresolved, intents'[run'[i].request].resolved}
    <3>1. ASSUME NEW r \in Requests, BeginIntent(i, r)
          PROVE  run'[i].request = r /\ intents'[r].status # "none" /\ run'[i].snap = intents'[r]
      BY <3>1 DEF BeginIntent, Join, Known, Typing, Idle, Intent
    <3>2. ASSUME NEW r \in Requests, FindIntent(i, r)
          PROVE  run'[i].request = r /\ intents'[r].status # "none" /\ run'[i].snap = intents'[r]
      BY <3>2 DEF FindIntent, Join, Known, Typing, Idle, registry
    <3>3. CASE ~Joins(i)
      <4>1. run[i].stage # "idle"
        BY <2>0, <3>3 DEF Turns
      <4>2. /\ Request(i) \in Requests /\ Known(Request(i))
            /\ run[i].snap.resolved \in {Unresolved, intents[Request(i)].resolved}
        BY <4>1 DEF OwnerInv
      <4>3. PICK r \in Requests : r = Request(i)
        BY <4>2
      <4>4. intents'[r].status # "none"
        BY <4>2, <4>3, KnownStays DEF Known
      <4>5. intents[r].resolved # Unresolved => intents'[r].resolved = intents[r].resolved
        BY ResolutionStays
      <4> QED BY <2>0, <3>3, <4>2, <4>3, <4>4, <4>5 DEF Turns, Request
    <3> QED BY <3>1, <3>2, <3>3 DEF Joins, Known
  <2>3. run'[i].stage \in Owning => holder'[run'[i].request] = i
    <3>1. CASE Acquire(i)
      BY <3>1, Asked DEF Acquire, To, Typing, Local, Request
    <3>2. CASE ~Acquire(i) /\ run'[i].stage \in Owning
      <4>1. run[i].stage \in Owning /\ run'[i].request = Request(i) /\ Request(i) \in Requests
        BY <1>1, <3>2, OwningReached, OwnerFacts DEF Request
      <4>2. ~Complete(i) /\ ~FailCreate(i)
        BY <3>2 DEF Complete, FailCreate, To, Typing, Local, Owning, InWorktree, Idle
      <4> QED BY <1>1, <3>2, <4>1, <4>2, HolderKept, OwnerFacts
    <3> QED BY <3>1, <3>2
  <2> QED BY <2>1, <2>2, <2>3 DEF OwnerInv, Request, Known
<1>2. CASE Others
  <2>1. run' = run
    BY <1>2 DEF Others, BaseMoves, BranchAppears, TargetAppears, TargetRemoved, ServiceDrifts,
                Supersede, Meddle
  <2>2. ASSUME NEW j \in Invocation, run[j].stage \in Owning
        PROVE  holder'[Request(j)] = holder[Request(j)]
    <3>1. ~Available(Request(j)) /\ Request(j) \in Requests
      BY <2>2, OwnerFacts, CreateAssumption DEF Available, Owning, InWorktree
    <3>2. ASSUME NEW q \in Requests, Supersede(q)
          PROVE  holder'[Request(j)] = holder[Request(j)]
      BY <3>1, <3>2 DEF Supersede, Typing
    <3> QED BY <1>2, <3>2 DEF Others, BaseMoves, BranchAppears, TargetAppears, TargetRemoved,
               ServiceDrifts
  <2> QED BY <1>0, <2>1, <2>2 DEF OwnerInv, Request, Known
<1>3. CASE UNCHANGED vars
  BY <1>3 DEF vars, OwnerInv, Request, Known
<1> QED BY <1>1, <1>2, <1>3, WhoSteps

(* What an attempt knows of its request stays true while it has the lease. *)
LEMMA ProgressKept ==
  ASSUME NEW i \in Invocation, Progress(i), run'[i] = run[i],
         run[i].stage \in Defined \cup {"resolved", "enriched"} =>
            /\ intents'[Request(i)] = intents[Request(i)]
            /\ aggregates'[Request(i)] = aggregates[Request(i)]
            /\ journal'[Request(i)] = journal[Request(i)]
  PROVE  Progress(i)'
BY DEF Progress, Request, Token, Sha, Steps, Defined

LEMMA ProgressStep ==
  ASSUME Typing, RecordsInv, OwnerInv, LeaseInv, ProgressInv, NEW i \in Invocation, StepOf(i)
  PROVE  Progress(i)'
<1>0. /\ Turns(i) /\ Reaches(i) /\ Progress(i)
      /\ run'[i].stage \in Owning =>
            Acquire(i) \/ (run[i].stage \in Owning /\ run'[i].request = run[i].request)
  BY RunSteps, OwningReached DEF ProgressInv
<1>1. CASE Resolve(i)
  <2>1. Request(i) \in Requests /\ run[i] \in Local
    BY <1>1, Asked DEF Resolve, Typing
  <2>2. Resolution(Request(i)) \in Commit
    BY <2>1 DEF Resolution, Typing, Intent
  <2>3. /\ run'[i].stage = "resolved" /\ run'[i].request = Request(i)
        /\ run'[i].resolved = [sha |-> Resolution(Request(i)), token |-> <<i, Request(i)>>]
    BY <1>1, <2>1 DEF Resolve, Typing, Local, Request
  <2>4. intents'[Request(i)].sha = Resolution(Request(i))
    BY <1>1, <2>1 DEF Resolve, Typing, Intent
  <2>5. run'[i].resolved # Unresolved
    BY <2>2, <2>3, CreateAssumption DEF Unresolved
  <2> QED BY <2>3, <2>4, <2>5
         DEF Progress, Request, Sha, Token, Defined, AtStep, InWorktree
<1>2. CASE Enrich(i) \/ UseResolved(i)
  <2>1. Request(i) \in Requests /\ run[i] \in Local
    BY <1>2, Asked DEF Enrich, UseResolved, Typing
  <2>2. run'[i].stage = "enriched" /\ run'[i].request = Request(i)
    BY <1>2, <2>1 DEF Enrich, UseResolved, To, Typing, Local, Request
  <2>3. run'[i].resolved # Unresolved /\ run'[i].resolved = intents'[Request(i)].resolved
    <3>1. CASE UseResolved(i)
      <4>1. run[i].snap.resolved \in {Unresolved, intents[Request(i)].resolved}
        BY <3>1 DEF UseResolved, OwnerInv
      <4> QED BY <2>1, <3>1, <4>1 DEF UseResolved, Typing, Local, registry
    <3>2. CASE Enrich(i) /\ intents[Request(i)].resolved # Unresolved
      BY <2>1, <3>2 DEF Enrich, Typing, Local
    <3>3. CASE Enrich(i) /\ intents[Request(i)].resolved = Unresolved
      <4>1. run'[i].resolved = run[i].resolved /\ run[i].resolved # Unresolved
        BY <1>0, <2>1, <3>3 DEF Enrich, To, Typing, Local, Progress
      <4>2. intents'[Request(i)].resolved = run[i].resolved
        BY <2>1, <3>3 DEF Enrich, Typing, Intent
      <4> QED BY <4>1, <4>2
    <3> QED BY <1>2, <3>1, <3>2, <3>3
  <2> QED BY <2>2, <2>3 DEF Progress, Request, Defined, AtStep, InWorktree
<1>3. CASE RecordDefinition(i)
  <2>1. Request(i) \in Requests /\ run[i] \in Local
    BY <1>3, Asked DEF RecordDefinition, Typing
  <2>2. /\ run'[i].stage = "stepping" /\ run'[i].request = Request(i) /\ run'[i].at = 1
        /\ run'[i].resolved = run[i].resolved
    BY <1>3, <2>1 DEF RecordDefinition, Typing, Local, Request
  <2>3. /\ run[i].resolved # Unresolved /\ intents' = intents /\ journal' = journal
        /\ run[i].resolved = intents[Request(i)].resolved
    BY <1>0, <1>3 DEF RecordDefinition, Progress
  <2>4. aggregates'[Request(i)].definition = run[i].resolved
    BY <1>3, <2>1 DEF RecordDefinition, Typing, Aggregate
  <2>5. DOMAIN journal[Request(i)].steps \subseteq Nat \ {0}
    <3>1. journal[Request(i)].steps \in Seq(JournalStep)
      BY <2>1 DEF Typing, Journal
    <3> QED BY <3>1
  <2>6. \A p \in DOMAIN journal'[Request(i)].steps : ~(p < 1)
    BY <2>3, <2>5
  <2> QED BY <2>2, <2>3, <2>4, <2>6 DEF Progress, Request, Steps, Defined, AtStep, InWorktree
<1>4. CASE StartStep(i)
  <2>1. /\ Request(i) \in Requests /\ run[i] \in Local /\ run[i].stage = "stepping"
        /\ run[i].at \in DOMAIN Steps(i) /\ At(i) \in JournalStep
    BY <1>4, Asked, AtIsStep DEF StartStep, Typing, Defined
  <2>2. /\ run'[i].request = Request(i) /\ run'[i].resolved = run[i].resolved
        /\ run'[i].at = IF Skips(At(i)) THEN run[i].at + 1 ELSE run[i].at
        /\ run'[i].stage \in {"stepping", "service", "target", "inspect"}
        /\ run'[i].stage = "stepping" <=> Skips(At(i))
    BY <1>4, <2>1 DEF StartStep, Typing, Local, Request
  <2>3. /\ run[i].resolved # Unresolved /\ run[i].resolved = intents'[Request(i)].resolved
        /\ aggregates[Request(i)].definition = run[i].resolved
        /\ \A p \in DOMAIN Steps(i) : p < run[i].at => Steps(i)[p].status = "completed"
    BY <1>0, <1>4, <2>1 DEF StartStep, Progress, Defined
  <2>4. aggregates'[Request(i)].definition = aggregates[Request(i)].definition
    BY <1>4, <2>1 DEF StartStep, Typing, Aggregate
  <2>5. Steps(i) \in Seq(JournalStep) /\ run[i].at \in Nat /\ run[i].at # 0
    BY <2>1 DEF Typing, Journal, Steps, Local
  <2>6. CASE Skips(At(i))
    <3>1. journal' = journal /\ Steps(i)[run[i].at].status = "completed"
      BY <1>4, <2>6 DEF StartStep, Skips, At
    <3>2. \A p \in DOMAIN Steps(i) : p < run[i].at + 1 => Steps(i)[p].status = "completed"
      BY <2>3, <2>5, <3>1
    <3> QED BY <2>2, <2>3, <2>4, <2>5, <2>6, <3>1, <3>2
           DEF Progress, Request, Steps, AtStep, InWorktree
  <2>7. CASE ~Skips(At(i))
    <3>1. journal'[Request(i)].steps = [Steps(i) EXCEPT ![run[i].at].status = "running"]
      BY <1>4, <2>1, <2>7 DEF StartStep, Typing, Journal, Steps
    <3>2. /\ DOMAIN journal'[Request(i)].steps = DOMAIN Steps(i)
          /\ \A p \in DOMAIN Steps(i) \ {run[i].at} :
                journal'[Request(i)].steps[p] = Steps(i)[p]
      BY <3>1
    <3>3. \A p \in DOMAIN Steps(i) :
             p < run[i].at => journal'[Request(i)].steps[p].status = "completed"
      BY <2>3, <2>5, <3>2
    <3> QED BY <2>1, <2>2, <2>3, <2>4, <2>5, <2>7, <3>2, <3>3 DEF Progress, Request, Steps
  <2> QED BY <2>6, <2>7
<1>5. CASE Record(i)
  <2>1. /\ Request(i) \in Requests /\ run[i] \in Local /\ run[i].stage = "recording"
        /\ run[i].at \in DOMAIN Steps(i)
    BY <1>0, <1>5, Asked DEF Record, Typing, Progress, AtStep
  <2>2. /\ run'[i].request = Request(i) /\ run'[i].resolved = run[i].resolved
        /\ run'[i].at = run[i].at + 1 /\ run'[i].stage = "stepping"
    BY <1>5, <2>1 DEF Record, Advance, Typing, Local, Request
  <2>3. /\ run[i].resolved # Unresolved /\ run[i].resolved = intents'[Request(i)].resolved
        /\ aggregates'[Request(i)].definition = run[i].resolved
        /\ \A p \in DOMAIN Steps(i) : p < run[i].at => Steps(i)[p].status = "completed"
    BY <1>0, <1>5, <2>1 DEF Record, Progress, Defined, AtStep
  <2>4. Steps(i) \in Seq(JournalStep) /\ run[i].at \in Nat
    BY <2>1 DEF Typing, Journal, Steps, Local
  <2>5. journal'[Request(i)].steps = [Steps(i) EXCEPT ![run[i].at].status = "completed"]
    BY <1>5, <2>1 DEF Record, Typing, Journal, Steps
  <2>6. Steps(i)[run[i].at] \in JournalStep
    BY <2>1, <2>4
  <2>7. /\ DOMAIN journal'[Request(i)].steps = DOMAIN Steps(i)
        /\ journal'[Request(i)].steps[run[i].at].status = "completed"
        /\ \A p \in DOMAIN Steps(i) \ {run[i].at} :
              journal'[Request(i)].steps[p] = Steps(i)[p]
    BY <2>1, <2>5, <2>6 DEF JournalStep
  <2>8. \A p \in DOMAIN Steps(i) :
           p < run[i].at + 1 => journal'[Request(i)].steps[p].status = "completed"
    BY <2>3, <2>4, <2>7
  <2>9. run[i].at + 1 # 0
    BY <2>4
  <2> QED BY <2>2, <2>3, <2>7, <2>8, <2>9 DEF Progress, Request, Steps, AtStep, InWorktree
<1>6. CASE run'[i].stage \notin Defined \cup {"resolved", "enriched"}
  BY <1>6 DEF Progress, Defined
<1>7. CASE /\ ~Resolve(i) /\ ~Enrich(i) /\ ~UseResolved(i) /\ ~RecordDefinition(i)
           /\ ~StartStep(i) /\ ~Record(i) /\ run'[i].stage \in Defined \cup {"resolved", "enriched"}
  <2>1. /\ \/ run[i].stage \in AtStep /\ run'[i].stage \in AtStep
           \/ run[i].stage = "stepping" /\ run'[i].stage = "observed" /\ Observe(i)
    BY <1>0, <1>7 DEF Reaches, ClaimStaging, ContinueStaging, AddWorktree, Mark, Checkout,
       AdoptTarget, Publish, Tidy, Inspect, ServiceStep, Observe, Defined, AtStep, InWorktree
  <2>2. ~Acquire(i) /\ ~Complete(i) /\ ~FailCreate(i) /\ \A r \in Requests : ~BeginIntent(i, r)
    BY <2>1 DEF Acquire, Complete, FailCreate, BeginIntent, AtStep, InWorktree
  <2>3. intents' = intents /\ aggregates' = aggregates /\ journal' = journal
    BY <1>7, <2>2, RecordsKept
  <2>4. /\ run'[i].request = Request(i) /\ run'[i].resolved = run[i].resolved
        /\ run'[i].at = run[i].at
    BY <1>0, <1>7, <2>1, <2>2 DEF Turns, Request, AtStep, Owning
  <2>5. Observe(i) => run[i].at > Len(Steps(i))
    BY DEF Observe
  <2> QED BY <1>0, <2>1, <2>3, <2>4, <2>5
         DEF Progress, Request, Steps, Defined, AtStep, InWorktree
<1> QED BY <1>1, <1>2, <1>3, <1>4, <1>5, <1>6, <1>7

LEMMA ProgressInvStep ==
  ASSUME Typing, RecordsInv, OwnerInv, LeaseInv, ProgressInv, [Next]_vars PROVE ProgressInv'
<1>1. ASSUME NEW i \in Invocation, StepOf(i) PROVE ProgressInv'
  <2>1. ASSUME NEW j \in Invocation \ {i} PROVE Progress(j)'
    <3>1. run'[j] = run[j] /\ Progress(j)
      BY <1>1, RunSteps DEF Turns, ProgressInv
    <3>2. run[j].stage \in Defined \cup {"resolved", "enriched"} =>
             /\ intents'[Request(j)] = intents[Request(j)]
             /\ aggregates'[Request(j)] = aggregates[Request(j)]
             /\ journal'[Request(j)] = journal[Request(j)]
      BY <1>1, Alone, RecordsElsewhere, OwnerFacts DEF Defined, AtStep, Owning
    <3> QED BY <3>1, <3>2, ProgressKept
  <2> QED BY <1>1, <2>1, ProgressStep DEF ProgressInv
<1>2. CASE Others
  <2>1. run' = run /\ intents' = intents /\ aggregates' = aggregates
    BY <1>2 DEF Others, BaseMoves, BranchAppears, TargetAppears, TargetRemoved, ServiceDrifts,
                Supersede, Meddle, registry
  <2>2. ASSUME NEW j \in Invocation PROVE Progress(j)'
    <3>1. run[j].stage \in Defined \cup {"resolved", "enriched"} =>
             journal'[Request(j)] = journal[Request(j)]
      <4>1. ASSUME run[j].stage \in Owning, NEW q \in Requests, Supersede(q)
            PROVE  journal'[Request(j)] = journal[Request(j)]
        <5>1. ~Available(Request(j)) /\ Request(j) \in Requests
          BY <4>1, OwnerFacts, CreateAssumption DEF Available, Owning, InWorktree
        <5> QED BY <4>1, <5>1 DEF Supersede, Typing
      <4> QED BY <1>2, <4>1 DEF Others, BaseMoves, BranchAppears, TargetAppears,
                 TargetRemoved, ServiceDrifts, registry, Defined, AtStep, Owning
    <3> QED BY <2>1, <3>1, ProgressKept DEF ProgressInv
  <2> QED BY <2>2 DEF ProgressInv
<1>3. CASE UNCHANGED vars
  BY <1>3, ProgressKept DEF vars, ProgressInv
<1> QED BY <1>1, <1>2, <1>3, WhoSteps

-----------------------------------------------------------------------------
(* Tokens and paths tell attempts apart.                                   *)
LEMMA TokenOf ==
  ASSUME Typing, RecordsInv, OwnerInv, LeaseInv, ProgressInv, NEW i \in Invocation,
         run[i].stage \in Defined
  PROVE  /\ Request(i) \in Requests /\ Request(i).path \in Path /\ Token(i) \in Tokens
         /\ intents[Request(i)].resolved # Unresolved
         /\ Token(i) = intents[Request(i)].resolved.token
         /\ \E k \in Invocation : Token(i) = <<k, Request(i)>>
<1>1. /\ Request(i) \in Requests /\ Request(i).path \in Path /\ Token(i) \in Tokens
  BY DefinedFacts, OwnerFacts
<1>2. run[i].resolved # Unresolved /\ run[i].resolved = intents[Request(i)].resolved
  BY DEF ProgressInv, Progress
<1>3. Definite(Request(i))
  BY <1>1 DEF RecordsInv
<1> QED BY <1>1, <1>2, <1>3 DEF Definite, Token

LEMMA Apart ==
  ASSUME Typing, RecordsInv, PathsInv, OwnerInv, LeaseInv, ProgressInv,
         NEW i \in Invocation, NEW j \in Invocation \ {i},
         run[i].stage \in Defined, run[j].stage \in Defined
  PROVE  Token(i) # Token(j) /\ Request(i).path # Request(j).path
<1>1. Request(i) # Request(j)
  BY Alone, DefinedFacts
<1>2. Known(Request(i)) /\ Known(Request(j))
  BY OwnerFacts, DefinedFacts
<1>3. \A k, l \in Invocation : <<k, Request(i)>> # <<l, Request(j)>>
  BY <1>1
<1>4. Token(i) # Token(j)
  BY <1>3, TokenOf
<1> QED BY <1>1, <1>2, <1>4, TokenOf DEF PathsInv

(* Who writes where: its own staging directory, receipt and target.        *)
LEMMA StagingElsewhere ==
  ASSUME Typing, NEW i \in Invocation, StepOf(i), NEW t \in Tokens,
         run[i].stage \in Building => t # Token(i)
  PROVE  staging'[t] = staging[t]
<1>1. CASE AddWorktree(i) \/ Mark(i) \/ Checkout(i)
  BY <1>1 DEF AddWorktree, Mark, Checkout, Building, Typing
<1>2. CASE Publish(i)
  BY <1>2 DEF Publish, Building, Typing
<1> QED BY <1>1, <1>2, StagingKept

LEMMA ReceiptsElsewhere ==
  ASSUME NEW i \in Invocation, StepOf(i), NEW t, t \in receipts,
         run[i].stage = "tidy" => t # Token(i)
  PROVE  t \in receipts'
BY ReceiptsKept DEF ClaimStaging, Receipted, Tidy

LEMMA TargetElsewhere ==
  ASSUME Typing, NEW i \in Invocation, StepOf(i), NEW p \in Path,
         run[i].stage = "publish" => p # Request(i).path
  PROVE  target'[p] = target[p]
BY TargetKept DEF Publish, Typing

LEMMA StagingOwn ==
  ASSUME Typing, RecordsInv, OwnerInv, LeaseInv, ProgressInv, StagingInv,
         NEW i \in Invocation, StepOf(i)
  PROVE  /\ run'[i].stage \in Building =>
               run'[i].resolved.token \in receipts' /\ ~Ours(target'[run'[i].request.path])
         /\ run'[i].stage = "publish" => Matches(i, Staged(i))'
         /\ run'[i].stage = "tidy" => staging'[run'[i].resolved.token] = Absent
<1>0. Turns(i) /\ Reaches(i)
  BY RunSteps
<1>1. ASSUME run'[i].stage \in {"mark", "checkout", "staging", "publish", "tidy"}
      PROVE  /\ run[i].stage \in {"target", "staging", "mark", "checkout", "publish"}
             /\ run'[i].resolved = run[i].resolved /\ run'[i].request = Request(i)
  <2>1. run[i].stage \in {"target", "staging", "mark", "checkout", "publish"}
    BY <1>0, <1>1 DEF Reaches, ClaimStaging, ContinueStaging, AddWorktree, Mark, Checkout,
                      AdoptTarget, Publish
  <2>2. ~Joins(i) /\ ~Resolve(i) /\ ~Enrich(i) /\ ~UseResolved(i)
    BY <2>1 DEF Joins, BeginIntent, FindIntent, Resolve, Enrich, UseResolved
  <2> QED BY <1>0, <1>1, <2>1, <2>2 DEF Turns, Owning, InWorktree, Request
<1>2. run[i].stage \in Defined =>
        Token(i) \in Tokens /\ Request(i) \in Requests /\ Request(i).path \in Path
        /\ Sha(i) \in Commit
  BY TokenOf, DefinedFacts
<1>3. CASE run'[i].stage = "staging"
  <2>1. ClaimStaging(i)
    BY <1>0, <1>3 DEF Reaches
  <2> QED BY <1>1, <1>3, <2>1 DEF ClaimStaging, MayClaim, Receipted, There, Ours, Token, Request
<1>4. CASE run'[i].stage = "mark" \/ run'[i].stage = "checkout"
  <2>1. ContinueStaging(i) \/ AddWorktree(i) \/ Mark(i)
    BY <1>0, <1>4 DEF Reaches
  <2>2. run[i].stage \in Building /\ receipts' = receipts /\ target' = target
    BY <2>1 DEF ContinueStaging, AddWorktree, Mark, Building, disk
  <2>3. Token(i) \in receipts /\ ~Ours(There(i))
    BY <2>2 DEF StagingInv
  <2> QED BY <1>1, <1>4, <2>2, <2>3 DEF There, Token, Request
<1>5. CASE run'[i].stage = "publish"
  <2>1. Checkout(i) /\ run[i].stage = "checkout"
    BY <1>0, <1>5 DEF Reaches, Checkout
  <2>2. receipts' = receipts /\ target' = target
    BY <2>1 DEF Checkout
  <2>3. Token(i) \in receipts /\ ~Ours(There(i))
    BY <2>1 DEF StagingInv, Building
  <2>4. staging'[Token(i)] = Tree(Token(i), Request(i).branch, Sha(i))
    <3>1. Token(i) \in Tokens
      BY <1>2, <2>1 DEF Defined, AtStep, InWorktree
    <3>2. CASE Matches(i, Staged(i))
      BY <2>1, <3>2 DEF Checkout, Matches, Staged
    <3>3. CASE ~Matches(i, Staged(i))
      <4>1. PICK head : /\ staging' = [staging EXCEPT ![Token(i)] =
                                        Tree(Token(i), Request(i).branch, head)]
                        /\ To(i, IF head = Sha(i) THEN "publish" ELSE "failing")
        BY <2>1, <3>3 DEF Checkout
      <4>2. head = Sha(i)
        BY <1>5, <4>1 DEF To, Typing, Local
      <4> QED BY <3>1, <4>1, <4>2 DEF Typing
    <3> QED BY <3>2, <3>3
  <2> QED BY <1>1, <1>5, <2>2, <2>3, <2>4 DEF There, Token, Sha, Request, Matches, Staged
<1>6. CASE run'[i].stage = "tidy"
  <2>1. run[i].stage \in {"target", "publish"} => Token(i) \in Tokens /\ Request(i).path \in Path
                                                 /\ Sha(i) \in Commit
    BY <1>2 DEF Defined, AtStep, InWorktree
  <2>2. CASE AdoptTarget(i)
    <3>1. /\ There(i) = Tree(Token(i), Request(i).branch, Sha(i)) /\ staging' = staging
          /\ run[i].stage = "target"
      BY <2>2 DEF AdoptTarget, MayAdopt, Matches, disk
    <3>2. There(i).head # NoCommit /\ There(i).token = Token(i)
      BY <2>1, <3>1, CreateAssumption DEF Tree
    <3>3. Ours(There(i))
      BY <3>2, TreesTypes DEF Ours
    <3>4. staging[There(i).token] = Absent
      <4>1. Request(i).path \in Path /\ Ours(target[Request(i).path])
        BY <2>1, <3>1, <3>3 DEF There
      <4>2. PICK r \in Requests : staging[target[Request(i).path].token] = Absent
        BY <4>1 DEF StagingInv
      <4> QED BY <4>2 DEF There
    <3> QED BY <1>1, <1>6, <3>1, <3>2, <3>4 DEF Token, Building
  <2>3. CASE Publish(i) /\ There(i) = Absent
    <3>1. Token(i) \in Tokens /\ staging' = [staging EXCEPT ![Token(i)] = Absent]
      BY <2>1, <2>3 DEF Publish
    <3>2. staging'[Token(i)] = Absent
      BY <3>1 DEF Typing
    <3> QED BY <1>1, <1>6, <3>2 DEF Token, Building
  <2> QED BY <1>0, <1>6, <2>2, <2>3 DEF Reaches
<1> QED BY <1>3, <1>4, <1>5, <1>6 DEF Building

LEMMA StagingInvStep ==
  ASSUME Typing, RecordsInv, PathsInv, OwnerInv, LeaseInv, ProgressInv, StagingInv, [Next]_vars
  PROVE  StagingInv'
<1>1. ASSUME NEW i \in Invocation, StepOf(i) PROVE StagingInv'
  <2>0. Turns(i)
    BY <1>1, RunSteps
  <2>1. ASSUME NEW t \in Tokens, staging'[t] # Absent PROVE t \in receipts'
    <3>1. CASE run[i].stage \in Building /\ t = Token(i)
      <4>1. t \in receipts
        BY <3>1 DEF StagingInv
      <4> QED BY <1>1, <3>1, <4>1, ReceiptsElsewhere DEF Building
    <3>2. CASE ~(run[i].stage \in Building /\ t = Token(i))
      <4>1. staging[t] # Absent
        BY <1>1, <2>1, <3>2, StagingElsewhere
      <4>2. t \in receipts
        BY <4>1 DEF StagingInv, StagingHasReceipt
      <4>3. run[i].stage = "tidy" => t # Token(i)
        BY <4>1 DEF StagingInv, Staged
      <4> QED BY <1>1, <4>2, <4>3, ReceiptsElsewhere
    <3> QED BY <3>1, <3>2
  <2>2. ASSUME NEW j \in Invocation \ {i}
        PROVE  /\ run'[j].stage \in Building =>
                     run'[j].resolved.token \in receipts' /\ ~Ours(target'[run'[j].request.path])
               /\ run'[j].stage = "publish" => Matches(j, Staged(j))'
               /\ run'[j].stage = "tidy" => staging'[run'[j].resolved.token] = Absent
    <3> SUFFICES ASSUME run[j].stage \in Building \cup {"tidy"}
                 PROVE  /\ run[j].stage \in Building =>
                              Token(j) \in receipts' /\ ~Ours(target'[Request(j).path])
                        /\ run[j].stage = "publish" =>
                              staging'[Token(j)] = Tree(Token(j), Request(j).branch, Sha(j))
                        /\ run[j].stage = "tidy" => staging'[Token(j)] = Absent
      BY <2>0 DEF Turns, Token, Request, Sha, Matches, Staged, Building
    <3>1. run[j].stage \in Defined
      BY DEF Building, Defined, AtStep, InWorktree
    <3>2. run[i].stage \in Building \cup {"tidy"} =>
             Token(i) # Token(j) /\ Request(i).path # Request(j).path
      BY <3>1, Apart DEF Building, Defined, AtStep, InWorktree
    <3>3. Token(j) \in Tokens /\ Request(j).path \in Path
      BY <3>1, TokenOf
    <3>4. staging'[Token(j)] = staging[Token(j)]
      BY <1>1, <3>2, <3>3, StagingElsewhere
    <3>5. target'[Request(j).path] = target[Request(j).path]
      BY <1>1, <3>2, <3>3, TargetElsewhere DEF Building
    <3>6. Token(j) \in receipts => Token(j) \in receipts'
      BY <1>1, <3>2, ReceiptsElsewhere
    <3> QED BY <3>4, <3>5, <3>6 DEF StagingInv, There, Staged, Matches
  <2>3. ASSUME NEW p \in Path, Ours(target'[p])
        PROVE  \E r \in Requests : /\ r.path = p
                                   /\ intents'[r].resolved # Unresolved
                                   /\ target'[p].token = intents'[r].resolved.token
                                   /\ staging'[target'[p].token] = Absent
    <3>1. CASE target'[p] = target[p]
      <4>1. PICK r \in Requests : /\ r.path = p /\ intents[r].resolved # Unresolved
                                  /\ target[p].token = intents[r].resolved.token
                                  /\ staging[target[p].token] = Absent
        BY <2>3, <3>1 DEF StagingInv
      <4>2. intents'[r].resolved = intents[r].resolved
        BY <4>1, ResolutionStays
      <4>3. /\ \E k \in Invocation : target[p].token = <<k, r>>
            /\ target[p].token \in Tokens
        <5>1. Definite(r)
          BY DEF RecordsInv
        <5> QED BY <4>1, <5>1 DEF Definite, Tokens
      <4>4. run[i].stage \in Building => target[p].token # Token(i)
        <5>1. ASSUME run[i].stage \in Building, target[p].token = Token(i) PROVE FALSE
          <6>1. \E k \in Invocation : Token(i) = <<k, Request(i)>>
            BY <5>1, TokenOf DEF Building, Defined, AtStep, InWorktree
          <6>2. r = Request(i)
            BY <4>3, <5>1, <6>1
          <6>3. ~Ours(target[p])
            BY <4>1, <5>1, <6>2 DEF StagingInv, There
          <6> QED BY <2>3, <3>1, <6>3
        <5> QED BY <5>1
      <4>5. staging'[target[p].token] = Absent
        BY <1>1, <4>1, <4>3, <4>4, StagingElsewhere
      <4> QED BY <3>1, <4>1, <4>2, <4>5
    <3>2. CASE target'[p] # target[p]
      <4>1. Publish(i) /\ run[i].stage = "publish" /\ There(i) = Absent /\ p = Request(i).path
        BY <1>1, <3>2, TargetKept DEF Publish, Typing
      <4>2. /\ Request(i) \in Requests /\ Token(i) \in Tokens
            /\ intents[Request(i)].resolved # Unresolved
            /\ Token(i) = intents[Request(i)].resolved.token
        BY <4>1, TokenOf DEF Defined, AtStep, InWorktree
      <4>3. target'[p] = Staged(i) /\ staging'[Token(i)] = Absent
        BY <2>3, <4>1, <4>2 DEF Publish, Typing
      <4>4. Staged(i).token = Token(i)
        BY <4>1 DEF StagingInv, Matches, Tree
      <4>5. intents' = intents
        BY <4>1 DEF Publish, registry
      <4> QED BY <4>1, <4>2, <4>3, <4>4, <4>5
    <3> QED BY <3>1, <3>2
  <2> QED BY <1>1, <2>1, <2>2, <2>3, StagingOwn
         DEF StagingInv, StagingHasReceipt, Token, Request, There, Staged
<1>2. CASE Others
  <2>1. run' = run /\ intents' = intents /\ staging' = staging /\ receipts' = receipts
    BY <1>2 DEF Others, BaseMoves, BranchAppears, TargetAppears, TargetRemoved, ServiceDrifts,
                Supersede, Meddle, registry
  <2>2. ASSUME NEW p \in Path PROVE target'[p] = target[p] \/ ~Ours(target'[p])
    <3>1. ASSUME NEW q \in Requests, Supersede(q)
          PROVE  target'[p] = target[p] \/ ~Ours(target'[p])
      BY <3>1 DEF Supersede, Ours, Typing
    <3>2. ASSUME NEW q \in Path, TargetAppears(q) \/ TargetRemoved(q)
          PROVE  target'[p] = target[p] \/ ~Ours(target'[p])
      BY <3>2 DEF TargetAppears, TargetRemoved, Ours, Typing
    <3> QED BY <1>2, <3>1, <3>2 DEF Others, BaseMoves, BranchAppears, ServiceDrifts
  <2>3. ASSUME NEW j \in Invocation, run[j].stage \in Building PROVE ~Ours(There(j))'
    <3>1. Request(j).path \in Path /\ ~Ours(There(j))
      BY <2>3, TokenOf DEF StagingInv, Building, Defined, AtStep, InWorktree
    <3> QED BY <2>1, <2>2, <3>1 DEF There, Ours, Request
  <2> QED BY <2>1, <2>2, <2>3 DEF StagingInv, StagingHasReceipt, Token, Request, Staged,
         Matches, Sha, Building
<1>3. CASE UNCHANGED vars
  BY <1>3 DEF vars, StagingInv, StagingHasReceipt, Token, Request, There, Staged, Matches, Sha
<1> QED BY <1>1, <1>2, <1>3, WhoSteps

-----------------------------------------------------------------------------
(* Nobody changes the records of a completed create.                       *)
LEMMA FinalStays ==
  ASSUME Typing, RecordsInv, OwnerInv, LeaseInv, [Next]_vars, NEW r \in Requests,
         intents[r].status = "completed"
  PROVE  /\ intents'[r] = intents[r] /\ aggregates'[r] = aggregates[r]
         /\ journal'[r] = journal[r]
<1>0. holder[r] = NoOne
  BY DEF LeaseInv
<1>1. ASSUME NEW i \in Invocation, StepOf(i)
      PROVE  /\ intents'[r] = intents[r] /\ aggregates'[r] = aggregates[r]
             /\ journal'[r] = journal[r]
  <2>1. run[i].stage \in Owning => Request(i) # r
    BY OwnerFacts
  <2>2. (Acquire(i) => Request(i) # r) /\ ~BeginIntent(i, r)
    BY DEF Acquire, MayResume, BeginIntent, MayBegin, Known
  <2> QED BY <1>1, <2>1, <2>2, RecordsElsewhere
<1>2. CASE Others
  <2>1. ASSUME NEW q \in Requests, Supersede(q) PROVE journal'[r] = journal[r]
    <3>1. r = q => journal'[r] = [journal[r] EXCEPT !.steps = journal[r].steps]
      BY <1>0, <2>1 DEF Supersede, Typing
    <3>2. journal[r] \in Journal
      BY DEF Typing
    <3>3. r # q => journal'[r] = journal[r]
      BY <2>1 DEF Supersede, Typing
    <3> QED BY <3>1, <3>2, <3>3 DEF Journal
  <2> QED BY <1>2, <2>1 DEF Others, BaseMoves, BranchAppears, TargetAppears, TargetRemoved,
             ServiceDrifts, Supersede, registry
<1>3. CASE UNCHANGED vars
  BY <1>3 DEF vars
<1> QED BY <1>1, <1>2, <1>3, WhoSteps

(* Only complete_workspace_create completes.                               *)
LEMMA Completes ==
  ASSUME Typing, OwnerInv, [Next]_vars, NEW r \in Requests,
         intents[r].status # "completed", intents'[r].status = "completed"
  PROVE  \E i \in Invocation : StepOf(i) /\ Complete(i) /\ Request(i) = r
<1>0. intents[r] \in Intent
  BY DEF Typing
<1>1. ASSUME NEW i \in Invocation, StepOf(i) PROVE Complete(i) /\ Request(i) = r
  <2>1. \A q \in Requests : ~BeginIntent(i, q)
    BY <1>0 DEF BeginIntent, Typing, Intent
  <2>2. ~Acquire(i) /\ ~FailCreate(i)
    BY <1>0 DEF Acquire, FailCreate, Typing, Intent
  <2>3. ~Resolve(i) /\ ~Enrich(i)
    BY <1>0 DEF Resolve, Enrich, Typing, Intent
  <2>4. Complete(i)
    BY <1>1, <2>1, <2>2, <2>3, IntentsKept
  <2> QED BY <2>4 DEF Complete, Typing, Intent
<1>2. ASSUME Others \/ UNCHANGED vars PROVE FALSE
  BY <1>2 DEF Others, BaseMoves, BranchAppears, TargetAppears, TargetRemoved, ServiceDrifts,
              Supersede, registry, vars
<1> QED BY <1>1, <1>2, WhoSteps

LEMMA JournalStepComplete ==
  ASSUME Typing, RecordsInv, OwnerInv, LeaseInv, ProgressInv, CreateJournalComplete, [Next]_vars
  PROVE  CreateJournalComplete'
<1> SUFFICES ASSUME NEW r \in Requests, intents'[r].status = "completed"
             PROVE  \A p \in DOMAIN journal'[r].steps : journal'[r].steps[p].status = "completed"
  BY DEF CreateJournalComplete
<1>1. CASE intents[r].status = "completed"
  BY <1>1, FinalStays DEF CreateJournalComplete
<1>2. CASE intents[r].status # "completed"
  <2>1. PICK i \in Invocation : Complete(i) /\ Request(i) = r
    BY <1>2, Completes
  <2>2. journal'[r].steps = Steps(i) /\ Steps(i) \in Seq(JournalStep)
    BY <2>1 DEF Complete, Typing, Journal, Steps
  <2>3. /\ run[i].at > Len(Steps(i)) /\ run[i].at \in Nat
        /\ \A p \in DOMAIN Steps(i) : p < run[i].at => Steps(i)[p].status = "completed"
    BY <2>1 DEF Complete, ProgressInv, Progress, Defined, Typing, Local
  <2> QED BY <2>2, <2>3
<1> QED BY <1>1, <1>2

(* What is at the target of a completed create, or of one that was just    *)
(* looked at, is only removed.                                             *)
LEMMA ThereInvStep ==
  ASSUME Typing, RecordsInv, PathsInv, OwnerInv, LeaseInv, ProgressInv, ThereInv, [Next]_vars
  PROVE  ThereInv'
<1>1. ASSUME NEW i \in Invocation, StepOf(i) PROVE ThereInv'
  <2>0. /\ Turns(i) /\ Reaches(i) /\ touched' = touched /\ superseded' = superseded
    BY <1>1, RunSteps, OthersKept, SupersededKept
  <2>1. ASSUME NEW r \in Requests, aggregates'[r].completed, r \notin superseded,
               r.path \notin touched
        PROVE  target'[r.path] = Tree(aggregates'[r].definition.token, r.branch,
                                      aggregates'[r].definition.sha)
    <3>1. CASE intents[r].status = "completed"
      <4>1. aggregates'[r] = aggregates[r] /\ aggregates[r].completed
        BY <3>1, FinalStays DEF RecordsInv, Agree
      <4>2. run[i].stage = "publish" => r.path # Request(i).path
        BY <3>1, OwnerFacts DEF PathsInv, Known, Owning, InWorktree
      <4>3. target'[r.path] = target[r.path]
        BY <1>1, <4>2, RequestTypes, TargetElsewhere
      <4> QED BY <2>1, <4>1, <4>3 DEF ThereInv, CompletedIsThere
    <3>2. CASE intents[r].status # "completed"
      <4>1. intents'[r].status = "completed"
        BY <1>1, <2>1, AgreeStep DEF Agree
      <4>2. PICK j \in Invocation : Complete(j) /\ Request(j) = r
        BY <3>2, <4>1, Completes
      <4>3. /\ aggregates'[r].definition = run[j].resolved /\ target' = target
        <5>1. aggregates'[r] = [aggregates[r] EXCEPT !.state = CreatedState(r.start),
                                                     !.completed = TRUE]
          BY <4>2 DEF Complete, Typing
        <5>2. aggregates[r] \in Aggregate /\ aggregates[r].definition = run[j].resolved
          BY <4>2 DEF Complete, Typing
        <5> QED BY <4>2, <5>1, <5>2 DEF Complete, Aggregate, disk
      <4>4. Matches(j, There(j))
        BY <2>1, <4>2 DEF Complete, ThereInv
      <4> QED BY <4>2, <4>3, <4>4 DEF Matches, There, Token, Sha
    <3> QED BY <3>1, <3>2
  <2>2. ASSUME NEW j \in Invocation, run'[j].stage = "observed",
               run'[j].request.path \notin touched
        PROVE  target'[run'[j].request.path] =
                 Tree(run'[j].resolved.token, run'[j].request.branch, run'[j].resolved.sha)
    <3>1. CASE j = i
      <4>1. Observe(i)
        BY <2>0, <2>2, <3>1 DEF Reaches
      <4>2. /\ run'[i].request = run[i].request /\ run'[i].resolved = run[i].resolved
            /\ target' = target
        BY <4>1 DEF Observe, To, Typing, Local, disk
      <4> QED BY <3>1, <4>1, <4>2
             DEF Observe, Proven, Matches, There, Token, Sha, Request
    <3>2. CASE j # i
      <4>1. run'[j] = run[j]
        BY <2>0, <3>2 DEF Turns
      <4>2. run[j].stage \in Defined /\ Request(j).path \in Path
        BY <2>2, <4>1, TokenOf DEF Defined
      <4>3. run[i].stage = "publish" => Request(j).path # Request(i).path
        BY <3>2, <4>2, Apart DEF Defined, AtStep, InWorktree
      <4>4. target'[Request(j).path] = target[Request(j).path]
        BY <1>1, <4>2, <4>3, TargetElsewhere
      <4> QED BY <2>2, <4>1, <4>4 DEF ThereInv, Matches, There, Token, Sha, Request
    <3> QED BY <3>1, <3>2
  <2> QED BY <2>0, <2>1, <2>2
         DEF ThereInv, CompletedIsThere, Matches, There, Token, Sha, Request
<1>2. CASE Others
  <2>1. /\ run' = run /\ aggregates' = aggregates /\ touched \subseteq touched'
        /\ superseded \subseteq superseded'
    BY <1>2 DEF Others, BaseMoves, BranchAppears, TargetAppears, TargetRemoved, ServiceDrifts,
                Supersede, Meddle, registry
  <2>2. ASSUME NEW r \in Requests, Known(r), r \notin superseded', r.path \notin touched',
               target[r.path] # Absent, NEW i \in Invocation \cup {NoOne},
               holder[r] = i, i # NoOne => run[i].stage # "gone"
        PROVE  target'[r.path] = target[r.path]
    <3>1. ASSUME NEW q \in Requests, Supersede(q) PROVE target'[r.path] = target[r.path]
      <4>1. q # r /\ Known(q)
        <5>1. aggregates[q].definition # Unresolved => Known(q)
          BY DEF RecordsInv, Definite, Known
        <5> QED BY <2>2, <3>1, <5>1 DEF Supersede
      <4>2. q.path # r.path
        BY <2>2, <4>1 DEF PathsInv
      <4> QED BY <3>1, <4>2, RequestTypes DEF Supersede, Typing
    <3>2. ASSUME NEW p \in Path, TargetAppears(p) PROVE target'[r.path] = target[r.path]
      <4>1. p # r.path
        BY <2>2, <3>2 DEF TargetAppears
      <4> QED BY <3>2, <4>1, RequestTypes DEF TargetAppears, Typing
    <3>3. ASSUME NEW p \in Path, TargetRemoved(p) PROVE target'[r.path] = target[r.path]
      <4>1. p # r.path
        BY <2>2, <3>3 DEF TargetRemoved, Meddle
      <4> QED BY <3>3, <4>1, RequestTypes DEF TargetRemoved, Typing
    <3> QED BY <1>2, <3>1, <3>2, <3>3 DEF Others, BaseMoves, BranchAppears, ServiceDrifts
  <2>3. ASSUME NEW d \in Resolved, d # Unresolved, NEW branch
        PROVE  Tree(d.token, branch, d.sha) # Absent
    BY <2>3, ResolvedSha, TreesTypes DEF Tree
  <2>4. ASSUME NEW r \in Requests, aggregates[r].completed, r \notin superseded',
               r.path \notin touched'
        PROVE  target'[r.path] = Tree(aggregates[r].definition.token, r.branch,
                                      aggregates[r].definition.sha)
    <3>1. /\ intents[r].status = "completed" /\ aggregates[r].definition # Unresolved
          /\ aggregates[r].definition \in Resolved
      BY <2>4 DEF RecordsInv, Agree, Typing, Aggregate
    <3>2. target[r.path] = Tree(aggregates[r].definition.token, r.branch,
                                aggregates[r].definition.sha)
      BY <2>1, <2>4 DEF ThereInv, CompletedIsThere
    <3>3. target[r.path] # Absent
      BY <2>3, <3>1, <3>2
    <3>4. holder[r] = NoOne
      BY <3>1 DEF LeaseInv
    <3> QED BY <2>2, <2>4, <3>1, <3>2, <3>3, <3>4 DEF Known
  <2>5. ASSUME NEW j \in Invocation, run[j].stage = "observed", Request(j).path \notin touched'
        PROVE  target'[Request(j).path] = Tree(Token(j), Request(j).branch, Sha(j))
    <3>1. /\ Request(j) \in Requests /\ Known(Request(j)) /\ holder[Request(j)] = j
          /\ Request(j) \notin superseded
      BY <2>5, OwnerFacts DEF Owning
    <3>2. target[Request(j).path] = Tree(Token(j), Request(j).branch, Sha(j))
      BY <2>1, <2>5 DEF ThereInv, Matches, There
    <3>3. run[j].resolved \in Resolved /\ run[j].resolved # Unresolved
      BY <2>5 DEF Typing, Local, ProgressInv, Progress, Defined
    <3>4. target[Request(j).path] # Absent
      BY <2>3, <3>2, <3>3 DEF Token, Sha
    <3>5. Request(j) \notin superseded'
      <4>1. ASSUME NEW q \in Requests, Supersede(q) PROVE Request(j) \notin superseded'
        BY <2>5, <3>1, <4>1, CreateAssumption DEF Supersede, Available
      <4> QED BY <1>2, <3>1, <4>1 DEF Others, BaseMoves, BranchAppears, TargetAppears,
                 TargetRemoved, ServiceDrifts, registry
    <3> QED BY <2>2, <2>5, <3>1, <3>2, <3>4, <3>5
  <2> QED BY <2>1, <2>4, <2>5
         DEF ThereInv, CompletedIsThere, Matches, There, Token, Sha, Request
<1>3. CASE UNCHANGED vars
  BY <1>3 DEF vars, ThereInv, CompletedIsThere, Matches, There, Token, Sha, Request
<1> QED BY <1>1, <1>2, <1>3, WhoSteps

-----------------------------------------------------------------------------
LEMMA Initially == Init => CreateInv
<1> SUFFICES ASSUME Init PROVE CreateInv
  OBVIOUS
<1>1. Idle \in Local /\ Idle.stage = "idle"
  BY IdleIsLocal DEF Idle
<1>2. Typing
  <2>1. NoIntent \in Intent /\ NoAggregate \in Aggregate
    BY DEF NoIntent, Intent, Status, Resolved, NoAggregate, Aggregate
  <2>2. [status |-> "none", steps |-> <<>>] \in Journal
    BY DEF Journal
  <2>3. faults \in 0 .. MaxFaults /\ meddled \in 0 .. MaxMeddling
    BY CreateAssumption DEF Init
  <2> QED BY <1>1, <2>1, <2>2, <2>3, TreesTypes DEF Init, Typing
<1>3. RecordsInv /\ PathsInv
  BY DEF Init, RecordsInv, PathsInv, Agree, Definite, Told, Known, NoIntent, NoAggregate
<1>4. LeaseInv /\ OwnerInv /\ ProgressInv
  BY <1>1 DEF Init, LeaseInv, OwnerInv, ProgressInv, Progress, Defined, AtStep, Owning, InWorktree
<1>5. StagingInv
  BY <1>1 DEF Init, StagingInv, StagingHasReceipt, Building, Ours
<1>6. ThereInv /\ CreateJournalComplete
  BY <1>1 DEF Init, ThereInv, CompletedIsThere, CreateJournalComplete, NoAggregate, NoIntent
<1> QED BY <1>2, <1>3, <1>4, <1>5, <1>6 DEF CreateInv

LEMMA Inductive == CreateInv /\ [Next]_vars => CreateInv'
BY TypingStep, RecordsInvStep, PathsInvStep, LeaseInvStep, OwnerInvStep, ProgressInvStep,
   StagingInvStep, ThereInvStep, JournalStepComplete DEF CreateInv

(* The inductive invariant: the records of a create, what its attempts     *)
(* know, and what is on disk.                                              *)
THEOREM CreateInvariant == Spec => []CreateInv
BY Initially, Inductive, PTL DEF Spec

(* Every variable has its type; an attempt that is under way holds the     *)
(* lease of its Workspace.                                                 *)
THEOREM TypeCorrect == Spec => []TypeOK
<1>1. CreateInv => TypeOK
  <2> SUFFICES ASSUME CreateInv PROVE TypeOK
    OBVIOUS
  <2>1. ASSUME NEW r \in Requests
        PROVE  /\ intents[r].status \in Status
               /\ intents[r].resolved \in [sha : Commit, token : Tokens] \cup {Unresolved}
               /\ intents[r].resolved # Unresolved => intents[r].sha = intents[r].resolved.sha
               /\ aggregates[r].definition \in {Unresolved, intents[r].resolved}
               /\ aggregates[r].state \in {"none", "creating", "starting", "create_failed",
                                           CreatedState(r.start)}
               /\ \A p \in DOMAIN journal[r].steps :
                     journal[r].steps[p].status \in
                        {"pending", "running", "completed", "unknown"}
    <3>1. intents[r] \in Intent /\ Agree(r) /\ Definite(r) /\ journal[r].steps \in Seq(JournalStep)
      BY DEF CreateInv, Typing, RecordsInv, Journal
    <3>2. \A p \in DOMAIN journal[r].steps : journal[r].steps[p] \in JournalStep
      BY <3>1
    <3> QED BY <3>1, <3>2 DEF Agree, Definite, Intent, Resolved, JournalStep
  <2>2. ASSUME NEW i \in Invocation
        PROVE  /\ run[i].stage \in Stage
               /\ run[i].stage \in Owning => holder[run[i].request] = i
    BY DEF CreateInv, Typing, Local, OwnerInv, Request
  <2> QED BY <2>1, <2>2 DEF CreateInv, Typing, TypeOK
<1> QED BY <1>1, CreateInvariant, PTL

(* Intent, operation and aggregate of a create (workspace_create_intents,  *)
(* operations and workspace_aggregates) tell the same story at every       *)
(* point, kills included.                                                  *)
THEOREM RecordsAgree == Spec => []CreateStateAgrees
<1>1. CreateInv => CreateStateAgrees
  <2> SUFFICES ASSUME CreateInv, NEW r \in Requests
               PROVE  /\ intents[r].status = "completed" <=> aggregates[r].completed
                      /\ intents[r].status = "completed" <=> journal[r].status = "completed"
                      /\ intents[r].status = "create_failed" <=> journal[r].status = "failed"
                      /\ aggregates[r].state # "none" =>
                            CASE aggregates[r].completed ->
                                    aggregates[r].state = CreatedState(r.start)
                              [] intents[r].status = "create_failed" ->
                                    aggregates[r].state = "create_failed"
                              [] OTHER -> aggregates[r].state \in {"creating", "starting"}
    BY DEF CreateStateAgrees
  <2>1. Agree(r) /\ intents[r] \in Intent /\ aggregates[r] \in Aggregate
    BY DEF CreateInv, RecordsInv, Typing
  <2> QED BY <2>1 DEF Agree, Told, Intent, Aggregate, Status
<1> QED BY <1>1, CreateInvariant, PTL

(* complete_workspace_create finds every step of the journal completed,    *)
(* whichever attempts ran them.                                            *)
THEOREM JournalComplete == Spec => []CreateJournalComplete
<1>1. CreateInv => CreateJournalComplete
  BY DEF CreateInv
<1> QED BY <1>1, CreateInvariant, PTL

(* create_worktree leaves no staging directory without its receipt,        *)
(* wherever it fails or is killed.                                         *)
THEOREM StagingReceipts == Spec => []StagingHasReceipt
<1>1. CreateInv => StagingHasReceipt
  BY DEF CreateInv, StagingInv
<1> QED BY <1>1, CreateInvariant, PTL

(* The Worktree that finish_create looked at is at its target when the     *)
(* create is completed, and stays there unless somebody removes it.        *)
THEOREM WorktreeIsThere == Spec => []CompletedIsThere
<1>1. CreateInv => CompletedIsThere
  BY DEF CreateInv, ThereInv
<1> QED BY <1>1, CreateInvariant, PTL

(* What persist_resolved_sha, enrich_create_intent and                     *)
(* record_workspace_definition recorded is never recorded anew.            *)
THEOREM Immutable == Spec => ResolvedOnce
<1>1. CreateInv /\ [Next]_vars =>
        \A r \in Requests :
            /\ intents[r].sha # NoCommit => intents'[r].sha = intents[r].sha
            /\ intents[r].resolved # Unresolved => intents'[r].resolved = intents[r].resolved
            /\ aggregates[r].definition # Unresolved =>
                  aggregates'[r].definition = aggregates[r].definition
  BY ResolutionStays, DefinitionStays DEF CreateInv
<1> QED BY <1>1, CreateInvariant, PTL DEF Spec, ResolvedOnce

(* A completed create is final: no attempt that was under way, and no      *)
(* later one, changes its intent, its aggregate or its journal.            *)
THEOREM Final == Spec => CreateIsFinal
<1>1. CreateInv /\ [Next]_vars =>
        \A r \in Requests :
            aggregates[r].completed => /\ intents'[r] = intents[r]
                                       /\ aggregates'[r] = aggregates[r]
                                       /\ journal'[r] = journal[r]
  BY FinalStays DEF CreateInv, RecordsInv, Agree
<1> QED BY <1>1, CreateInvariant, PTL DEF Spec, CreateIsFinal

(* After a lifecycle command no attempt at the create gets the lease, so   *)
(* none changes the records or publishes a Worktree.                       *)
THEOREM NotResurrected == Spec => NoResurrection
<1>1. ASSUME CreateInv, [Next]_vars
      PROVE  \A r \in superseded :
                /\ intents'[r] = intents[r]
                /\ aggregates'[r] = aggregates[r]
                /\ target'[r.path] # target[r.path] => target'[r.path] \in {Absent, Foreign}
  <2> USE DEF CreateInv
  <2> SUFFICES ASSUME NEW r \in superseded
               PROVE  /\ intents'[r] = intents[r]
                      /\ aggregates'[r] = aggregates[r]
                      /\ target'[r.path] # target[r.path] =>
                            target'[r.path] \in {Absent, Foreign}
    OBVIOUS
  <2>1. /\ r \in Requests /\ r.path \in Path /\ Known(r)
    <3>1. r \in Requests /\ aggregates[r].definition # Unresolved
      BY <1>1 DEF Typing, LeaseInv
    <3> QED BY <1>1, <3>1, RequestTypes DEF RecordsInv, Definite, Known
  <2>2. ASSUME NEW i \in Invocation, StepOf(i)
        PROVE  /\ intents'[r] = intents[r] /\ aggregates'[r] = aggregates[r]
               /\ target'[r.path] = target[r.path]
    <3>1. run[i].stage \in Owning => Request(i) # r
      BY <1>1, OwnerFacts
    <3>2. (Acquire(i) => Request(i) # r) /\ ~BeginIntent(i, r)
      BY <2>1 DEF Acquire, MayResume, BeginIntent, MayBegin
    <3>3. run[i].stage = "publish" => r.path # Request(i).path
      BY <1>1, <2>1, <3>1, OwnerFacts DEF PathsInv, Owning, InWorktree
    <3> QED BY <1>1, <2>1, <2>2, <3>1, <3>2, <3>3, RecordsElsewhere, TargetElsewhere
  <2>3. CASE Others
    <3>1. intents' = intents /\ aggregates' = aggregates
      BY <2>3 DEF Others, BaseMoves, BranchAppears, TargetAppears, TargetRemoved, ServiceDrifts,
                  Supersede, registry
    <3>2. ASSUME NEW q \in Requests, Supersede(q)
          PROVE  target'[r.path] = target[r.path] \/ target'[r.path] = Absent
      BY <1>1, <2>1, <3>2 DEF Supersede, Typing
    <3>3. ASSUME NEW p \in Path, TargetAppears(p) \/ TargetRemoved(p)
          PROVE  target'[r.path] = target[r.path] \/ target'[r.path] \in {Absent, Foreign}
      BY <1>1, <2>1, <3>3 DEF TargetAppears, TargetRemoved, Typing
    <3> QED BY <2>3, <3>1, <3>2, <3>3 DEF Others, BaseMoves, BranchAppears, ServiceDrifts
  <2>4. CASE UNCHANGED vars
    BY <2>4 DEF vars
  <2> QED BY <1>1, <2>2, <2>3, <2>4, WhoSteps
<1> QED BY <1>1, CreateInvariant, PTL DEF Spec, NoResurrection

-----------------------------------------------------------------------------
(* What NeverInItsOwnWay needs.  As long as nobody else meddled, whatever  *)
(* an attempt finds on disk was made for its request, and its journal      *)
(* knows of it (MadeInv, TraceInv); what it has got past is there          *)
(* (AheadInv, ServiceInv).                                                 *)
Settles(r) == intents[r].resolved # Unresolved

(* The journal of a request starts with the create of its Worktree.        *)
Creates(step) == step.action = "create" /\ step.resource = "worktree"

Starts(steps, s) ==
  \E p \in DOMAIN steps : steps[p].action = "start" /\ steps[p].resource = s

Shaped(steps, start) ==
  /\ Len(steps) # 0
  /\ Creates(steps[1])
  /\ \A p \in DOMAIN steps : p # 1 => ~Creates(steps[p])
  /\ IF start THEN \A s \in Service : Starts(steps, s)
              ELSE \A p \in DOMAIN steps : steps[p].action # "start"
  /\ \A p, q \in DOMAIN steps :
        steps[p].action = "start" /\ steps[q].action = "create" => q < p

(* Every resolved request has such a journal.                              *)
ShapeInv == \A r \in Requests : Settles(r) => Shaped(journal[r].steps, r.start)

(* What the step of an attempt is, by its stage.                           *)
WhereInv ==
  \A i \in Invocation :
     /\ run[i].stage \in InWorktree => run[i].at = 1
     /\ run[i].stage \in {"service", "inspect"} => run[i].at # 1
     /\ run[i].stage = "inspect" => At(i).resource = "worktree"

(* Branches, receipts, staging directories and targets are those of        *)
(* requests.                                                               *)
MadeInv ==
  /\ \A b \in Branch : refs[b] # NoCommit =>
        \E r \in Requests : r.branch = b /\ Settles(r) /\ refs[b] = intents[r].resolved.sha
  /\ \A t \in receipts : \E r \in Requests : Settles(r) /\ intents[r].resolved.token = t
  /\ \A t \in Tokens : staging[t] # Absent =>
        \E r \in Requests :
           /\ Settles(r) /\ intents[r].resolved.token = t
           /\ staging[t].head = intents[r].resolved.sha
           /\ staging[t].token \in {NoOne, t}
           /\ staging[t].branch \in {NoBranch, r.branch}
  /\ \A p \in Path : target[p] # Absent =>
        \E r \in Requests :
           /\ r.path = p /\ Settles(r)
           /\ target[p] = Tree(intents[r].resolved.token, r.branch, intents[r].resolved.sha)

(* What an attempt has got past.                                           *)
AheadInv ==
  \A i \in Invocation :
     /\ run[i].stage \in {"mark", "checkout"} => Staged(i) # Absent
     /\ run[i].stage = "checkout" => Staged(i).token = Token(i)
     /\ run[i].stage \in {"tidy", "recording"} => There(i) # Absent
     /\ run[i].stage \in Defined /\ run[i].at # 1 => There(i) # Absent

(* The journal knows of everything that was done to build the Worktree.    *)
Trace(r) ==
  \/ intents[r].resolved.token \in receipts
  \/ target[r.path] # Absent
  \/ refs[r.branch] # NoCommit

TraceInv ==
  /\ \A r \in Requests :
        Settles(r) /\ Trace(r) => journal[r].steps[1].status # "pending"
  /\ \A i \in Invocation :
        /\ run[i].stage \in InWorktree => Steps(i)[1].status # "pending"
        /\ run[i].stage = "target" /\ Trace(Request(i)) => run[i].previous # "pending"
        /\ run[i].stage = "staging" /\ Ref(i) # NoCommit => run[i].previous # "pending"

(* Services that were started run, and others do not.                      *)
ServiceInv ==
  /\ service \in [Requests -> [Service -> {"absent", "stopped", "ready"}]]
  /\ \A r \in Requests, s \in Service : ~r.start => service[r][s] # "ready"
  /\ \A i \in Invocation : run[i].stage \in Defined =>
        \A p \in DOMAIN Steps(i) :
           /\ p < run[i].at \/ (p = run[i].at /\ run[i].stage = "recording")
           /\ Steps(i)[p].action = "start"
           /\ Steps(i)[p].resource # "worktree"
           => service[Request(i)][Steps(i)[p].resource] = "ready"

WayInv ==
  ShapeInv /\ WhereInv /\ MadeInv /\ AheadInv /\ TraceInv /\ ServiceInv

ClearInv == meddled = 0 => WayInv

(* Requests for different targets ask for different branches.              *)
BranchesApart == \A q, r \in Requests : q.branch = r.branch => q.path = r.path
-----------------------------------------------------------------------------
(* Requests, tokens, paths and branches.                                   *)
LEMMA SettlesFacts ==
  ASSUME Typing, RecordsInv, NEW r \in Requests, Settles(r)
  PROVE  /\ Known(r) /\ intents[r].resolved.sha \in Commit
         /\ intents[r].resolved.sha # NoCommit
         /\ intents[r].resolved.token \in Tokens
         /\ \E j \in Invocation : intents[r].resolved.token = <<j, r>>
<1>1. intents[r].resolved \in Resolved
  BY DEF Typing, Intent
<1>2. Definite(r)
  BY DEF RecordsInv
<1> QED BY <1>1, <1>2, UnresolvedTypes, ResolvedSha DEF Settles, Definite, Known

LEMMA SamePath ==
  ASSUME Typing, RecordsInv, PathsInv, NEW q \in Requests, NEW r \in Requests,
         Settles(q), Settles(r), q.path = r.path
  PROVE  q = r
BY SettlesFacts DEF PathsInv

LEMMA SameBranch ==
  ASSUME Typing, RecordsInv, PathsInv, BranchesApart, NEW q \in Requests, NEW r \in Requests,
         Settles(q), Settles(r), q.branch = r.branch
  PROVE  q = r
BY SamePath DEF BranchesApart

LEMMA SameToken ==
  ASSUME Typing, RecordsInv, NEW q \in Requests, NEW r \in Requests,
         Settles(q), Settles(r), intents[q].resolved.token = intents[r].resolved.token
  PROVE  q = r
<1>1. PICK j \in Invocation : intents[q].resolved.token = <<j, q>>
  BY SettlesFacts
<1>2. PICK k \in Invocation : intents[r].resolved.token = <<k, r>>
  BY SettlesFacts
<1>3. <<j, q>> = <<k, r>>
  BY <1>1, <1>2
<1>4. <<j, q>>[2] = <<k, r>>[2]
  BY <1>3
<1> QED BY <1>4

LEMMA StepsTypes ==
  ASSUME Typing, NEW r \in Requests
  PROVE  /\ journal[r].steps \in Seq(JournalStep) /\ Len(journal[r].steps) \in Nat
         /\ DOMAIN journal[r].steps = 1 .. Len(journal[r].steps)
         /\ \A p \in DOMAIN journal[r].steps : journal[r].steps[p] \in JournalStep
<1>1. journal[r].steps \in Seq(JournalStep)
  BY DEF Typing, Journal
<1> QED BY <1>1

(* An attempt that has its definition.                                     *)
LEMMA DefinedWay ==
  ASSUME CreateInv, ShapeInv, NEW i \in Invocation, run[i].stage \in Defined
  PROVE  /\ Request(i) \in Requests /\ Request(i).path \in Path
         /\ Request(i).branch \in Branch /\ Request(i).start \in BOOLEAN
         /\ Settles(Request(i)) /\ holder[Request(i)] = i
         /\ Token(i) \in Tokens /\ Token(i) = intents[Request(i)].resolved.token
         /\ Sha(i) \in Commit /\ Sha(i) = intents[Request(i)].resolved.sha
         /\ Sha(i) # NoCommit
         /\ Shaped(Steps(i), Request(i).start)
         /\ Steps(i) = journal[Request(i)].steps
         /\ run[i].at \in Nat \ {0}
<1> USE DEF CreateInv
<1>1. run[i].stage \in Owning /\ Token(i) \in Tokens /\ Sha(i) \in Commit
  BY DefinedFacts
<1>2. /\ Request(i) \in Requests /\ Request(i).path \in Path
      /\ Request(i).branch \in Branch /\ Request(i).start \in BOOLEAN
      /\ holder[Request(i)] = i
  BY <1>1, OwnerFacts
<1>3. /\ run[i].resolved # Unresolved /\ run[i].resolved = intents[Request(i)].resolved
      /\ run[i].at # 0
  BY DEF ProgressInv, Progress
<1>4. run[i].at \in Nat
  BY DEF Typing, Local
<1> QED BY <1>1, <1>2, <1>3, <1>4, CreateAssumption DEF Settles, ShapeInv, Steps, Token, Sha

(* Nobody else works on its request.                                       *)
LEMMA AloneWay ==
  ASSUME CreateInv, ShapeInv, NEW i \in Invocation, NEW j \in Invocation \ {i},
         run[i].stage \in Defined, run[j].stage \in Defined
  PROVE  Request(i) # Request(j)
BY DefinedWay

-----------------------------------------------------------------------------
(* Journals keep their shape, and what was begun stays so.                 *)
Alike(a, b) ==
  /\ Len(a) = Len(b)
  /\ \A p \in DOMAIN a : /\ a[p].action = b[p].action /\ a[p].resource = b[p].resource
                         /\ a[p].status # "pending" => b[p].status # "pending"

LEMMA ShapedAlike ==
  ASSUME NEW a \in Seq(JournalStep), NEW b \in Seq(JournalStep), Alike(a, b),
         NEW start \in BOOLEAN, Shaped(a, start)
  PROVE  Shaped(b, start)
<1>1. DOMAIN a = 1 .. Len(a) /\ DOMAIN b = 1 .. Len(b) /\ Len(a) = Len(b) /\ Len(a) \in Nat
  BY DEF Alike
<1>2. \A p \in DOMAIN b : b[p].action = a[p].action /\ b[p].resource = a[p].resource
  BY <1>1 DEF Alike
<1>3. 1 \in DOMAIN a
  BY <1>1 DEF Shaped
<1>4. Len(b) # 0 /\ Creates(b[1]) /\ \A p \in DOMAIN b : p # 1 => ~Creates(b[p])
  BY <1>1, <1>2, <1>3 DEF Shaped, Creates
<1>5. IF start THEN \A s \in Service : Starts(b, s)
               ELSE \A p \in DOMAIN b : b[p].action # "start"
  BY <1>1, <1>2 DEF Shaped, Starts
<1>6. \A p, q \in DOMAIN b : b[p].action = "start" /\ b[q].action = "create" => q < p
  BY <1>1, <1>2 DEF Shaped
<1> QED BY <1>4, <1>5, <1>6 DEF Shaped

LEMMA Joined ==
  ASSUME NEW a \in Seq(JournalStep), NEW b \in Seq(JournalStep)
  PROVE  /\ a \o b \in Seq(JournalStep) /\ Len(a \o b) = Len(a) + Len(b)
         /\ \A p \in 1 .. Len(a) : (a \o b)[p] = a[p]
         /\ \A p \in 1 .. Len(b) : (a \o b)[Len(a) + p] = b[p]
OBVIOUS

LEMMA PlanShape ==
  ASSUME NEW start \in BOOLEAN
  PROVE  Shaped(CreateSteps(Resources, start), start)
<1> DEFINE n == Len(Resources)
           m == IF start THEN n ELSE 0
           Phase(action) == [p \in DOMAIN Resources |-> Step(action, Resources[p])]
           plan == CreateSteps(Resources, start)
<1>1. /\ Resources \in Seq({"worktree"} \cup Service) /\ n \in Nat /\ DOMAIN Resources = 1 .. n
      /\ n # 0 /\ Resources[1] = "worktree"
      /\ \A p \in 1 .. n : p # 1 => Resources[p] \in Service
      /\ \A s \in Service : \E p \in 1 .. n : Resources[p] = s
  <2>1. Services \in Seq(Service)
    BY CreateAssumption DEF Service
  <2>2. Service = {Services[p] : p \in DOMAIN Services}
    BY DEF Service, ToSet
  <2>3. Len(Services) \in Nat /\ DOMAIN Services = 1 .. Len(Services)
    BY <2>1
  <2>4. /\ Len(Resources) = Len(Services) + 1 /\ Resources[1] = "worktree"
        /\ \A p \in 1 .. Len(Services) : Resources[p + 1] = Services[p]
    BY <2>1 DEF Resources
  <2>5. \A p \in 1 .. n : p # 1 => p - 1 \in 1 .. Len(Services) /\ p = (p - 1) + 1
    BY <2>3, <2>4
  <2>6. \A p \in 1 .. n : p # 1 => Resources[p] = Services[p - 1]
    BY <2>4, <2>5
  <2>7. \A p \in 1 .. n : p # 1 => Resources[p] \in Service
    BY <2>2, <2>3, <2>5, <2>6
  <2>8. \A p \in 1 .. Len(Services) : p + 1 \in 1 .. n
    BY <2>3, <2>4
  <2>9. ASSUME NEW s \in Service PROVE \E p \in 1 .. n : Resources[p] = s
    <3>1. PICK p \in 1 .. Len(Services) : Services[p] = s
      BY <2>2, <2>3
    <3> QED BY <2>4, <2>8, <3>1
  <2> QED BY <2>3, <2>4, <2>7, <2>9, ResourcesType
<1>2. "worktree" \notin Service
  BY CreateAssumption DEF Service
<1>3. ASSUME NEW action \in {"create", "start", "inspect"}
      PROVE  /\ Phase(action) \in Seq(JournalStep) /\ Len(Phase(action)) = n
             /\ \A p \in 1 .. n : Phase(action)[p] = Step(action, Resources[p])
  <2>1. \A p \in 1 .. n : Step(action, Resources[p]) \in JournalStep
    BY <1>1 DEF Step, JournalStep
  <2>2. Phase(action) \in [1 .. n -> JournalStep]
    BY <1>1, <2>1
  <2> QED BY <1>1, <2>2, SequenceOf
<1>4. plan = Phase("create") \o (IF start THEN Phase("start") ELSE <<>>) \o Phase("inspect")
  BY DEF CreateSteps
<1> DEFINE mid == IF start THEN Phase("start") ELSE <<>>
           c == Phase("create")
           i == Phase("inspect")
<1>5. /\ c \in Seq(JournalStep) /\ Len(c) = n
      /\ \A p \in 1 .. n : c[p] = Step("create", Resources[p])
  BY <1>3
<1>6. /\ i \in Seq(JournalStep) /\ Len(i) = n
      /\ \A p \in 1 .. n : i[p] = Step("inspect", Resources[p])
  BY <1>3
<1>7. /\ mid \in Seq(JournalStep) /\ Len(mid) = m /\ m \in {0, n} /\ (start => m = n)
      /\ (~start => m = 0)
      /\ \A p \in 1 .. m : mid[p] = Step("start", Resources[p])
  <2>1. CASE start
    BY <1>3, <2>1
  <2>2. CASE ~start
    BY <2>2
  <2> QED BY <2>1, <2>2
<1>8. plan = c \o mid \o i
  BY <1>4
<1> HIDE DEF n, m, Phase, mid, c, i, plan
<1>9. /\ plan \in Seq(JournalStep) /\ Len(plan) = n + m + n
      /\ \A p \in 1 .. n : plan[p] = c[p]
      /\ \A p \in 1 .. m : plan[n + p] = mid[p]
      /\ \A p \in 1 .. n : plan[n + m + p] = i[p]
  <2> DEFINE cm == c \o mid
  <2>1. /\ cm \in Seq(JournalStep) /\ Len(cm) = n + m
        /\ \A p \in 1 .. n : cm[p] = c[p]
        /\ \A p \in 1 .. m : cm[n + p] = mid[p]
    BY <1>5, <1>7, Joined
  <2>2. plan = cm \o i
    BY <1>8
  <2> HIDE DEF cm
  <2>3. /\ plan \in Seq(JournalStep) /\ Len(plan) = n + m + n
        /\ \A p \in 1 .. n + m : plan[p] = cm[p]
        /\ \A p \in 1 .. n : plan[n + m + p] = i[p]
    <3>1. /\ cm \o i \in Seq(JournalStep) /\ Len(cm \o i) = Len(cm) + Len(i)
          /\ \A p \in 1 .. Len(cm) : (cm \o i)[p] = cm[p]
          /\ \A p \in 1 .. Len(i) : (cm \o i)[Len(cm) + p] = i[p]
      BY <1>6, <2>1, Joined
    <3> QED BY <1>6, <2>1, <2>2, <3>1
  <2>4. \A p \in 1 .. n : p \in 1 .. n + m
    BY <1>1, <1>7
  <2>5. \A p \in 1 .. m : n + p \in 1 .. n + m
    BY <1>1, <1>7
  <2> QED BY <2>1, <2>3, <2>4, <2>5
<1>10. m \in Nat /\ DOMAIN plan = 1 .. n + m + n
  BY <1>1, <1>7, <1>9
<1>11. ASSUME NEW p \in DOMAIN plan
       PROVE  \/ p \in 1 .. n /\ plan[p] = Step("create", Resources[p])
              \/ p - n \in 1 .. m /\ plan[p] = Step("start", Resources[p - n])
              \/ p - n - m \in 1 .. n /\ plan[p] = Step("inspect", Resources[p - n - m])
  <2>1. CASE p \in 1 .. n
    BY <1>5, <1>9, <2>1
  <2>2. CASE p - n \in 1 .. m
    <3>1. n + (p - n) = p
      BY <1>1, <1>10
    <3>2. plan[n + (p - n)] = mid[p - n]
      BY <1>9, <2>2
    <3> QED BY <1>7, <2>2, <3>1, <3>2
  <2>3. CASE p - n - m \in 1 .. n
    <3>1. n + m + (p - n - m) = p
      BY <1>1, <1>10
    <3>2. plan[n + m + (p - n - m)] = i[p - n - m]
      BY <1>9, <2>3
    <3> QED BY <1>6, <2>3, <3>1, <3>2
  <2> QED BY <1>1, <1>10, <2>1, <2>2, <2>3
<1>12. Len(plan) # 0 /\ Creates(plan[1])
  <2>1. 1 \in 1 .. n /\ Len(plan) # 0
    BY <1>1, <1>9, <1>10
  <2> QED BY <1>1, <1>5, <1>9, <2>1 DEF Creates, Step
<1>13. \A p \in DOMAIN plan : p # 1 => ~Creates(plan[p])
  <2> SUFFICES ASSUME NEW p \in DOMAIN plan, p # 1, Creates(plan[p]) PROVE FALSE
    OBVIOUS
  <2>1. p \in 1 .. n /\ plan[p] = Step("create", Resources[p])
    BY <1>11 DEF Creates, Step
  <2> QED BY <1>1, <1>2, <2>1 DEF Creates, Step
<1>14. IF start THEN \A s \in Service : Starts(plan, s)
                ELSE \A p \in DOMAIN plan : plan[p].action # "start"
  <2>1. ASSUME start, NEW s \in Service PROVE Starts(plan, s)
    <3>1. PICK p \in 1 .. n : Resources[p] = s
      BY <1>1
    <3>2. p \in 1 .. m /\ n + p \in DOMAIN plan
      BY <1>1, <1>7, <1>10, <2>1
    <3>3. plan[n + p] = Step("start", s)
      BY <1>7, <1>9, <3>1, <3>2
    <3> QED BY <3>2, <3>3 DEF Starts, Step
  <2>2. ASSUME ~start, NEW p \in DOMAIN plan PROVE plan[p].action # "start"
    BY <1>7, <1>11, <2>2 DEF Step
  <2> QED BY <2>1, <2>2
<1>15. \A p, q \in DOMAIN plan : plan[p].action = "start" /\ plan[q].action = "create" => q < p
  <2> SUFFICES ASSUME NEW p \in DOMAIN plan, NEW q \in DOMAIN plan,
                      plan[p].action = "start", plan[q].action = "create"
               PROVE  q < p
    OBVIOUS
  <2>1. p - n \in 1 .. m
    BY <1>11 DEF Step
  <2>2. q \in 1 .. n
    BY <1>11 DEF Step
  <2> QED BY <1>1, <1>10, <2>1, <2>2
<1> QED BY <1>12, <1>13, <1>14, <1>15 DEF Shaped, plan

LEMMA AlikeItself == ASSUME NEW a, NEW b, a = b PROVE Alike(a, b)
BY DEF Alike

LEMMA AlikeSettled ==
  ASSUME NEW a \in Seq(JournalStep) PROVE Alike(a, Settled(a))
<1>1. /\ DOMAIN a = 1 .. Len(a) /\ Len(a) \in Nat
      /\ \A p \in DOMAIN a : a[p] \in JournalStep
  OBVIOUS
<1>2. Settled(a) \in Seq(JournalStep)
  BY SettledTypes
<1>3. DOMAIN Settled(a) = 1 .. Len(a)
  BY <1>1 DEF Settled
<1>4. Len(Settled(a)) = Len(a)
  BY <1>1, <1>2, <1>3
<1>5. \A p \in DOMAIN a : Settled(a)[p] = IF a[p].status = "running"
                                          THEN [a[p] EXCEPT !.status = "unknown"] ELSE a[p]
  BY DEF Settled
<1>6. ASSUME NEW p \in DOMAIN a
      PROVE  /\ a[p].action = Settled(a)[p].action /\ a[p].resource = Settled(a)[p].resource
             /\ a[p].status # "pending" => Settled(a)[p].status # "pending"
  BY <1>1, <1>5 DEF JournalStep
<1> QED BY <1>4, <1>6 DEF Alike

LEMMA AlikeMarked ==
  ASSUME NEW a \in Seq(JournalStep), NEW p, NEW status \in {"running", "completed"},
         NEW b, b = [a EXCEPT ![p].status = status]
  PROVE  Alike(a, b)
<1>1. /\ DOMAIN a = 1 .. Len(a) /\ Len(a) \in Nat
      /\ \A q \in DOMAIN a : a[q] \in JournalStep
  OBVIOUS
<1>2. /\ DOMAIN b = DOMAIN a
      /\ \A q \in DOMAIN a :
            b[q] = IF q = p THEN [a[q] EXCEPT !.status = status] ELSE a[q]
  OBVIOUS
<1>3. \A q \in DOMAIN a : b[q] \in JournalStep
  BY <1>1, <1>2 DEF JournalStep
<1>4. b \in Seq(JournalStep) /\ Len(b) = Len(a)
  <2>1. b \in [1 .. Len(a) -> JournalStep]
    BY <1>1, <1>2, <1>3
  <2> QED BY <1>1, <2>1, SequenceOf
<1>5. ASSUME NEW q \in DOMAIN a
      PROVE  /\ a[q].action = b[q].action /\ a[q].resource = b[q].resource
             /\ a[q].status # "pending" => b[q].status # "pending"
  BY <1>1, <1>2 DEF JournalStep
<1> QED BY <1>4, <1>5 DEF Alike

LEMMA JournalAlike ==
  ASSUME CreateInv, NEW i \in Invocation, StepOf(i), NEW r \in Requests, Settles(r)
  PROVE  /\ intents'[r].resolved = intents[r].resolved /\ Settles(r)'
         /\ Alike(journal[r].steps, journal'[r].steps)
<1> USE DEF CreateInv
<1>1. intents'[r].resolved = intents[r].resolved /\ Settles(r)'
  <2>1. [Next]_vars
    BY DEF Next, StepOf
  <2> QED BY <2>1, ResolutionStays DEF Settles
<1>2. /\ journal \in [Requests -> Journal] /\ journal[r] \in Journal
      /\ journal[r].steps \in Seq(JournalStep)
  BY DEF Typing, Journal
<1>3. CASE Acquire(i) \/ FailCreate(i)
  <2>1. \/ journal'[r].steps = journal[r].steps
        \/ journal'[r].steps = Settled(journal[r].steps)
    BY <1>2, <1>3 DEF Acquire, FailCreate
  <2> QED BY <1>1, <1>2, <2>1, AlikeItself, AlikeSettled
<1>4. CASE StartStep(i) \/ Record(i)
  <2>1. PICK status \in {"running", "completed"} :
           \/ journal' = journal
           \/ journal' = [journal EXCEPT ![Request(i)].steps[run[i].at].status = status]
    BY <1>4 DEF StartStep, Record
  <2>2. CASE journal' = journal \/ Request(i) # r
    <3>1. journal'[r] = journal[r]
      BY <1>2, <2>1, <2>2
    <3> QED BY <1>1, <3>1, AlikeItself
  <2>3. CASE journal' # journal /\ Request(i) = r
    <3>1. journal'[r] = [journal[r] EXCEPT !.steps[run[i].at].status = status]
      BY <1>2, <2>1, <2>3
    <3>2. journal'[r].steps = [journal[r].steps EXCEPT ![run[i].at].status = status]
      BY <1>2, <3>1 DEF Journal
    <3> QED BY <1>1, <1>2, <3>2, AlikeMarked
  <2> QED BY <2>2, <2>3
<1>5. CASE Complete(i) \/ \E q \in Requests : BeginIntent(i, q)
  <2>1. PICK q, status : journal' = [journal EXCEPT ![q].status = status]
    BY <1>5 DEF Complete, BeginIntent
  <2>2. journal'[r] = journal[r] \/ journal'[r] = [journal[r] EXCEPT !.status = status]
    BY <1>2, <2>1
  <2>3. journal'[r].steps = journal[r].steps
    BY <1>2, <2>2 DEF Journal
  <2> QED BY <1>1, <2>3, AlikeItself
<1>6. CASE Enrich(i)
  <2>1. journal'[r].steps = journal[r].steps
    BY <1>2, <1>6 DEF Enrich, Journal, Settles
  <2> QED BY <1>1, <2>1, AlikeItself
<1>7. CASE journal' = journal
  BY <1>1, <1>7, AlikeItself
<1> QED BY <1>3, <1>4, <1>5, <1>6, <1>7, JournalKept

LEMMA SettledByEnrich ==
  ASSUME CreateInv, NEW i \in Invocation, StepOf(i), NEW r \in Requests, ~Settles(r),
         Settles(r)'
  PROVE  /\ Enrich(i) /\ r = Request(i) /\ run[i].stage = "resolved"
         /\ journal'[r].steps = CreateSteps(Resources, r.start)
<1> USE DEF CreateInv
<1>1. intents \in [Requests -> Intent] /\ journal \in [Requests -> Journal]
      /\ intents[r] \in Intent
  BY DEF Typing
<1>2. ASSUME NEW q \in Requests, NEW status, intents' = [intents EXCEPT ![q].status = status]
      PROVE  intents'[r].resolved = intents[r].resolved
  BY <1>1, <1>2 DEF Intent
<1>3. ~Acquire(i)
  BY <1>2, Asked DEF Acquire, Settles
<1>4. ~Complete(i) /\ ~FailCreate(i)
  BY <1>2, Asked DEF Complete, FailCreate, Settles
<1>5. \A q \in Requests : ~BeginIntent(i, q)
  BY <1>2 DEF BeginIntent, Settles
<1>6. ~Resolve(i)
  <2>1. CASE Resolve(i)
    <3>1. intents'[r].resolved = intents[r].resolved
      BY <1>1, <2>1 DEF Resolve, Intent
    <3> QED BY <3>1 DEF Settles
  <2> QED BY <2>1
<1>7. Enrich(i)
  <2>1. intents' # intents
    BY DEF Settles
  <2> QED BY <1>3, <1>4, <1>5, <1>6, <2>1, IntentsKept
<1>8. r = Request(i) /\ run[i].stage = "resolved"
  <2>1. intents'[r] # intents[r]
    BY DEF Settles
  <2> QED BY <1>1, <1>7, <2>1 DEF Enrich
<1>9. journal'[r].steps = CreateSteps(Resources, r.start)
  BY <1>1, <1>7, <1>8 DEF Enrich, Settles, Journal
<1> QED BY <1>7, <1>8, <1>9

LEMMA ShapeStep ==
  ASSUME CreateInv, CreateInv', ShapeInv, NEW i \in Invocation, StepOf(i)
  PROVE  ShapeInv'
<1> SUFFICES ASSUME NEW r \in Requests, Settles(r)'
             PROVE  Shaped(journal'[r].steps, r.start)
  BY DEF ShapeInv, Shaped, Starts, Creates
<1>1. r.start \in BOOLEAN
  BY RequestTypes
<1>2. CASE Settles(r)
  <2>1. journal[r].steps \in Seq(JournalStep) /\ journal'[r].steps \in Seq(JournalStep)
    BY DEF CreateInv, Typing, Journal
  <2>2. Alike(journal[r].steps, journal'[r].steps)
    BY <1>2, JournalAlike
  <2>3. Shaped(journal[r].steps, r.start)
    BY <1>2 DEF ShapeInv
  <2> QED BY <1>1, <2>1, <2>2, <2>3, ShapedAlike
<1>3. CASE ~Settles(r)
  <2>1. journal'[r].steps = CreateSteps(Resources, r.start)
    BY <1>3, SettledByEnrich
  <2> QED BY <1>1, <2>1, PlanShape
<1> QED BY <1>2, <1>3

(* The step an attempt is at.                                              *)
LEMMA AtWay ==
  ASSUME CreateInv, ShapeInv, NEW i \in Invocation, run[i].stage \in Defined,
         run[i].at <= Len(Steps(i))
  PROVE  /\ run[i].at \in DOMAIN Steps(i) /\ At(i) \in JournalStep /\ At(i) = Steps(i)[run[i].at]
         /\ Creates(At(i)) <=> run[i].at = 1
<1>1. run[i].at \in DOMAIN Steps(i) /\ At(i) \in JournalStep /\ At(i) = Steps(i)[run[i].at]
  BY AtIsStep DEF CreateInv, At
<1>2. Shaped(Steps(i), Request(i).start)
  BY DefinedWay
<1> QED BY <1>1, <1>2 DEF Shaped

LEMMA StepsAlike ==
  ASSUME CreateInv, ShapeInv, NEW i \in Invocation, StepOf(i), NEW j \in Invocation,
         run[j].stage \in Defined
  PROVE  /\ Request(j) \in Requests /\ Settles(Request(j))
         /\ intents'[Request(j)].resolved = intents[Request(j)].resolved
         /\ Alike(Steps(j), journal'[Request(j)].steps)
         /\ Steps(j) \in Seq(JournalStep) /\ 1 \in DOMAIN Steps(j)
<1>1. Request(j) \in Requests /\ Settles(Request(j)) /\ Steps(j) = journal[Request(j)].steps
      /\ Shaped(Steps(j), Request(j).start)
  BY DefinedWay
<1>2. Steps(j) \in Seq(JournalStep)
  BY <1>1, StepsTypes DEF CreateInv
<1>3. 1 \in DOMAIN Steps(j)
  BY <1>1, <1>2 DEF Shaped
<1>4. PICK r \in Requests : r = Request(j)
  BY <1>1
<1>5. intents'[r].resolved = intents[r].resolved /\ Alike(journal[r].steps, journal'[r].steps)
  BY <1>1, <1>4, JournalAlike
<1> QED BY <1>1, <1>2, <1>3, <1>4, <1>5

LEMMA WhereStep ==
  ASSUME CreateInv, ShapeInv, WhereInv, NEW i \in Invocation, StepOf(i)
  PROVE  WhereInv'
<1> DEFINE Fits(local) == /\ local.stage \in InWorktree => local.at = 1
                          /\ local.stage \in {"service", "inspect"} => local.at # 1
<1>0. Turns(i) /\ Reaches(i)
  BY RunSteps DEF CreateInv
<1>1. ASSUME NEW j \in Invocation \ {i} PROVE Fits(run'[j])
  <2>1. run'[j] = run[j]
    BY <1>0 DEF Turns
  <2> QED BY <2>1 DEF WhereInv
<1>2. ASSUME StartStep(i) PROVE Fits(run'[i])
  <2>1. run[i].stage = "stepping" /\ run[i].at <= Len(Steps(i)) /\ run[i] \in Local
    BY <1>2 DEF StartStep, CreateInv, Typing
  <2>2. Creates(At(i)) <=> run[i].at = 1
    BY <2>1, AtWay DEF Defined
  <2>3. /\ run'[i].stage = "target" => Creates(At(i)) /\ run'[i].at = run[i].at
        /\ run'[i].stage \in {"service", "inspect"} => ~Creates(At(i)) /\ run'[i].at = run[i].at
        /\ run'[i].stage \in {"stepping", "target", "service", "inspect"}
    BY <1>2, <2>1 DEF StartStep, CreateInv, Typing, Local, Creates
  <2> QED BY <2>2, <2>3 DEF InWorktree
<1>3. ASSUME ~StartStep(i) PROVE Fits(run'[i])
  <2>1. run'[i].stage \notin {"target", "service", "inspect"}
    BY <1>0, <1>3 DEF Reaches
  <2>2. ASSUME run'[i].stage \in InWorktree
        PROVE  run[i].stage \in InWorktree /\ ~RecordDefinition(i) /\ ~Record(i)
    BY <1>0, <2>1, <2>2 DEF Reaches, InWorktree, ClaimStaging, ContinueStaging, AddWorktree,
                      Mark, Checkout, AdoptTarget, Publish, RecordDefinition, Record
  <2>3. ASSUME run'[i].stage \in InWorktree PROVE run'[i].at = run[i].at
    BY <1>0, <1>3, <2>2, <2>3 DEF Turns, Owning
  <2> QED BY <2>1, <2>2, <2>3 DEF WhereInv
<1>4. Fits(run'[i])
  BY <1>2, <1>3
<1>5. ASSUME NEW j \in Invocation, run'[j].stage = "inspect"
      PROVE  (At(j).resource = "worktree")'
  <2>1. /\ run[j].stage \in Defined /\ run'[j].request = run[j].request /\ run'[j].at = run[j].at
        /\ run[j].at \in DOMAIN Steps(j) /\ At(j).resource = "worktree"
    <3>1. CASE j = i
      <4>1. StartStep(i)
        BY <1>0, <1>5, <3>1 DEF Reaches
      <4>2. /\ run[i].stage = "stepping" /\ run'[i].request = run[i].request
            /\ run'[i].at = run[i].at /\ At(i).resource = "worktree" /\ run[i].at <= Len(Steps(i))
        BY <1>5, <3>1, <4>1 DEF StartStep, CreateInv, Typing, Local
      <4> QED BY <3>1, <4>2, AtWay DEF Defined
    <3>2. CASE j # i
      <4>1. run'[j] = run[j]
        BY <1>0, <3>2 DEF Turns
      <4>2. run[j].stage = "inspect" /\ run[j].at \in DOMAIN Steps(j)
        BY <1>5, <4>1 DEF CreateInv, ProgressInv, Progress, AtStep
      <4> QED BY <4>1, <4>2 DEF WhereInv, Defined, AtStep
    <3> QED BY <3>1, <3>2
  <2>2. Alike(Steps(j), journal'[Request(j)].steps)
    BY <2>1, StepsAlike
  <2>3. (At(j) = journal[Request(j)].steps[run[j].at])'
    BY DEF At, Steps
  <2>4. At(j)' = journal'[Request(j)].steps[run[j].at]
    BY <2>1, <2>3 DEF Request
  <2> QED BY <2>1, <2>2, <2>4 DEF Alike, At
<1> QED BY <1>1, <1>4, <1>5 DEF WhereInv

-----------------------------------------------------------------------------
(* Whose branch, directory and target it is.                               *)
LEMMA MadeFacts ==
  ASSUME CreateInv, MadeInv, BranchesApart, NEW r \in Requests, Settles(r)
  PROVE  /\ refs[r.branch] # NoCommit => refs[r.branch] = intents[r].resolved.sha
         /\ LET t == intents[r].resolved.token IN
            staging[t] # Absent =>
               /\ staging[t].head = intents[r].resolved.sha
               /\ staging[t].token \in {NoOne, t}
               /\ staging[t].branch \in {NoBranch, r.branch}
         /\ target[r.path] # Absent =>
               target[r.path] = Tree(intents[r].resolved.token, r.branch, intents[r].resolved.sha)
<1> USE DEF CreateInv
<1>0. r.path \in Path /\ r.branch \in Branch /\ intents[r].resolved.token \in Tokens
  BY RequestTypes, SettlesFacts
<1>1. refs[r.branch] # NoCommit => refs[r.branch] = intents[r].resolved.sha
  BY <1>0, SameBranch DEF MadeInv
<1>2. LET t == intents[r].resolved.token IN
      staging[t] # Absent =>
         /\ staging[t].head = intents[r].resolved.sha
         /\ staging[t].token \in {NoOne, t}
         /\ staging[t].branch \in {NoBranch, r.branch}
  BY <1>0, SameToken DEF MadeInv
<1>3. target[r.path] # Absent =>
         target[r.path] = Tree(intents[r].resolved.token, r.branch, intents[r].resolved.sha)
  BY <1>0, SamePath DEF MadeInv
<1> QED BY <1>1, <1>2, <1>3

(* The same, of the request of an attempt.                                 *)
LEMMA MadeWay ==
  ASSUME CreateInv, ShapeInv, MadeInv, BranchesApart, NEW i \in Invocation,
         run[i].stage \in Defined
  PROVE  /\ Ref(i) # NoCommit => Ref(i) = Sha(i)
         /\ Staged(i) # Absent => /\ Staged(i).head = Sha(i)
                                  /\ Staged(i).token \in {NoOne, Token(i)}
                                  /\ Staged(i).branch \in {NoBranch, Request(i).branch}
         /\ There(i) # Absent => Matches(i, There(i))
<1>1. /\ Request(i) \in Requests /\ Settles(Request(i))
      /\ Token(i) = intents[Request(i)].resolved.token
      /\ Sha(i) = intents[Request(i)].resolved.sha
  BY DefinedWay
<1>2. PICK r \in Requests : r = Request(i)
  BY <1>1
<1> QED BY <1>1, <1>2, MadeFacts DEF Ref, Staged, There, Matches

LEMMA SettledStays ==
  ASSUME CreateInv, NEW i \in Invocation, StepOf(i), NEW r \in Requests, Settles(r)
  PROVE  intents'[r].resolved = intents[r].resolved /\ Settles(r)'
BY JournalAlike

(* A Worktree with a commit is one.                                        *)
LEMMA HeadIsThere ==
  ASSUME NEW tree, tree.head # NoCommit PROVE tree # Absent /\ tree # Foreign
BY DEF Absent, Foreign, Tree

LEMMA CheckoutHead ==
  ASSUME CreateInv, ShapeInv, MadeInv, BranchesApart, NEW i \in Invocation, Checkout(i)
  PROVE  /\ run[i].stage \in Defined
         /\ \/ staging' = staging /\ refs' = refs
            \/ /\ staging' = [staging EXCEPT ![Token(i)] =
                                 Tree(Token(i), Request(i).branch, Sha(i))]
               /\ refs' = [refs EXCEPT ![Request(i).branch] = Sha(i)]
<1>1. run[i].stage \in Defined
  BY DEF Checkout, Defined, AtStep, InWorktree
<1>2. Ref(i) # NoCommit => Ref(i) = Sha(i)
  BY <1>1, MadeWay
<1> QED BY <1>1, <1>2 DEF Checkout

LEMMA MadeStep ==
  ASSUME CreateInv, CreateInv', ShapeInv, MadeInv, AheadInv, BranchesApart,
         NEW i \in Invocation, StepOf(i)
  PROVE  MadeInv'
<1> DEFINE req == Request(i)
<1>0. /\ staging \in [Tokens -> Trees] /\ refs \in [Branch -> Commit \cup {NoCommit}]
      /\ target \in [Path -> Trees]
  BY DEF CreateInv, Typing
<1>1. ASSUME NEW b \in Branch, refs'[b] # NoCommit
      PROVE  \E r \in Requests :
                r.branch = b /\ Settles(r)' /\ refs'[b] = intents'[r].resolved.sha
  <2>1. CASE refs'[b] = refs[b]
    BY <1>1, <2>1, SettledStays DEF MadeInv
  <2>2. CASE refs'[b] # refs[b]
    <3>1. Checkout(i)
      BY <2>2, RefsKept
    <3>2. run[i].stage \in Defined /\ refs' = [refs EXCEPT ![req.branch] = Sha(i)]
      BY <2>2, <3>1, CheckoutHead
    <3>3. b = req.branch /\ refs'[b] = Sha(i)
      BY <1>0, <2>2, <3>2
    <3>4. req \in Requests /\ Settles(req) /\ Sha(i) = intents[req].resolved.sha
      BY <3>2, DefinedWay
    <3>5. PICK r \in Requests : r = req
      BY <3>4
    <3> QED BY <3>3, <3>4, <3>5, SettledStays
  <2> QED BY <2>1, <2>2
<1>2. ASSUME NEW t \in receipts'
      PROVE  \E r \in Requests : Settles(r)' /\ intents'[r].resolved.token = t
  <2>1. CASE t \in receipts
    BY <2>1, SettledStays DEF MadeInv
  <2>2. CASE t \notin receipts
    <3>1. ClaimStaging(i)
      BY <1>2, <2>2, ReceiptsKept DEF Tidy
    <3>2. run[i].stage \in Defined /\ t = Token(i)
      BY <1>2, <2>2, <3>1 DEF ClaimStaging, Receipted, Defined, AtStep, InWorktree
    <3>3. req \in Requests /\ Settles(req) /\ Token(i) = intents[req].resolved.token
      BY <3>2, DefinedWay
    <3>4. PICK r \in Requests : r = req
      BY <3>3
    <3> QED BY <3>2, <3>3, <3>4, SettledStays
  <2> QED BY <2>1, <2>2
<1>3. ASSUME NEW t \in Tokens, staging'[t] # Absent
      PROVE  \E r \in Requests :
                /\ Settles(r)' /\ intents'[r].resolved.token = t
                /\ staging'[t].head = intents'[r].resolved.sha
                /\ staging'[t].token \in {NoOne, t}
                /\ staging'[t].branch \in {NoBranch, r.branch}
  <2>1. CASE staging'[t] = staging[t]
    <3>1. PICK r \in Requests :
             /\ Settles(r) /\ intents[r].resolved.token = t
             /\ staging[t].head = intents[r].resolved.sha
             /\ staging[t].token \in {NoOne, t}
             /\ staging[t].branch \in {NoBranch, r.branch}
      BY <1>3, <2>1 DEF MadeInv
    <3>2. intents'[r].resolved = intents[r].resolved /\ Settles(r)'
      BY <3>1, SettledStays
    <3> QED BY <2>1, <3>1, <3>2
  <2>2. CASE staging'[t] # staging[t]
    <3>1. run[i].stage \in Building /\ t = Token(i)
      BY <2>2, StagingElsewhere DEF CreateInv
    <3>2. run[i].stage \in Defined
      BY <3>1 DEF Building, Defined, AtStep, InWorktree
    <3>3. /\ req \in Requests /\ Settles(req)
          /\ Token(i) = intents[req].resolved.token /\ Sha(i) = intents[req].resolved.sha
      BY <3>2, DefinedWay
    <3>4. /\ staging'[t].head = Sha(i) /\ staging'[t].token \in {NoOne, t}
          /\ staging'[t].branch \in {NoBranch, req.branch}
      <4>1. CASE AddWorktree(i)
        BY <1>0, <3>1, <4>1 DEF AddWorktree, Tree
      <4>2. CASE Mark(i)
        <5>1. staging[t] # Absent /\ staging' = [staging EXCEPT ![t].token = t]
          BY <3>1, <4>2 DEF Mark, AheadInv, Staged
        <5>2. staging[t].head = Sha(i) /\ staging[t].branch \in {NoBranch, req.branch}
          BY <3>1, <3>2, <5>1, MadeWay DEF Staged
        <5>3. staging[t] \in Trees
          BY <1>0
        <5>4. staging'[t] = [staging[t] EXCEPT !.token = t]
          BY <1>0, <5>1
        <5> QED BY <5>2, <5>3, <5>4 DEF Trees
      <4>3. CASE Checkout(i)
        <5>1. staging'[t] = Tree(Token(i), req.branch, Sha(i))
          BY <1>0, <2>2, <3>1, <4>3, CheckoutHead
        <5> QED BY <3>1, <5>1 DEF Tree
      <4>4. CASE Publish(i)
        BY <1>0, <1>3, <2>2, <3>1, <4>4 DEF Publish
      <4> QED BY <2>2, <4>1, <4>2, <4>3, <4>4, StagingKept
    <3>5. PICK r \in Requests : r = req
      BY <3>3
    <3> QED BY <3>1, <3>3, <3>4, <3>5, SettledStays
  <2> QED BY <2>1, <2>2
<1>4. ASSUME NEW p \in Path, target'[p] # Absent
      PROVE  \E r \in Requests :
                /\ r.path = p /\ Settles(r)'
                /\ target'[p] = Tree(intents'[r].resolved.token, r.branch,
                                     intents'[r].resolved.sha)
  <2>1. CASE target'[p] = target[p]
    <3>1. PICK r \in Requests :
             /\ r.path = p /\ Settles(r)
             /\ target[p] = Tree(intents[r].resolved.token, r.branch, intents[r].resolved.sha)
      BY <1>4, <2>1 DEF MadeInv
    <3>2. intents'[r].resolved = intents[r].resolved /\ Settles(r)'
      BY <3>1, SettledStays
    <3> QED BY <2>1, <3>1, <3>2
  <2>2. CASE target'[p] # target[p]
    <3>1. Publish(i)
      BY <2>2, TargetKept
    <3>2. run[i].stage = "publish" /\ p = req.path /\ target'[p] = Staged(i)
      BY <1>0, <2>2, <3>1 DEF Publish
    <3>3. Matches(i, Staged(i)) /\ run[i].stage \in Defined
      BY <3>2 DEF CreateInv, StagingInv, Defined, AtStep, InWorktree
    <3>4. /\ req \in Requests /\ Settles(req)
          /\ Token(i) = intents[req].resolved.token /\ Sha(i) = intents[req].resolved.sha
      BY <3>3, DefinedWay
    <3>5. PICK r \in Requests : r = req
      BY <3>4
    <3> QED BY <3>2, <3>3, <3>4, <3>5, SettledStays DEF Matches
  <2> QED BY <2>1, <2>2
<1> QED BY <1>1, <1>2, <1>3, <1>4 DEF MadeInv, Settles

-----------------------------------------------------------------------------
(* What is there stays, and nobody else touches what an attempt builds.    *)
LEMMA TargetStays ==
  ASSUME CreateInv, NEW i \in Invocation, StepOf(i), NEW p \in Path, target[p] # Absent
  PROVE  target'[p] = target[p]
<1>1. CASE Publish(i)
  <2>1. \/ target' = target
        \/ There(i) = Absent /\ target' = [target EXCEPT ![Request(i).path] = Staged(i)]
    BY <1>1 DEF Publish
  <2>2. target \in [Path -> Trees]
    BY DEF CreateInv, Typing
  <2>3. There(i) = Absent => p # Request(i).path
    BY DEF There
  <2> QED BY <2>1, <2>2, <2>3
<1> QED BY <1>1, TargetKept

LEMMA StagedElsewhere ==
  ASSUME CreateInv, NEW i \in Invocation, StepOf(i), NEW j \in Invocation \ {i},
         run[j].stage \in Defined
  PROVE  staging'[Token(j)] = staging[Token(j)]
<1> USE DEF CreateInv
<1>1. Token(j) \in Tokens
  BY DefinedFacts
<1>2. run[i].stage \in Building => run[i].stage \in Defined
  BY DEF Building, Defined, AtStep, InWorktree
<1>3. run[i].stage \in Building => Token(i) # Token(j)
  BY <1>2, Apart
<1> QED BY <1>1, <1>3, StagingElsewhere

(* What an attempt has got past.                                           *)
LEMMA AtMoves ==
  ASSUME CreateInv, ShapeInv, NEW i \in Invocation, StepOf(i),
         run'[i].stage \in Defined, run'[i].at # 1
  PROVE  run[i].stage \in Defined /\ (run[i].at # 1 \/ run[i].stage = "recording")
<1>0. Turns(i) /\ Reaches(i)
  BY RunSteps DEF CreateInv
<1>1. run[i] \in Local
  BY DEF CreateInv, Typing
<1>2. CASE RecordDefinition(i)
  <2>1. run'[i].at = 1
    BY <1>1, <1>2 DEF RecordDefinition, CreateInv, Typing, Local
  <2> QED BY <2>1
<1>3. CASE Record(i)
  BY <1>3 DEF Record, Defined, AtStep
<1>4. CASE StartStep(i)
  <2>1. run[i].stage \in Defined /\ run[i].at <= Len(Steps(i))
    BY <1>4 DEF StartStep, Defined
  <2>2. Creates(At(i)) <=> run[i].at = 1
    BY <2>1, AtWay
  <2>3. Creates(At(i)) => ~Skips(At(i))
    BY DEF Creates, Skips, Reconciled
  <2>4. ~Skips(At(i)) => run'[i].at = run[i].at
    BY <1>1, <1>4 DEF StartStep, CreateInv, Typing, Local
  <2> QED BY <2>1, <2>2, <2>3, <2>4
<1>5. CASE ~RecordDefinition(i) /\ ~Record(i) /\ ~StartStep(i)
  <2>1. run'[i].at = run[i].at
    BY <1>0, <1>5 DEF Turns, Owning, Defined, AtStep
  <2>2. run'[i].stage \notin {"stepping", "service", "target", "inspect"}
    BY <1>0, <1>5 DEF Reaches
  <2>3. run'[i].stage \in {"staging", "mark", "checkout", "publish", "tidy", "recording",
                        "observed"}
    BY <2>2 DEF Defined, AtStep, InWorktree
  <2>4. run[i].stage \in Defined
    BY <1>0, <2>3 DEF Reaches, ClaimStaging, ContinueStaging, AddWorktree, Mark, Checkout,
                      AdoptTarget, Publish, Tidy, Inspect, ServiceStep, Observe, Defined,
                      AtStep, InWorktree
  <2> QED BY <2>1, <2>4
<1> QED BY <1>2, <1>3, <1>4, <1>5

LEMMA RequestStays ==
  ASSUME CreateInv, NEW i \in Invocation, StepOf(i), run'[i].stage \in Defined
  PROVE  run[i].stage # "idle" /\ run'[i].request = run[i].request
<1>1. Turns(i) /\ run \in [Invocation -> Local]
  BY RunSteps DEF CreateInv, Typing
<1>2. ASSUME NEW r, NEW intent, Join(i, r, intent) PROVE run'[i].stage = "begun"
  BY <1>1, <1>2 DEF Join, Idle
<1>3. ~Joins(i)
  BY <1>2 DEF Joins, BeginIntent, FindIntent, Defined, AtStep, InWorktree
<1> QED BY <1>1, <1>3 DEF Turns, Defined, AtStep, InWorktree

LEMMA AheadStep ==
  ASSUME CreateInv, CreateInv', ShapeInv, WhereInv, MadeInv, AheadInv, BranchesApart,
         NEW i \in Invocation, StepOf(i)
  PROVE  AheadInv'
<1> DEFINE Past(local) ==
      /\ local.stage \in {"mark", "checkout"} => staging'[local.resolved.token] # Absent
      /\ local.stage = "checkout" => staging'[local.resolved.token].token = local.resolved.token
      /\ local.stage \in {"tidy", "recording"} => target'[local.request.path] # Absent
      /\ local.stage \in Defined /\ local.at # 1 => target'[local.request.path] # Absent
<1>0. Turns(i) /\ Reaches(i)
  BY RunSteps DEF CreateInv
<1>1. ASSUME NEW j \in Invocation \ {i} PROVE Past(run'[j])
  <2>1. run'[j] = run[j]
    BY <1>0 DEF Turns
  <2>2. CASE run[j].stage \in Defined
    <3>1. staging'[Token(j)] = staging[Token(j)] /\ Request(j).path \in Path
      BY <2>2, StagedElsewhere, DefinedWay
    <3>2. There(j) # Absent => target'[Request(j).path] # Absent
      BY <3>1, TargetStays DEF There
    <3> QED BY <2>1, <2>2, <3>1, <3>2 DEF AheadInv, Token, Request, Staged, There
  <2>3. CASE run[j].stage \notin Defined
    BY <2>1, <2>3 DEF Defined, AtStep, InWorktree
  <2> QED BY <2>2, <2>3
<1>2. /\ staging \in [Tokens -> Trees] /\ target \in [Path -> Trees]
      /\ run[i] \in Local
  BY DEF CreateInv, Typing
<1>3. ASSUME run[i].stage \in Defined
      PROVE  /\ Token(i) \in Tokens /\ Sha(i) # NoCommit /\ Request(i).path \in Path
             /\ There(i) # Absent => target'[Request(i).path] # Absent
  BY <1>3, DefinedWay, TargetStays DEF There
<1>4. ASSUME run'[i].stage = "mark" PROVE Past(run'[i])
  <2>1. /\ run[i].stage = "staging" /\ To(i, "mark")
        /\ \/ staging' = staging /\ Staged(i) # Absent
           \/ staging' = [staging EXCEPT ![Token(i)] = Tree(NoOne, NoBranch, Sha(i))]
    BY <1>0, <1>4 DEF Reaches, ContinueStaging, AddWorktree, MayContinue, disk
  <2>2. run[i].stage \in Defined /\ run[i].at = 1
    BY <2>1 DEF WhereInv, Defined, AtStep, InWorktree
  <2>3. run'[i].resolved = run[i].resolved /\ run'[i].at = 1
    BY <1>2, <2>1, <2>2 DEF To, CreateInv, Typing, Local
  <2>4. staging'[Token(i)] # Absent
    BY <1>2, <1>3, <2>1, <2>2, HeadIsThere DEF Tree, Staged
  <2> QED BY <1>4, <2>3, <2>4 DEF Token
<1>5. ASSUME run'[i].stage = "checkout" PROVE Past(run'[i])
  <2>1. /\ run[i].stage = "mark" /\ To(i, "checkout")
        /\ staging' = [staging EXCEPT ![Token(i)].token = Token(i)]
    BY <1>0, <1>5 DEF Reaches, Mark
  <2>2. run[i].stage \in Defined /\ run[i].at = 1 /\ Staged(i) # Absent
    BY <2>1 DEF WhereInv, AheadInv, Defined, AtStep, InWorktree
  <2>3. run'[i].resolved = run[i].resolved /\ run'[i].at = 1
    BY <1>2, <2>1, <2>2 DEF To, CreateInv, Typing, Local
  <2>4. Staged(i).head # NoCommit /\ Staged(i) \in Trees
    BY <1>2, <1>3, <2>2, MadeWay DEF Staged
  <2>5. staging'[Token(i)] = [Staged(i) EXCEPT !.token = Token(i)]
    BY <1>2, <1>3, <2>1, <2>2 DEF Staged
  <2>6. staging'[Token(i)].token = Token(i) /\ staging'[Token(i)].head # NoCommit
    BY <2>4, <2>5 DEF Trees
  <2>7. staging'[Token(i)] # Absent
    BY <2>6, HeadIsThere
  <2> QED BY <1>5, <2>3, <2>6, <2>7 DEF Token
<1>6. ASSUME run'[i].stage \in {"tidy", "recording"}
      PROVE  target'[Request(i).path] # Absent /\ run'[i].request = run[i].request
  <2>1. \/ AdoptTarget(i) \/ (Publish(i) /\ There(i) = Absent)
        \/ Tidy(i) \/ Inspect(i) \/ ServiceStep(i)
    BY <1>0, <1>6 DEF Reaches
  <2>2. run[i].stage \in Defined
    BY <2>1 DEF AdoptTarget, Publish, Tidy, Inspect, ServiceStep, Defined, AtStep, InWorktree
  <2>3. run'[i].request = run[i].request
    BY <1>2, <2>1 DEF AdoptTarget, Publish, Tidy, Inspect, ServiceStep, To, CreateInv, Typing,
                      Local
  <2>4. CASE Publish(i) /\ There(i) = Absent
    <3>1. target'[Request(i).path] = Staged(i) /\ run[i].stage = "publish"
      BY <1>2, <1>3, <2>2, <2>4 DEF Publish
    <3>2. Staged(i).head = Sha(i)
      BY <3>1 DEF CreateInv, StagingInv, Matches, Tree
    <3> QED BY <1>3, <2>2, <2>3, <3>1, <3>2, HeadIsThere
  <2>5. CASE AdoptTarget(i) \/ Tidy(i)
    BY <1>3, <2>2, <2>3, <2>5 DEF AdoptTarget, MayAdopt, Tidy, MayTidy
  <2>6. CASE Inspect(i) \/ ServiceStep(i)
    <3>1. run[i].at # 1
      BY <2>6 DEF Inspect, ServiceStep, WhereInv
    <3>2. There(i) # Absent
      BY <2>2, <3>1 DEF AheadInv
    <3> QED BY <1>3, <2>2, <2>3, <3>2
  <2> QED BY <2>1, <2>4, <2>5, <2>6
<1>7. ASSUME run'[i].stage \in Defined, run'[i].at # 1
      PROVE  target'[Request(i).path] # Absent
  <2>1. run[i].stage \in Defined /\ (run[i].at # 1 \/ run[i].stage = "recording")
    BY <1>7, AtMoves
  <2>2. There(i) # Absent
    BY <2>1 DEF AheadInv
  <2> QED BY <1>3, <2>1, <2>2
<1>8. run'[i].stage \in Defined => run'[i].request = run[i].request
  BY RequestStays
<1>9. Past(run'[i])
  BY <1>4, <1>5, <1>6, <1>7, <1>8 DEF Request
<1> QED BY <1>1, <1>9 DEF AheadInv, Staged, There, Token, Request

-----------------------------------------------------------------------------
(* Traces are left by the attempt that has the lease.                      *)
LEMMA TraceNew ==
  ASSUME CreateInv, ShapeInv, MadeInv, BranchesApart, NEW i \in Invocation, StepOf(i),
         NEW r \in Requests, Settles(r)
  PROVE  /\ refs[r.branch] = NoCommit /\ refs'[r.branch] # NoCommit =>
               run[i].stage = "checkout" /\ Request(i) = r
         /\ ~Trace(r) /\ Trace(r)' => run[i].stage \in InWorktree /\ Request(i) = r
<1> USE DEF CreateInv
<1>0. /\ r.path \in Path /\ r.branch \in Branch
      /\ intents'[r].resolved = intents[r].resolved
      /\ refs \in [Branch -> Commit \cup {NoCommit}] /\ target \in [Path -> Trees]
  BY RequestTypes, SettledStays DEF Typing
<1>1. ASSUME refs[r.branch] = NoCommit, refs'[r.branch] # NoCommit
      PROVE  run[i].stage = "checkout" /\ Request(i) = r
  <2>1. Checkout(i)
    BY <1>1, RefsKept
  <2>2. run[i].stage \in Defined /\ refs' = [refs EXCEPT ![Request(i).branch] = Sha(i)]
    BY <1>1, <2>1, CheckoutHead
  <2>3. r.branch = Request(i).branch
    BY <1>0, <1>1, <2>2
  <2>4. Request(i) \in Requests /\ Settles(Request(i))
    BY <2>2, DefinedWay
  <2> QED BY <2>1, <2>3, <2>4, SameBranch DEF Checkout
<1>2. ASSUME intents[r].resolved.token \notin receipts, intents'[r].resolved.token \in receipts'
      PROVE  run[i].stage = "target" /\ Request(i) = r
  <2>1. ClaimStaging(i)
    BY <1>0, <1>2, ReceiptsKept DEF Tidy
  <2>2. run[i].stage \in Defined /\ intents[r].resolved.token = Token(i)
    BY <1>0, <1>2, <2>1 DEF ClaimStaging, Receipted, Defined, AtStep, InWorktree
  <2>3. /\ Request(i) \in Requests /\ Settles(Request(i))
        /\ Token(i) = intents[Request(i)].resolved.token
    BY <2>2, DefinedWay
  <2>4. PICK q \in Requests : q = Request(i)
    BY <2>3
  <2>5. q = r
    BY <2>2, <2>3, <2>4, SameToken
  <2> QED BY <2>1, <2>4, <2>5 DEF ClaimStaging
<1>3. ASSUME target[r.path] = Absent, target'[r.path] # Absent
      PROVE  run[i].stage = "publish" /\ Request(i) = r
  <2>1. Publish(i)
    BY <1>3, TargetKept
  <2>2. run[i].stage \in Defined /\ r.path = Request(i).path
    BY <1>0, <1>3, <2>1 DEF Publish, Defined, AtStep, InWorktree
  <2>3. Request(i) \in Requests /\ Settles(Request(i))
    BY <2>2, DefinedWay
  <2> QED BY <2>1, <2>2, <2>3, SamePath DEF Publish
<1> QED BY <1>1, <1>2, <1>3 DEF Trace, InWorktree

LEMMA NoTraceYet ==
  ASSUME CreateInv, MadeInv, BranchesApart, NEW i \in Invocation, StepOf(i),
         NEW r \in Requests, ~Settles(r), Settles(r)'
  PROVE  ~Trace(r)'
<1> USE DEF CreateInv
<1>1. Enrich(i) /\ r = Request(i) /\ run[i].stage = "resolved"
  BY SettledByEnrich
<1>2. /\ Token(i) = <<i, r>> /\ Known(r) /\ r.path \in Path /\ r.branch \in Branch
      /\ run[i].stage # "idle"
  BY <1>1, Asked, RequestTypes DEF ProgressInv, Progress
<1>3. receipts' = receipts /\ target' = target /\ refs' = refs
  BY <1>1 DEF Enrich, disk
<1>4. intents'[r].resolved = run[i].resolved
  BY <1>1 DEF Enrich, Settles, Typing, Intent
<1>5. Token(i) \notin receipts
  <2> SUFFICES ASSUME Token(i) \in receipts PROVE FALSE
    OBVIOUS
  <2>1. PICK q \in Requests : Settles(q) /\ intents[q].resolved.token = Token(i)
    BY DEF MadeInv
  <2>2. PICK j \in Invocation : intents[q].resolved.token = <<j, q>>
    BY <2>1, SettlesFacts
  <2>3. <<j, q>> = <<i, r>>
    BY <1>2, <2>1, <2>2
  <2>4. <<j, q>>[2] = <<i, r>>[2]
    BY <2>3
  <2> QED BY <2>1, <2>4
<1>6. ASSUME NEW q \in Requests, Settles(q), q.path = r.path PROVE FALSE
  BY <1>2, <1>6, SettlesFacts DEF PathsInv
<1>7. target[r.path] = Absent
  BY <1>2, <1>6 DEF MadeInv
<1>8. refs[r.branch] = NoCommit
  BY <1>2, <1>6 DEF MadeInv, BranchesApart
<1>9. ~(intents'[r].resolved.token \in receipts' \/ target'[r.path] # Absent
        \/ refs'[r.branch] # NoCommit)
  BY <1>3, <1>4, <1>5, <1>7, <1>8 DEF Token
<1> QED BY <1>9 DEF Trace

LEMMA TraceStep ==
  ASSUME CreateInv, ShapeInv, WhereInv, MadeInv, TraceInv, BranchesApart,
         NEW i \in Invocation, StepOf(i)
  PROVE  TraceInv'
<1>0. Turns(i) /\ Reaches(i) /\ run[i] \in Local
  BY RunSteps DEF CreateInv, Typing
<1>1. ASSUME NEW r \in Requests, Settles(r)', Trace(r)'
      PROVE  journal'[r].steps[1].status # "pending"
  <2>1. Settles(r)
    BY <1>1, NoTraceYet
  <2>2. Alike(journal[r].steps, journal'[r].steps) /\ 1 \in DOMAIN journal[r].steps
    <3>1. Shaped(journal[r].steps, r.start)
      BY <2>1 DEF ShapeInv
    <3> QED BY <2>1, <3>1, JournalAlike, StepsTypes DEF Shaped, CreateInv
  <2>3. journal[r].steps[1].status # "pending"
    <3>1. CASE Trace(r)
      BY <2>1, <3>1 DEF TraceInv
    <3>2. CASE ~Trace(r)
      <4>1. run[i].stage \in InWorktree /\ Request(i) = r
        BY <1>1, <2>1, <3>2, TraceNew
      <4> QED BY <4>1 DEF TraceInv, Steps
    <3> QED BY <3>1, <3>2
  <2> QED BY <2>2, <2>3 DEF Alike
<1>2. ASSUME NEW j \in Invocation \ {i}
      PROVE  /\ run'[j] = run[j]
             /\ run[j].stage \in InWorktree => journal'[Request(j)].steps[1].status # "pending"
             /\ run[j].stage = "target" /\ Trace(Request(j))' => run[j].previous # "pending"
             /\ run[j].stage = "staging" /\ refs'[Request(j).branch] # NoCommit =>
                   run[j].previous # "pending"
  <2>1. run'[j] = run[j]
    BY <1>0 DEF Turns
  <2>2. CASE run[j].stage \in InWorktree
    <3>1. run[j].stage \in Defined
      BY <2>2 DEF Defined, AtStep
    <3>2. Alike(Steps(j), journal'[Request(j)].steps) /\ 1 \in DOMAIN Steps(j)
      BY <3>1, StepsAlike
    <3>3. journal'[Request(j)].steps[1].status # "pending"
      BY <2>2, <3>2 DEF Alike, TraceInv
    <3>4. PICK r \in Requests : r = Request(j) /\ Settles(r) /\ Request(j)' = r
      BY <2>1, <3>1, DefinedWay DEF Request
    <3>5. Request(i) # r \/ run[i].stage \notin Defined
      BY <3>1, <3>4, AloneWay
    <3>6. /\ Trace(r)' => Trace(r)
          /\ refs'[r.branch] # NoCommit => refs[r.branch] # NoCommit
      BY <3>4, <3>5, TraceNew DEF Defined, AtStep, InWorktree
    <3>7. /\ run[j].stage = "target" /\ Trace(r)' => run[j].previous # "pending"
          /\ run[j].stage = "staging" /\ refs'[r.branch] # NoCommit =>
                run[j].previous # "pending"
      BY <3>4, <3>6 DEF TraceInv, Ref
    <3>8. Trace(Request(j))' <=> Trace(r)'
      BY <3>4 DEF Trace
    <3> QED BY <2>1, <3>3, <3>4, <3>7, <3>8
  <2> QED BY <2>1, <2>2 DEF InWorktree
<1>3. ASSUME run'[i].stage \in InWorktree
      PROVE  run[i].stage \in Defined /\ run'[i].request = run[i].request
  <2>1. \/ StartStep(i) \/ ClaimStaging(i) \/ ContinueStaging(i) \/ AddWorktree(i) \/ Mark(i)
        \/ Checkout(i) \/ AdoptTarget(i) \/ Publish(i)
    BY <1>0, <1>3 DEF Reaches, InWorktree
  <2>2. run[i].stage \in Defined
    BY <2>1 DEF StartStep, ClaimStaging, ContinueStaging, AddWorktree, Mark, Checkout,
                AdoptTarget, Publish, Defined, AtStep, InWorktree
  <2> QED BY <1>3, <2>2, RequestStays DEF Defined, AtStep
<1>4. ASSUME run'[i].stage \in InWorktree
      PROVE  journal'[Request(i)].steps[1].status # "pending"
  <2>1. Alike(Steps(i), journal'[Request(i)].steps) /\ 1 \in DOMAIN Steps(i)
        /\ Request(i) \in Requests /\ Steps(i) \in Seq(JournalStep)
    BY <1>3, <1>4, StepsAlike
  <2>2. CASE run[i].stage \in InWorktree
    BY <2>1, <2>2 DEF Alike, TraceInv
  <2>3. CASE run[i].stage \notin InWorktree
    <3>1. StartStep(i) /\ run'[i].stage = "target"
      BY <1>0, <1>4, <2>3 DEF Reaches, InWorktree, ClaimStaging, ContinueStaging, AddWorktree,
                              Mark, Checkout, AdoptTarget, Publish
    <3>2. /\ run[i].at <= Len(Steps(i)) /\ run[i].stage \in Defined /\ Creates(At(i))
          /\ ~Skips(At(i))
      BY <1>0, <3>1 DEF StartStep, CreateInv, Typing, Creates, Defined, Skips, Reconciled
    <3>3. run[i].at = 1
      BY <3>2, AtWay
    <3>4. journal' = [journal EXCEPT ![Request(i)].steps[1].status = "running"]
      BY <3>1, <3>2, <3>3 DEF StartStep
    <3>5. journal \in [Requests -> Journal]
      BY DEF CreateInv, Typing
    <3>6. journal'[Request(i)] = [journal[Request(i)] EXCEPT !.steps[1].status = "running"]
      BY <2>1, <3>4, <3>5
    <3>7. journal'[Request(i)].steps = [Steps(i) EXCEPT ![1].status = "running"]
      BY <2>1, <3>5, <3>6 DEF Journal, Steps
    <3>8. Steps(i)[1] \in JournalStep
      BY <2>1
    <3> QED BY <2>1, <3>7, <3>8 DEF JournalStep
  <2> QED BY <2>2, <2>3
<1>5. ASSUME run'[i].stage = "target", Trace(Request(i))'
      PROVE  run'[i].previous # "pending"
  <2>1. StartStep(i) /\ run'[i].stage \in InWorktree
    BY <1>0, <1>5 DEF Reaches, InWorktree
  <2>2. run[i].stage \in Defined /\ run'[i].request = run[i].request
    BY <1>3, <2>1
  <2>3. run[i].at <= Len(Steps(i)) /\ Creates(At(i)) /\ run'[i].previous = At(i).status
    BY <1>0, <1>5, <2>1 DEF StartStep, CreateInv, Typing, Local, Creates
  <2>4. At(i) = Steps(i)[1]
    BY <2>2, <2>3, AtWay
  <2>5. PICK r \in Requests : r = Request(i) /\ Settles(r) /\ Request(i)' = r
    BY <2>2, DefinedWay DEF Request
  <2>6. Trace(r)'
    BY <1>5, <2>5 DEF Trace
  <2>7. intents' = intents /\ receipts' = receipts /\ target' = target /\ refs' = refs
    BY <2>1 DEF StartStep, disk
  <2>8. Trace(r)
    BY <2>6, <2>7 DEF Trace
  <2> QED BY <2>3, <2>4, <2>5, <2>8 DEF TraceInv, Steps
<1>6. ASSUME run'[i].stage = "staging", refs'[Request(i).branch] # NoCommit
      PROVE  run'[i].previous # "pending"
  <2>1. ClaimStaging(i)
    BY <1>0, <1>6 DEF Reaches
  <2>2. run[i].stage = "target" /\ refs' = refs /\ run'[i].previous = run[i].previous
    BY <1>0, <2>1 DEF ClaimStaging, To, CreateInv, Typing, Local
  <2>3. Trace(Request(i))
    BY <1>6, <2>2 DEF Trace
  <2> QED BY <2>2, <2>3 DEF TraceInv
<1>7. ASSUME NEW j \in Invocation, run'[j].stage \in InWorktree
      PROVE  Steps(j)' = journal'[Request(j)].steps /\ Ref(j)' = refs'[Request(j).branch]
  BY <1>2, <1>3, <1>7 DEF Steps, Ref, Request
<1>8. \A j \in Invocation :
         /\ run'[j].stage \in InWorktree => (Steps(j)[1].status)' # "pending"
         /\ run'[j].stage = "target" /\ Trace(Request(j))' => run'[j].previous # "pending"
         /\ run'[j].stage = "staging" /\ Ref(j)' # NoCommit => run'[j].previous # "pending"
  <2> TAKE j \in Invocation
  <2>1. CASE j = i
    BY <1>4, <1>5, <1>6, <1>7, <2>1 DEF InWorktree
  <2>2. CASE j # i
    BY <1>2, <1>7, <2>2 DEF InWorktree
  <2> QED BY <2>1, <2>2
<1> QED BY <1>1, <1>8 DEF TraceInv

-----------------------------------------------------------------------------
(* A Service changes at a step of its own, and is ready after its start.   *)
LEMMA ServiceMoves ==
  ASSUME CreateInv, ServiceInv, NEW i \in Invocation, StepOf(i)
  PROVE  /\ service' \in [Requests -> [Service -> {"absent", "stopped", "ready"}]]
         /\ \A r \in Requests, s \in Service :
               service'[r][s] # service[r][s] =>
                  /\ run[i].stage = "service" /\ Request(i) = r /\ At(i).resource = s
                  /\ At(i).action # "inspect"
                  /\ service'[r][s] = "ready" => At(i).action = "start"
                  /\ ServiceStep(i) \/ run'[i].stage = "failing"
         /\ ServiceStep(i) /\ At(i).action = "start" /\ At(i).resource \in Service =>
               service'[Request(i)][At(i).resource] = "ready"
<1> DEFINE X == {"absent", "stopped", "ready"}
           now == service[Request(i)][At(i).resource]
<1>1. service \in [Requests -> [Service -> X]]
  BY DEF ServiceInv
<1>2. CASE service' = service /\ ~ServiceStep(i)
  BY <1>1, <1>2
<1>3. ASSUME run[i].stage = "service", NEW left \in X \cup {now},
             service' = [service EXCEPT ![Request(i)][At(i).resource] = left]
      PROVE  /\ service' \in [Requests -> [Service -> X]]
             /\ \A r \in Requests, s \in Service :
                   service'[r][s] # service[r][s] =>
                      Request(i) = r /\ At(i).resource = s /\ service'[r][s] = left /\ left # now
             /\ At(i).resource \in Service => service'[Request(i)][At(i).resource] = left
  <2>1. Request(i) \in Requests
    BY <1>3, Asked DEF CreateInv
  <2>2. \A r \in Requests, s \in Service :
           service'[r][s] = IF r = Request(i) /\ s = At(i).resource THEN left ELSE service[r][s]
    BY <1>1, <1>3, <2>1
  <2>3. \A r \in Requests, s \in Service : service'[r][s] \in X
    BY <1>1, <2>2
  <2>4. service' \in [Requests -> [Service -> X]]
    BY <1>1, <1>3, <2>1, <2>3
  <2> QED BY <2>1, <2>2, <2>4
<1>4. CASE ServiceStep(i)
  <2>1. run[i].stage = "service"
    BY <1>4 DEF ServiceStep
  <2>2. PICK left \in IF ReconciledService(i, now) THEN {now}
                      ELSE Created(At(i).action = "start") :
           service' = [service EXCEPT ![Request(i)][At(i).resource] = left]
    BY <1>4 DEF ServiceStep
  <2>3. left \in X \cup {now}
    BY <2>2 DEF Created
  <2>4. At(i).action = "inspect" => left = now
    BY <2>2 DEF ReconciledService
  <2>5. left = "ready" => left = now \/ At(i).action = "start"
    BY <2>2 DEF Created
  <2>6. At(i).action = "start" => left = "ready"
    BY <2>2 DEF Created, ReconciledService
  <2>7. /\ service' \in [Requests -> [Service -> X]]
        /\ \A r \in Requests, s \in Service :
              service'[r][s] # service[r][s] =>
                 Request(i) = r /\ At(i).resource = s /\ service'[r][s] = left /\ left # now
        /\ At(i).resource \in Service => service'[Request(i)][At(i).resource] = left
    BY <1>3, <2>1, <2>2, <2>3
  <2> HIDE DEF now
  <2> QED BY <1>4, <2>1, <2>4, <2>5, <2>6, <2>7
<1>5. CASE Fails(i) /\ service' # service
  <2>1. run[i].stage = "service" /\ To(i, "failing")
    BY <1>5 DEF Fails
  <2>2. PICK left \in X :
           /\ At(i).action # "inspect"
           /\ left = "ready" => At(i).action = "start"
           /\ service' = [service EXCEPT ![Request(i)][At(i).resource] = left]
    BY <1>5 DEF Fails
  <2>3. run'[i].stage = "failing" /\ ~ServiceStep(i)
    BY <2>1 DEF To, CreateInv, Typing, Local, ServiceStep
  <2>4. /\ service' \in [Requests -> [Service -> X]]
        /\ \A r \in Requests, s \in Service :
              service'[r][s] # service[r][s] =>
                 Request(i) = r /\ At(i).resource = s /\ service'[r][s] = left /\ left # now
        /\ At(i).resource \in Service => service'[Request(i)][At(i).resource] = left
    BY <1>3, <2>1, <2>2
  <2> HIDE DEF now
  <2> QED BY <2>1, <2>2, <2>3, <2>4
<1>6. service' # service => ServiceStep(i) \/ Fails(i)
  BY DEF StepOf, Create, BeginIntent, FindIntent, ReturnCompleted, Acquire, TurnedAway,
       Resolve, Enrich, UseResolved, RecordDefinition, StartStep, AdoptTarget,
       ClaimStaging, ContinueStaging, AddWorktree, Mark, Checkout, Publish, Tidy, Inspect,
       Record, Observe, Complete, Refuse, FailCreate, Vanish, disk
<1> QED BY <1>2, <1>4, <1>5, <1>6

(* The steps an attempt has behind it.                                     *)
Behind(i, p) == p < run[i].at \/ (p = run[i].at /\ run[i].stage = "recording")

LEMMA BehindGrows ==
  ASSUME CreateInv, ShapeInv, WhereInv, NEW i \in Invocation, StepOf(i),
         run'[i].stage \in Defined, NEW p \in DOMAIN Steps(i), Behind(i, p)',
         Steps(i)[p].action = "start", Steps(i)[p].resource # "worktree"
  PROVE  run[i].stage \in Defined /\ (Behind(i, p) \/ (p = run[i].at /\ ServiceStep(i)))
<1>0. Turns(i) /\ Reaches(i) /\ run[i] \in Local /\ run \in [Invocation -> Local]
  BY RunSteps DEF CreateInv, Typing
<1>1. Request(i) \in Requests
  <2>1. run[i].stage # "idle"
    BY RequestStays
  <2> QED BY <2>1, Asked DEF CreateInv
<1>2. p \in Nat \ {0} /\ run[i].at \in Nat
  BY <1>0, <1>1, StepsTypes DEF Steps, Local, CreateInv
<1>3. p < run'[i].at \/ (p = run'[i].at /\ run'[i].stage = "recording")
  BY DEF Behind
<1>4. CASE RecordDefinition(i)
  <2>1. run'[i].at = 1 /\ run'[i].stage = "stepping"
    BY <1>0, <1>4 DEF RecordDefinition, Local
  <2> QED BY <1>2, <1>3, <2>1
<1>5. CASE Record(i)
  <2>1. /\ run'[i].at = run[i].at + 1 /\ run'[i].stage = "stepping"
        /\ run[i].stage = "recording"
    BY <1>0, <1>5 DEF Record, Advance, Local
  <2> QED BY <1>2, <1>3, <2>1 DEF Behind, Defined, AtStep
<1>6. CASE StartStep(i)
  <2>1. /\ run'[i].at = IF Skips(At(i)) THEN run[i].at + 1 ELSE run[i].at
        /\ run'[i].stage # "recording" /\ run[i].stage \in Defined
    BY <1>0, <1>6 DEF StartStep, Local, Defined
  <2>2. p = run[i].at => At(i) = Steps(i)[p]
    BY DEF At
  <2>3. p = run[i].at => ~Skips(At(i))
    BY <2>2 DEF Skips, Reconciled
  <2>4. p < run[i].at
    BY <1>2, <1>3, <2>1, <2>3
  <2> QED BY <2>1, <2>4 DEF Behind
<1>7. CASE ~RecordDefinition(i) /\ ~Record(i) /\ ~StartStep(i)
  <2>1. run'[i].at = run[i].at
    BY <1>0, <1>7 DEF Turns, Owning, Defined, AtStep
  <2>2. run'[i].stage \in {"staging", "mark", "checkout", "publish", "tidy", "recording",
                        "observed"}
    BY <1>0, <1>7 DEF Reaches, Defined, AtStep, InWorktree
  <2>3. run[i].stage \in Defined
    BY <1>0, <2>2 DEF Reaches, ClaimStaging, ContinueStaging, AddWorktree, Mark, Checkout,
                      AdoptTarget, Publish, Tidy, Inspect, ServiceStep, Observe, Defined,
                      AtStep, InWorktree
  <2>4. ASSUME p = run[i].at, run'[i].stage = "recording" PROVE ServiceStep(i)
    <3>1. Tidy(i) \/ Inspect(i) \/ ServiceStep(i)
      BY <1>0, <2>4 DEF Reaches
    <3>2. Shaped(Steps(i), Request(i).start)
      BY <2>3, DefinedWay
    <3>3. ~Tidy(i)
      BY <2>4, <3>2 DEF Tidy, WhereInv, InWorktree, Shaped, Creates
    <3>4. ~Inspect(i)
      BY <2>4 DEF Inspect, WhereInv, At
    <3> QED BY <3>1, <3>3, <3>4
  <2> QED BY <1>3, <2>1, <2>3, <2>4 DEF Behind
<1> QED BY <1>4, <1>5, <1>6, <1>7

LEMMA ServiceStays ==
  ASSUME CreateInv, ShapeInv, WhereInv, ServiceInv, NEW i \in Invocation, StepOf(i)
  PROVE  ServiceInv'
<1>0. Turns(i) /\ Reaches(i)
  BY RunSteps DEF CreateInv
<1>1. service' \in [Requests -> [Service -> {"absent", "stopped", "ready"}]]
  BY ServiceMoves
<1>2. ASSUME NEW r \in Requests, NEW s \in Service, ~r.start PROVE service'[r][s] # "ready"
  <2>1. CASE service'[r][s] = service[r][s]
    BY <1>2, <2>1 DEF ServiceInv
  <2>2. CASE service'[r][s] # service[r][s]
    <3>1. /\ run[i].stage = "service" /\ Request(i) = r
          /\ service'[r][s] = "ready" => At(i).action = "start"
      BY <2>2, ServiceMoves
    <3>2. run[i].stage \in Defined /\ run[i].at \in DOMAIN Steps(i)
      BY <3>1 DEF Defined, AtStep, CreateInv, ProgressInv, Progress
    <3>3. Shaped(Steps(i), r.start)
      BY <3>1, <3>2, DefinedWay
    <3> QED BY <1>2, <3>1, <3>2, <3>3 DEF Shaped, At
  <2> QED BY <2>1, <2>2
<1>3. ASSUME NEW j \in Invocation, run'[j].stage \in Defined, NEW p \in DOMAIN Steps(j)',
             Behind(j, p)', (Steps(j)[p].action = "start")',
             (Steps(j)[p].resource # "worktree")'
      PROVE  (service[Request(j)][Steps(j)[p].resource] = "ready")'
  <2>1. run'[j].request = run[j].request
    BY <1>0, <1>3, RequestStays DEF Turns
  <2>2. Steps(j)' = journal'[Request(j)].steps
    BY <2>1 DEF Steps, Request
  <2>3. run[j].stage \in Defined
    <3>1. CASE j # i
      BY <1>0, <1>3, <3>1 DEF Turns
    <3>2. CASE j = i /\ RecordDefinition(i)
      <4>1. run'[i].at = 1 /\ run'[i].stage = "stepping"
        BY <3>2 DEF RecordDefinition, CreateInv, Typing, Local
      <4>2. Request(j) \in Requests
        BY <3>2, Asked DEF RecordDefinition, CreateInv
      <4>3. journal'[Request(j)].steps \in Seq(JournalStep)
        BY <4>2, JournalTyping DEF CreateInv, Journal
      <4>4. p \in Nat \ {0}
        BY <1>3, <2>2, <4>3
      <4> QED BY <1>3, <3>2, <4>1, <4>4 DEF Behind
    <3>3. CASE j = i /\ ~RecordDefinition(i)
      <4>1. \/ StartStep(i) \/ Record(i) \/ ClaimStaging(i) \/ ContinueStaging(i)
            \/ AddWorktree(i) \/ Mark(i) \/ Checkout(i) \/ AdoptTarget(i) \/ Publish(i)
            \/ Tidy(i) \/ Inspect(i) \/ ServiceStep(i) \/ Observe(i)
        BY <1>0, <1>3, <3>3 DEF Reaches, Defined, AtStep, InWorktree
      <4> QED BY <3>3, <4>1 DEF StartStep, Record, ClaimStaging, ContinueStaging, AddWorktree,
                   Mark, Checkout, AdoptTarget, Publish, Tidy, Inspect, ServiceStep, Observe,
                   Defined, AtStep, InWorktree
    <3> QED BY <3>1, <3>2, <3>3
  <2>4. /\ Request(j) \in Requests /\ Steps(j) \in Seq(JournalStep)
        /\ Alike(Steps(j), journal'[Request(j)].steps)
    BY <2>3, StepsAlike
  <2>5. journal'[Request(j)].steps \in Seq(JournalStep)
    BY <2>4, JournalTyping DEF CreateInv, Journal
  <2>6. /\ p \in DOMAIN Steps(j) /\ p \in Nat \ {0}
        /\ Steps(j)[p].action = "start" /\ Steps(j)[p].resource # "worktree"
        /\ Steps(j)[p].resource = (Steps(j)[p].resource)'
    BY <1>3, <2>2, <2>4, <2>5 DEF Alike
  <2> DEFINE s == Steps(j)[p].resource
  <2>7. s \in Service
    <3>1. Steps(j)[p] \in JournalStep
      BY <2>4, <2>6
    <3> QED BY <2>6, <3>1 DEF JournalStep
  <2>8. service'[Request(j)][s] = "ready"
    <3>1. CASE j # i
      <4>1. Behind(j, p)
        BY <1>0, <1>3, <3>1 DEF Turns, Behind
      <4>2. service[Request(j)][s] = "ready"
        BY <2>3, <2>6, <4>1 DEF ServiceInv, Behind
      <4>3. run[i].stage = "service" => Request(i) # Request(j)
        BY <2>3, <3>1, AloneWay DEF Defined, AtStep
      <4> QED BY <2>4, <2>7, <4>2, <4>3, ServiceMoves
    <3>2. CASE j = i /\ Behind(i, p)
      <4>1. service[Request(i)][s] = "ready"
        BY <2>3, <2>6, <3>2 DEF ServiceInv, Behind
      <4>2. ASSUME service'[Request(i)][s] # "ready" PROVE FALSE
        <5>1. /\ run[i].stage = "service" /\ At(i).resource = s /\ At(i).action # "inspect"
              /\ ServiceStep(i) \/ run'[i].stage = "failing"
          BY <2>4, <2>7, <3>2, <4>1, <4>2, ServiceMoves
        <5>2. ServiceStep(i) /\ At(i).action # "start"
          BY <1>3, <2>7, <3>2, <4>2, <5>1, ServiceMoves DEF Defined, AtStep, InWorktree
        <5>3. run[i].at \in DOMAIN Steps(i) /\ p < run[i].at
          BY <3>2, <5>1 DEF Behind, CreateInv, ProgressInv, Progress, AtStep
        <5>4. At(i).action = "create" /\ run[i].at \in Nat
          <6>1. Steps(i)[run[i].at] \in JournalStep
            BY <2>4, <3>2, <5>3
          <6> QED BY <5>1, <5>2, <6>1 DEF At, JournalStep, CreateInv, Typing, Local
        <5>5. run[i].at < p
          <6>1. Shaped(Steps(i), Request(i).start)
            BY <2>3, <3>2, DefinedWay
          <6> QED BY <2>6, <3>2, <5>3, <5>4, <6>1 DEF Shaped, At
        <5> QED BY <2>6, <5>3, <5>4, <5>5
      <4> QED BY <3>2, <4>2
    <3>3. CASE j = i /\ p = run[i].at /\ ServiceStep(i)
      <4>1. At(i).action = "start" /\ At(i).resource = s
        BY <2>6, <3>3 DEF At
      <4> QED BY <2>7, <3>3, <4>1, ServiceMoves
    <3> QED BY <1>3, <2>6, <3>1, <3>2, <3>3, BehindGrows
  <2> QED BY <2>1, <2>6, <2>8 DEF Request
<1> QED BY <1>1, <1>2, <1>3 DEF ServiceInv, Behind

-----------------------------------------------------------------------------
(* So there is nothing to refuse.                                          *)
LEMMA NoRefusal ==
  ASSUME CreateInv, WayInv, BranchesApart, NEW i \in Invocation PROVE ~Refuse(i)
<1> USE DEF WayInv
<1>0. SUFFICES ASSUME Refused(i) PROVE FALSE
  BY DEF Refuse
<1>1. run[i].stage \in Defined
  BY <1>0 DEF Refused, Defined, AtStep, InWorktree
<1>2. /\ Request(i) \in Requests /\ Request(i).path \in Path
      /\ Request(i).branch \in Branch /\ Settles(Request(i))
      /\ Token(i) \in Tokens /\ Token(i) = intents[Request(i)].resolved.token
      /\ Sha(i) # NoCommit /\ Shaped(Steps(i), Request(i).start) /\ run[i].at \in Nat \ {0}
  BY <1>1, DefinedWay
<1>3. /\ Ref(i) # NoCommit => Ref(i) = Sha(i)
      /\ Staged(i) # Absent => /\ Staged(i).head = Sha(i)
                               /\ Staged(i).token \in {NoOne, Token(i)}
                               /\ Staged(i).branch \in {NoBranch, Request(i).branch}
      /\ There(i) # Absent => Matches(i, There(i))
  BY <1>1, MadeWay
<1>4. Staged(i) # Absent => Token(i) \in receipts
  BY <1>2 DEF CreateInv, StagingInv, StagingHasReceipt, Staged
<1>5. There(i) # Absent => There(i) # Foreign
  <2>1. There(i) # Absent => There(i).head # NoCommit
    BY <1>2, <1>3 DEF Matches, Tree
  <2> QED BY <2>1, HeadIsThere
<1>6. run[i].stage # "target"
  <2> SUFFICES ASSUME run[i].stage = "target" PROVE MayAdopt(i) \/ MayClaim(i)
    BY <1>0 DEF Refused
  <2>1. Trace(Request(i)) => Reconcile(i)
    BY DEF TraceInv, Reconcile
  <2>2. There(i) # Absent => Trace(Request(i))
    BY DEF Trace, There
  <2>3. Token(i) \in receipts => Trace(Request(i))
    BY <1>2 DEF Trace
  <2> QED BY <1>3, <1>4, <2>1, <2>2, <2>3 DEF MayAdopt, MayClaim
<1>7. run[i].stage # "staging"
  <2> SUFFICES ASSUME run[i].stage = "staging" PROVE MayContinue(i) \/ MayAdd(i)
    BY <1>0 DEF Refused
  <2>1. Ref(i) # NoCommit => Reconcile(i)
    BY DEF TraceInv, Reconcile
  <2> QED BY <1>3, <2>1 DEF MayContinue, MayAdd
<1>8. run[i].stage # "checkout"
  <2> SUFFICES ASSUME run[i].stage = "checkout", ~Matches(i, Staged(i)),
                      Request(i).branch \in CheckedOut
               PROVE  FALSE
    BY <1>0 DEF Refused, MayCheckout
  <2>0. Request(i).branch # NoBranch /\ Absent.branch = NoBranch
    BY <1>2, CreateAssumption DEF Absent, Tree
  <2>1. PICK r \in Requests : r = Request(i)
    BY <1>2
  <2>2. ASSUME NEW t \in Tokens, staging[t].branch = Request(i).branch PROVE FALSE
    <3>1. staging[t] # Absent
      BY <2>0, <2>2
    <3>2. PICK q \in Requests :
             /\ Settles(q) /\ intents[q].resolved.token = t
             /\ staging[t].branch \in {NoBranch, q.branch}
      BY <3>1 DEF MadeInv
    <3>3. q = r
      BY <1>2, <2>0, <2>1, <2>2, <3>2, SameBranch DEF CreateInv
    <3>4. t = Token(i) /\ Staged(i) = staging[t]
      BY <1>2, <2>1, <3>2, <3>3 DEF Staged
    <3>5. /\ Staged(i) \in Trees /\ Staged(i).token = Token(i)
          /\ Staged(i).branch = Request(i).branch /\ Staged(i).head = Sha(i)
      BY <1>3, <2>2, <3>1, <3>4 DEF AheadInv, CreateInv, Typing
    <3>6. Matches(i, Staged(i))
      BY <3>5 DEF Matches, Tree, Trees
    <3> QED BY <3>6
  <2>3. ASSUME NEW p \in Path, target[p].branch = Request(i).branch PROVE FALSE
    <3>1. target[p] # Absent
      BY <2>0, <2>3
    <3>2. PICK q \in Requests :
             /\ q.path = p /\ Settles(q)
             /\ target[p] = Tree(intents[q].resolved.token, q.branch, intents[q].resolved.sha)
      BY <3>1 DEF MadeInv
    <3>3. q.branch = r.branch
      BY <2>1, <2>3, <3>2 DEF Tree
    <3>4. q = r
      BY <1>2, <2>1, <3>2, <3>3, SameBranch DEF CreateInv
    <3>5. There(i) # Absent
      BY <2>1, <3>1, <3>2, <3>4 DEF There
    <3>6. There(i) \in {Absent, Foreign}
      BY DEF CreateInv, StagingInv, Building, Ours
    <3> QED BY <1>5, <3>5, <3>6
  <2> QED BY <2>2, <2>3 DEF CheckedOut
<1>9. run[i].stage # "tidy"
  BY <1>0, <1>5 DEF Refused, MayTidy, AheadInv
<1>10. run[i].at # 1 => Matches(i, There(i))
  BY <1>1, <1>3 DEF AheadInv
<1>11. run[i].stage # "inspect"
  BY <1>0, <1>10 DEF Refused, WhereInv
<1>12. ~(run[i].stage = "stepping" /\ run[i].at > Len(Steps(i)))
  <2> SUFFICES ASSUME run[i].stage = "stepping", run[i].at > Len(Steps(i))
               PROVE  Proven(i)
    BY <1>0 DEF Refused
  <2>1. Steps(i) \in Seq(JournalStep)
    BY <1>1, DefinedWay, StepsTypes DEF CreateInv
  <2>2. DOMAIN Steps(i) = 1 .. Len(Steps(i)) /\ Len(Steps(i)) \in Nat \ {0}
    BY <1>2, <2>1 DEF Shaped
  <2>3. run[i].at # 1 /\ \A p \in DOMAIN Steps(i) : p < run[i].at
    BY <1>2, <2>2
  <2>4. ASSUME NEW s \in Service
        PROVE  service[Request(i)][s] \in Created(Request(i).start)
    <3>1. service[Request(i)][s] \in {"absent", "stopped", "ready"}
      BY <1>2 DEF ServiceInv
    <3>2. CASE Request(i).start
      <4>1. PICK p \in DOMAIN Steps(i) :
               Steps(i)[p].action = "start" /\ Steps(i)[p].resource = s
        BY <1>2, <3>2 DEF Shaped, Starts
      <4>2. s # "worktree"
        BY CreateAssumption DEF Service
      <4>3. service[Request(i)][s] = "ready"
        BY <1>1, <2>3, <4>1, <4>2 DEF ServiceInv
      <4> QED BY <3>2, <4>3 DEF Created
    <3>3. CASE ~Request(i).start
      <4>1. service[Request(i)][s] # "ready"
        BY <1>2, <3>3 DEF ServiceInv
      <4> QED BY <3>1, <3>3, <4>1 DEF Created
    <3> QED BY <3>2, <3>3
  <2> QED BY <1>10, <2>3, <2>4 DEF Proven
<1> QED BY <1>0, <1>6, <1>7, <1>8, <1>9, <1>11, <1>12 DEF Refused

LEMMA ClearInitially == Init => ClearInv
<1> SUFFICES ASSUME Init PROVE WayInv
  BY DEF ClearInv
<1>1. \A r \in Requests : ~Settles(r)
  BY DEF Init, Settles, NoIntent
<1>2. \A i \in Invocation : run[i].stage = "idle"
  BY DEF Init, Idle
<1>3. ShapeInv /\ WhereInv /\ AheadInv
  BY <1>1, <1>2 DEF ShapeInv, WhereInv, AheadInv, Defined, AtStep, InWorktree
<1>4. MadeInv
  BY DEF Init, MadeInv
<1>5. TraceInv
  BY <1>1, <1>2 DEF TraceInv, InWorktree
<1>6. ServiceInv
  <2>1. service \in [Requests -> [Service -> {"absent", "stopped", "ready"}]]
    BY DEF Init
  <2>2. \A r \in Requests, s \in Service : service[r][s] # "ready"
    BY DEF Init
  <2> QED BY <1>2, <2>1, <2>2 DEF ServiceInv, Defined, AtStep, InWorktree
<1> QED BY <1>3, <1>4, <1>5, <1>6 DEF WayInv

LEMMA ClearStays ==
  ASSUME CreateInv, CreateInv', ClearInv, BranchesApart, [Next]_vars PROVE ClearInv'
<1> USE DEF WayInv
<1>1. CASE UNCHANGED vars
  <2> USE <1>1 DEF vars
  <2>1. ShapeInv => ShapeInv'
    BY DEF ShapeInv, Settles
  <2>2. WhereInv => WhereInv'
    BY DEF WhereInv, At, Steps, Request
  <2>3. MadeInv => MadeInv'
    BY DEF MadeInv, Settles
  <2>4. AheadInv => AheadInv'
    BY DEF AheadInv, Staged, There, Token, Request
  <2>5. TraceInv => TraceInv'
    BY DEF TraceInv, Settles, Trace, Steps, Ref, Request
  <2>6. ServiceInv => ServiceInv'
    BY DEF ServiceInv, Steps, Request
  <2> QED BY <2>1, <2>2, <2>3, <2>4, <2>5, <2>6 DEF ClearInv
<1>2. ASSUME NEW i \in Invocation, StepOf(i) PROVE ClearInv'
  <2>1. meddled' = meddled
    BY <1>2, OthersKept
  <2>2. ASSUME meddled = 0 PROVE WayInv'
    <3>1. WayInv
      BY <2>2 DEF ClearInv
    <3> QED BY <1>2, <3>1, ShapeStep, WhereStep, MadeStep, AheadStep, TraceStep, ServiceStays
  <2> QED BY <2>1, <2>2 DEF ClearInv
<1>3. CASE Others
  <2>1. meddled' = meddled + 1 /\ meddled \in Nat
    BY <1>3 DEF Others, BaseMoves, BranchAppears, TargetAppears, TargetRemoved, Supersede,
                ServiceDrifts, Meddle, CreateInv, Typing
  <2> QED BY <2>1 DEF ClearInv
<1> QED BY <1>1, <1>2, <1>3, WhoSteps

(* As long as nobody else meddled, what is there was made for the request  *)
(* it is found by, and the journal knows of it, whatever attempts failed   *)
(* or were killed in between.                                              *)
THEOREM NobodyElses == ASSUME BranchesApart PROVE Spec => []ClearInv
<1>1. Spec => []CreateInv
  BY CreateInvariant
<1>2. CreateInv /\ CreateInv' /\ ClearInv /\ [Next]_vars => ClearInv'
  BY ClearStays
<1> QED BY <1>1, <1>2, ClearInitially, PTL DEF Spec

(* What interrupted attempts leave behind never stands in the way of the   *)
(* next, where requests for different targets ask for different branches.  *)
THEOREM NoneInTheWay == ASSUME BranchesApart PROVE Spec => NeverInItsOwnWay
<1>1. CreateInv /\ ClearInv /\ [Next]_vars => [\A i \in Invocation : Refuse(i) => meddled > 0]_vars
  <2> SUFFICES ASSUME CreateInv, ClearInv, NEW i \in Invocation, Refuse(i) PROVE meddled > 0
    OBVIOUS
  <2>1. meddled # 0
    BY NoRefusal DEF ClearInv
  <2> QED BY <2>1 DEF CreateInv, Typing
<1> QED BY <1>1, CreateInvariant, NobodyElses, PTL DEF Spec, NeverInItsOwnWay
=============================================================================
