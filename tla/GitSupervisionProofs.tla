------------------------ MODULE GitSupervisionProofs ------------------------
(***************************************************************************)
(* Proofs that a supervised Git command is stopped when its parent gives   *)
(* the lease back, for any set of descendants and any interleaving of the  *)
(* parent, the supervisor, the anchor, the members of the group and their  *)
(* scans.                                                                  *)
(*                                                                         *)
(* What a scan found may be outdone by a supervisor that starts Git late;  *)
(* the invariant says when that can still happen (LateStart): never after  *)
(* the supervisor was settled, and then the group was scanned again.       *)
(* What a scan missed is left to the anchor: one that has fired left       *)
(* nobody alive, and no parent returns while its anchor is armed.          *)
(***************************************************************************)
EXTENDS GitSupervision, TLAPS

Released == {"returned", "error", "interrupted"}

(* Members come after their supervisor, and it after the anchor.           *)
OrderInv ==
  /\ parent \in Opening => supervisor = "none" /\ proof = "none"
  /\ parent \notin {"begin", "killed"} => anchor # "none"
  /\ supervisor \in {"none", "starting"} => \A m \in Member : proc[m] = "unborn"

(* An anchor that fired took its group with it.                            *)
AnchorInv ==
  /\ anchor = "fired" => \A m \in Member : ~Living(m)
  /\ parent \in Released \cup {"confirm"} => anchor # "armed"

(* Where the parent is past waiting for a supervisor to start Git, and     *)
(* past having settled it.                                                 *)
SupervisorInv ==
  /\ parent \in {"waiting", "cancel", "cancelKill", "settle"} => supervisor # "starting"
  /\ parent \in {"settleAnchor", "confirm", "hAnchor", "hAnchorKill", "hSettleAnchor"}
                \cup Released =>
        supervisor \in {"none", "gone"}

OutcomeInv ==
  /\ parent \in {"cancel", "cancelKill"} => outcome = "error"
  /\ parent \in {"settle", "settleAnchor"} => outcome \in {"returned", "error", "confirm"}
  /\ parent \in Handler => outcome \in {"error", "unproven", "interrupted"}

(* There is a proof where one is needed, and it holds unless Git may have  *)
(* started since.                                                          *)
LateStart == {"hCancel", "hCancelKill", "hSettle", "unproven", "killed"}

ProofInv ==
  /\ told = "proven" => proof # "none"
  /\ parent \in {"settle", "settleAnchor"} /\ outcome # "confirm" => proof # "none"
  /\ parent \in Released \cup {"hSettleAnchor"} => proof # "none"
  /\ proof = "sound" /\ supervisor = "starting" => parent \in LateStart
  /\ proof = "sound" /\ parent \notin LateStart \cup {"hAnchor", "hAnchorKill"} =>
        Running = {}

SupervisionInv ==
  TypeOK /\ OrderInv /\ AnchorInv /\ SupervisorInv /\ OutcomeInv /\ ProofInv

-----------------------------------------------------------------------------
(* What the operators that actions share do.                               *)
LEMMA KillTypes ==
  ASSUME TypeOK, KillGroup
  PROVE  /\ anchor' \in {"none", "armed", "fired", "killed", "late"}
         /\ proc' \in [Member -> {"unborn", "alive", "doomed", "gone"}]
         /\ anchor' = "none" <=> anchor = "none"
         /\ anchor' # "armed"
         /\ anchor' = "fired" <=> anchor \in {"armed", "fired"}
         /\ \A m \in Member : /\ proc'[m] = "unborn" <=> proc[m] = "unborn"
                              /\ proc'[m] # "alive"
                              /\ proc'[m] = "doomed" => m \in Running
BY DEF TypeOK, KillGroup, Living, Running

LEMMA ListsTypes ==
  ASSUME TypeOK, NEW s \in {"parent", "supervisor"}, Lists(s)
  PROVE  listing' \in [{"parent", "supervisor"} -> SUBSET Member]
BY DEF TypeOK, Lists, Running

(* Raise leads into the handler.                                           *)
LEMMA RaiseTypes ==
  ASSUME TypeOK, NEW exception, Raise(exception)
  PROVE  /\ listing' \in [{"parent", "supervisor"} -> SUBSET Member]
         /\ outcome' = exception /\ ordered' = TRUE
         /\ parent' = IF supervisor = "none" THEN "hAnchor" ELSE "hWait"
<1>1. CASE supervisor = "none"
  BY <1>1, ListsTypes DEF Raise
<1>2. CASE supervisor # "none"
  BY <1>2 DEF Raise, TypeOK
<1> QED BY <1>1, <1>2

LEMMA Raised ==
  ASSUME TypeOK, NEW exception \in {"error", "unproven", "interrupted"}, Raise(exception),
         sigint' \in BOOLEAN, UNCHANGED <<finish, supervisor, told, groupVars, proof>>
  PROVE  TypeOK'
<1>1. /\ listing' \in [{"parent", "supervisor"} -> SUBSET Member]
      /\ outcome' = exception /\ ordered' = TRUE
      /\ parent' = IF supervisor = "none" THEN "hAnchor" ELSE "hWait"
  BY RaiseTypes
<1> QED BY <1>1 DEF groupVars, TypeOK, Stages, Handler

(* Where cancellations lead.                                               *)
LEMMA CancelStages ==
  /\ CancelKill => \/ parent = "cancel"  /\ parent' = "cancelKill"
                   \/ parent = "hCancel" /\ parent' = "hCancelKill"
                   \/ parent = "hAnchor" /\ parent' = "hAnchorKill"
  /\ Cancelled => \/ parent \in {"cancel", "cancelKill"}   /\ parent' = "settle"
                  \/ parent \in {"hCancel", "hCancelKill"} /\ parent' = "hSettle"
                  \/ parent \in {"hAnchor", "hAnchorKill"} /\ parent' = "hSettleAnchor"
BY DEF CancelKill, Cancelled, Cancelling, Killing

(* Typing, whatever the stages in which a SIGINT may arrive.               *)
LEMMA TypeStep == ASSUME TypeOK, OrderInv, OutcomeInv, [Next]_vars PROVE TypeOK'
<1> USE DEF Stages, Opening, Main, Handler, Ends
<1>1. CASE SpawnAnchor \/ GuardianReady \/ SpawnSupervisor \/ ReadPid
  <2>1. CASE SpawnAnchor
    BY <2>1 DEF SpawnAnchor, ownVars, TypeOK
  <2>2. CASE GuardianReady
    BY <2>2 DEF GuardianReady, ownVars, groupVars, TypeOK
  <2>3. CASE SpawnSupervisor
    BY <2>3 DEF SpawnSupervisor, ownVars, groupVars, TypeOK, OrderInv
  <2>4. CASE ReadPid
    BY <2>4 DEF ReadPid, ownVars, groupVars, TypeOK
  <2> QED BY <1>1, <2>1, <2>2, <2>3, <2>4
<1>2. CASE GuardianFails \/ SupervisorNotSpawned \/ NoPid
  <2>1. CASE GuardianFails
    BY <2>1, Raised DEF GuardianFails, TypeOK
  <2>2. CASE SupervisorNotSpawned
    BY <2>2, Raised DEF SupervisorNotSpawned, TypeOK
  <2>3. CASE NoPid
    BY <2>3, Raised DEF NoPid, TypeOK
  <2> QED BY <1>2, <2>1, <2>2, <2>3
<1>3. CASE ReadCompletion \/ HandlerReads
  BY <1>3 DEF ReadCompletion, HandlerReads, ownVars, groupVars, TypeOK
<1>4. CASE NoCompletion \/ HandlerReadsNothing
  BY <1>4, ListsTypes DEF NoCompletion, HandlerReadsNothing, ownVars, groupVars, TypeOK
<1>5. CASE CancelKill
  BY <1>5, KillTypes, ListsTypes, CancelStages DEF CancelKill, ownVars, Member, TypeOK
<1>6. CASE Cancelled
  BY <1>6, CancelStages DEF Cancelled, Clean, ownVars, groupVars, TypeOK
<1>7. CASE GivesUp
  <2>1. CASE parent \in Handler
    BY <1>7, <2>1 DEF GivesUp, groupVars, TypeOK
  <2>2. CASE parent \notin Handler
    BY <1>7, <2>2, Raised DEF GivesUp, TypeOK
  <2> QED BY <2>1, <2>2
<1>8. CASE SettleSupervisor
  <2>1. listing' \in [{"parent", "supervisor"} -> SUBSET Member]
    BY <1>8, ListsTypes DEF SettleSupervisor, TypeOK
  <2> QED BY <1>8, <2>1 DEF SettleSupervisor, AfterSupervisor, ownVars, groupVars, TypeOK, OrderInv
<1>9. CASE SettleAnchor
  <2>1. /\ anchor' \in {"none", "armed", "fired", "killed", "late"}
        /\ proc' \in [Member -> {"unborn", "alive", "doomed", "gone"}]
        /\ anchor' = "none" <=> anchor = "none"
        /\ proc'[Git] = "unborn" <=> proc[Git] = "unborn"
    BY <1>9, KillTypes DEF SettleAnchor, TypeOK, groupVars, Member
  <2>2. listing' \in [{"parent", "supervisor"} -> SUBSET Member]
    BY <1>9, ListsTypes DEF SettleAnchor, TypeOK
  <2>3. parent' = outcome /\ outcome # "none"
    BY <1>9 DEF SettleAnchor, OutcomeInv
  <2> QED BY <1>9, <2>1, <2>2, <2>3 DEF SettleAnchor, ownVars, TypeOK
<1>10. CASE Confirm
  BY <1>10 DEF Confirm, Clean, ownVars, groupVars, TypeOK
<1>11. CASE StartGit
  BY <1>11 DEF StartGit, ownVars, Member, TypeOK
<1>12. CASE SupervisorFails \/ Obey
  BY <1>12 DEF SupervisorFails, Obey, ownVars, groupVars, TypeOK
<1>13. CASE Drain
  BY <1>13, ListsTypes DEF Drain, ownVars, groupVars, TypeOK
<1>14. CASE DrainKill
  BY <1>14, KillTypes DEF DrainKill, ownVars, Member, Running, TypeOK
<1>15. CASE ReportStopped \/ ReportUnproven
  BY <1>15 DEF ReportStopped, ReportUnproven, Clean, ownVars, groupVars, TypeOK
<1>16. CASE Relist
  BY <1>16, ListsTypes DEF Relist, ownVars, groupVars, TypeOK
<1>17. CASE Interrupt
  <2>1. CASE parent \in Main
    BY <1>17, <2>1, Raised DEF Interrupt, TypeOK
  <2>2. CASE parent \notin Main
    BY <1>17, <2>2 DEF Interrupt, groupVars, TypeOK
  <2> QED BY <2>1, <2>2
<1>18. CASE ParentKilled \/ AnchorKilled
  BY <1>18 DEF ParentKilled, AnchorKilled, ownVars, groupVars, TypeOK
<1>19. CASE AnchorFires
  BY <1>19, KillTypes DEF AnchorFires, ownVars, Member, TypeOK
<1>20. ASSUME NEW m \in Member, NEW c \in Descendant, Fork(m, c) PROVE TypeOK'
  BY <1>20, SupervisionAssumption DEF Fork, ownVars, Living, Member, TypeOK
<1>21. ASSUME NEW m \in Member, Exit(m) PROVE TypeOK'
  BY <1>21 DEF Exit, ownVars, Running, Member, TypeOK
<1>22. CASE UNCHANGED vars
  BY <1>22 DEF vars, TypeOK
<1> QED BY <1>1, <1>2, <1>3, <1>4, <1>5, <1>6, <1>7, <1>8, <1>9, <1>10, <1>11, <1>12,
           <1>13, <1>14, <1>15, <1>16, <1>17, <1>18, <1>19, <1>20, <1>21, <1>22
    DEF Next, ParentStep, SupervisorStep

-----------------------------------------------------------------------------
(* Who changes what.  Quiet are the steps of the supervisor, the anchor    *)
(* and the members, and the scans.                                         *)
Quiet ==
  \/ SupervisorStep \/ Relist \/ AnchorFires \/ AnchorKilled
  \/ \E m \in Member, c \in Descendant : Fork(m, c)
  \/ \E m \in Member : Exit(m)

LEMMA QuietKeeps ==
  ASSUME Quiet
  PROVE  /\ parent' = parent /\ outcome' = outcome
         /\ told' = told \/ ReportStopped \/ ReportUnproven
         /\ proof' = proof \/ ReportStopped
BY DEF Quiet, SupervisorStep, Relist, AnchorFires, AnchorKilled, Fork, Exit, StartGit,
       SupervisorFails, Obey, Drain, DrainKill, ReportStopped, ReportUnproven

LEMMA SupervisorKept ==
  ASSUME Next, ~SupervisorStep, ~SpawnSupervisor, ~SettleSupervisor
  PROVE  supervisor' = supervisor
BY DEF Next, ParentStep, SpawnAnchor, GuardianReady, GuardianFails, SupervisorNotSpawned,
       ReadPid, NoPid, ReadCompletion, NoCompletion, HandlerReads, HandlerReadsNothing,
       CancelKill, Cancelled, GivesUp, SettleAnchor, Confirm, Relist, Interrupt, ParentKilled,
       AnchorFires, AnchorKilled, Fork, Exit

LEMMA ProofKept ==
  ASSUME Next, ~ReportStopped, ~Cancelled, ~Confirm
  PROVE  proof' = proof
BY DEF Next, ParentStep, SpawnAnchor, GuardianReady, GuardianFails, SpawnSupervisor,
       SupervisorNotSpawned, ReadPid, NoPid, ReadCompletion, NoCompletion, HandlerReads,
       HandlerReadsNothing, CancelKill, GivesUp, SettleSupervisor, SettleAnchor,
       Relist, Interrupt, ParentKilled, AnchorFires, AnchorKilled, Fork, Exit, SupervisorStep,
       StartGit, SupervisorFails, Obey, Drain, DrainKill, ReportUnproven

LEMMA GroupKept ==
  ASSUME Next, ~SpawnAnchor, ~CancelKill, ~SettleAnchor, ~StartGit, ~DrainKill, ~AnchorFires,
         ~AnchorKilled, \A m \in Member, c \in Descendant : ~Fork(m, c), \A m \in Member : ~Exit(m)
  PROVE  UNCHANGED groupVars
BY DEF Next, ParentStep, GuardianReady, GuardianFails, SpawnSupervisor,
       SupervisorNotSpawned, ReadPid, NoPid, ReadCompletion, NoCompletion, HandlerReads,
       HandlerReadsNothing, Cancelled, GivesUp, SettleSupervisor, Confirm,
       Relist, Interrupt, ParentKilled, SupervisorStep, SupervisorFails, Obey, Drain,
       ReportStopped, ReportUnproven, groupVars

(* The steps by which the parent reaches a stage.                          *)
Raises == /\ ~Cancelled /\ ~Confirm /\ ~SpawnSupervisor /\ ~SettleSupervisor
          /\ outcome' \in {"error", "unproven", "interrupted"}
          /\ parent \in Main \cup Opening

ParentReaches ==
  /\ parent' = "anchored" => SpawnAnchor
  /\ parent' = "guarded" => GuardianReady
  /\ parent' = "reading" => SpawnSupervisor
  /\ parent' = "waiting" => ReadPid
  /\ parent' = "cancel" => NoCompletion
  /\ parent' = "cancelKill" => CancelKill /\ parent = "cancel"
  /\ parent' = "settle" => ReadCompletion \/ (Cancelled /\ parent \in {"cancel", "cancelKill"})
  /\ parent' = "settleAnchor" => SettleSupervisor /\ parent = "settle"
  /\ parent' = "confirm" => SettleAnchor /\ parent = "settleAnchor"
  /\ parent' = "hWait" => Raises /\ supervisor # "none"
  /\ parent' = "hCancel" => HandlerReadsNothing
  /\ parent' = "hCancelKill" => CancelKill /\ parent = "hCancel"
  /\ parent' = "hSettle" => HandlerReads \/ (Cancelled /\ parent \in {"hCancel", "hCancelKill"})
  /\ parent' = "hAnchor" => \/ Raises /\ supervisor = "none"
                            \/ SettleSupervisor /\ parent = "hSettle"
  /\ parent' = "hAnchorKill" => CancelKill /\ parent = "hAnchor"
  /\ parent' = "hSettleAnchor" => Cancelled /\ parent \in {"hAnchor", "hAnchorKill"}
  /\ parent' = "error" => SettleAnchor /\ outcome = "error"
  /\ parent' = "interrupted" /\ InterruptedIn \subseteq Main =>
        SettleAnchor /\ outcome = "interrupted"
  /\ parent' = "returned" => \/ SettleAnchor /\ outcome = "returned"
                             \/ Confirm /\ Clean("parent")

LEMMA ParentEdges ==
  ASSUME TypeOK, OutcomeInv, Next
  PROVE  \/ Quiet
         \/ parent' # parent /\ parent' # "begin" /\ ParentReaches
<1> USE DEF ParentReaches
<1>1. CASE SpawnAnchor
  BY <1>1 DEF SpawnAnchor
<1>2. CASE GuardianReady
  BY <1>2 DEF GuardianReady
<1>3. CASE SpawnSupervisor
  BY <1>3 DEF SpawnSupervisor
<1>4. CASE ReadPid
  BY <1>4 DEF ReadPid
<1>5. CASE ReadCompletion
  BY <1>5 DEF ReadCompletion
<1>6. CASE NoCompletion
  BY <1>6 DEF NoCompletion
<1>7. CASE HandlerReads
  BY <1>7 DEF HandlerReads
<1>8. CASE HandlerReadsNothing
  BY <1>8 DEF HandlerReadsNothing
<1>9. CASE CancelKill
  BY <1>9, CancelStages
<1>10. CASE Cancelled
  BY <1>10, CancelStages
<1>11. CASE SettleSupervisor
  BY <1>11 DEF SettleSupervisor, AfterSupervisor
<1>12. CASE SettleAnchor
  BY <1>12 DEF SettleAnchor, OutcomeInv, Handler
<1>13. CASE Confirm
  BY <1>13 DEF Confirm
<1>14. CASE ParentKilled
  BY <1>14 DEF ParentKilled, Ended, Ends
<1>r. ASSUME NEW exception \in {"error", "unproven", "interrupted"}, Raise(exception),
             parent \in Main \cup Opening, UNCHANGED supervisor
      PROVE  parent' # parent /\ parent' # "begin" /\ ParentReaches
  <2>1. outcome' = exception /\ parent' = IF supervisor = "none" THEN "hAnchor" ELSE "hWait"
    BY <1>r, RaiseTypes
  <2>2. ~SpawnSupervisor /\ ~SettleSupervisor
    BY <1>r, <2>1 DEF SpawnSupervisor, SettleSupervisor, AfterSupervisor, Main, Opening
  <2>3. ~Cancelled /\ ~Confirm
    BY <2>1, CancelStages DEF Confirm
  <2> QED BY <1>r, <2>1, <2>2, <2>3 DEF Raises, Main, Opening
<1>15. CASE GuardianFails
  BY <1>15, <1>r DEF GuardianFails, Opening
<1>16. CASE SupervisorNotSpawned
  BY <1>16, <1>r DEF SupervisorNotSpawned, Opening
<1>17. CASE NoPid
  BY <1>17, <1>r DEF NoPid, Main
<1>18. CASE GivesUp
  <2>1. CASE parent \in Handler
    BY <1>18, <2>1 DEF GivesUp, Handler
  <2>2. CASE parent \notin Handler
    BY <1>18, <2>2, <1>r DEF GivesUp, Main, Killing, Handler
  <2> QED BY <2>1, <2>2
<1>19. CASE Interrupt
  <2>1. CASE parent \in Main
    BY <1>19, <2>1, <1>r DEF Interrupt
  <2>2. CASE parent \notin Main
    BY <1>19, <2>2, SupervisionAssumption DEF Interrupt, Handler
  <2> QED BY <2>1, <2>2
<1> QED BY <1>1, <1>2, <1>3, <1>4, <1>5, <1>6, <1>7, <1>8, <1>9, <1>10, <1>11, <1>12, <1>13,
           <1>14, <1>15, <1>16, <1>17, <1>18, <1>19 DEF Next, ParentStep, Quiet

(* Without the parent, only the supervisor starts Git and only a living    *)
(* member forks.                                                           *)
LEMMA Births ==
  ASSUME TypeOK, OrderInv, Next, ~StartGit, \A m \in Member : proc[m] = "unborn"
  PROVE  \A m \in Member : proc'[m] = "unborn"
<1>1. CASE CancelKill \/ SettleAnchor \/ DrainKill \/ AnchorFires
  BY <1>1, KillTypes DEF CancelKill, SettleAnchor, DrainKill, AnchorFires, groupVars
<1>2. CASE SpawnAnchor \/ AnchorKilled
  BY <1>2 DEF SpawnAnchor, AnchorKilled
<1>3. \A m \in Member : ~Exit(m) /\ \A c \in Descendant : ~Fork(m, c)
  BY DEF Exit, Fork, Living, Running
<1> QED BY <1>1, <1>2, <1>3, GroupKept DEF groupVars

LEMMA SupervisorSteps ==
  ASSUME SupervisorStep
  PROVE  /\ supervisor \notin {"none", "gone"}
         /\ supervisor' \notin {"none", "starting"}
BY DEF SupervisorStep, StartGit, SupervisorFails, Obey, Drain, DrainKill, ReportStopped,
       ReportUnproven

LEMMA Begins ==
  ASSUME Next, parent \in {"begin", "killed"}
  PROVE  parent' \in {parent, "killed"} \/ SpawnAnchor
BY SupervisionAssumption
   DEF Next, ParentStep, GuardianReady, GuardianFails, SpawnSupervisor,
       SupervisorNotSpawned, ReadPid, NoPid, ReadCompletion, NoCompletion, HandlerReads,
       HandlerReadsNothing, CancelKill, Cancelled, GivesUp, SettleSupervisor, SettleAnchor,
       Confirm, Relist, Interrupt, ParentKilled, SupervisorStep, StartGit, SupervisorFails,
       Obey, Drain, DrainKill, ReportStopped, ReportUnproven, AnchorFires, AnchorKilled, Fork,
       Exit, Cancelling, Killing, Main, Handler, Ended, Ends

LEMMA AnchorSteps ==
  ASSUME TypeOK, Next
  PROVE  /\ anchor # "none" => anchor' # "none"
         /\ anchor' = "armed" => anchor = "armed" \/ SpawnAnchor
         /\ SettleAnchor => anchor' # "armed"
<1>1. CASE CancelKill \/ SettleAnchor \/ DrainKill \/ AnchorFires
  BY <1>1, KillTypes DEF CancelKill, SettleAnchor, DrainKill, AnchorFires, groupVars
<1>2. CASE SpawnAnchor \/ AnchorKilled \/ StartGit
  BY <1>2 DEF SpawnAnchor, AnchorKilled, StartGit, SettleAnchor
<1>3. ASSUME NEW m \in Member, Exit(m) \/ \E c \in Descendant : Fork(m, c) PROVE anchor' = anchor
  BY <1>3 DEF Exit, Fork
<1> QED BY <1>1, <1>2, <1>3, GroupKept DEF groupVars

LEMMA OrderStep == ASSUME TypeOK, OrderInv, OutcomeInv, [Next]_vars PROVE OrderInv'
<1>1. CASE Next
  <2>1. parent' \in Opening => supervisor' = "none" /\ proof' = "none"
    <3>1. CASE Quiet
      <4>1. parent' \in Opening => supervisor = "none" /\ ~SupervisorStep /\ parent' = parent
        BY <3>1, QuietKeeps, SupervisorSteps DEF OrderInv
      <4>2. parent' = parent => ~SpawnSupervisor /\ ~SettleSupervisor
        BY DEF SpawnSupervisor, SettleSupervisor, AfterSupervisor
      <4> QED BY <1>1, <3>1, <4>1, <4>2, QuietKeeps, SupervisorKept
          DEF OrderInv, ReportStopped
    <3>2. CASE ~Quiet
      BY <1>1, <3>2, ParentEdges
      DEF ParentReaches, SpawnAnchor, GuardianReady, OrderInv, Opening
    <3> QED BY <3>1, <3>2
  <2>2. parent' \notin {"begin", "killed"} => anchor' # "none"
    BY <1>1, Begins, AnchorSteps DEF OrderInv, SpawnAnchor
  <2>3. supervisor' \in {"none", "starting"} => \A m \in Member : proc'[m] = "unborn"
    <3>1. SUFFICES ASSUME supervisor' \in {"none", "starting"}
                   PROVE  \A m \in Member : proc'[m] = "unborn"
      OBVIOUS
    <3>2. ~SupervisorStep
      BY <3>1, SupervisorSteps
    <3>3. supervisor \in {"none", "starting"}
      <4>1. CASE SpawnSupervisor
        BY <4>1 DEF SpawnSupervisor, OrderInv, Opening
      <4>2. CASE SettleSupervisor
        BY <3>1, <4>2 DEF SettleSupervisor
      <4> QED BY <1>1, <3>1, <3>2, <4>1, <4>2, SupervisorKept
    <3>4. ~StartGit
      BY <3>2 DEF SupervisorStep
    <3> QED BY <1>1, <3>3, <3>4, Births DEF OrderInv
  <2> QED BY <2>1, <2>2, <2>3 DEF OrderInv
<1>2. CASE UNCHANGED vars
  BY <1>2 DEF vars, OrderInv
<1> QED BY <1>1, <1>2

LEMMA OutcomeStep == ASSUME TypeOK, OutcomeInv, [Next]_vars PROVE OutcomeInv'
<1>1. CASE Quiet \/ UNCHANGED vars
  BY <1>1, QuietKeeps DEF vars, OutcomeInv
<1>2. CASE Next /\ ~Quiet
  <2>1. ParentReaches
    BY <1>2, ParentEdges
  <2> QED BY <2>1
          DEF ParentReaches, Raises, OutcomeInv, Handler, NoCompletion, CancelKill, Cancelled,
              ReadCompletion, SettleSupervisor, HandlerReads, HandlerReadsNothing
<1> QED BY <1>1, <1>2

(* Typing needs no more, so it holds whenever a SIGINT may arrive.         *)
THEOREM TypeCorrect == Spec => []TypeOK
<1>1. Init => TypeOK /\ OrderInv /\ OutcomeInv
  BY DEF Init, TypeOK, OrderInv, OutcomeInv, Stages, Opening, Handler, Member
<1>2. TypeOK /\ OrderInv /\ OutcomeInv /\ [Next]_vars => (TypeOK /\ OrderInv /\ OutcomeInv)'
  BY TypeStep, OrderStep, OutcomeStep
<1> QED BY <1>1, <1>2, PTL DEF Spec

-----------------------------------------------------------------------------
(* The anchor.                                                             *)
LEMMA AnchorStep ==
  ASSUME TypeOK, OrderInv, OutcomeInv, AnchorInv, InterruptedIn \subseteq Main, [Next]_vars
  PROVE  AnchorInv'
<1>1. CASE Next
  <2>1. anchor' = "fired" => \A m \in Member : proc'[m] # "alive"
    <3>1. CASE CancelKill \/ SettleAnchor \/ DrainKill \/ AnchorFires
      BY <3>1, KillTypes
      DEF CancelKill, SettleAnchor, DrainKill, AnchorFires, groupVars, AnchorInv, Living
    <3>2. CASE SpawnAnchor \/ AnchorKilled \/ StartGit
      BY <3>2 DEF SpawnAnchor, AnchorKilled, StartGit
    <3>3. ASSUME NEW m \in Member, Exit(m) \/ \E c \in Descendant : Fork(m, c)
          PROVE  anchor' = "fired" => \A n \in Member : proc'[n] # "alive"
      BY <3>3 DEF Exit, Fork, AnchorInv, Living, TypeOK
    <3> QED BY <1>1, <3>1, <3>2, <3>3, GroupKept DEF groupVars, AnchorInv, Living
  <2>2. parent' \in Released \cup {"confirm"} => anchor' # "armed"
    <3>1. CASE Quiet
      BY <1>1, <3>1, QuietKeeps, AnchorSteps DEF AnchorInv, SpawnAnchor, Released
    <3>2. CASE ~Quiet
      BY <1>1, <3>2, ParentEdges, AnchorSteps
      DEF ParentReaches, Confirm, SpawnAnchor, AnchorInv, Released
    <3> QED BY <3>1, <3>2
  <2> QED BY <2>1, <2>2 DEF AnchorInv, Living
<1>2. CASE UNCHANGED vars
  BY <1>2 DEF vars, AnchorInv, Living
<1> QED BY <1>1, <1>2

(* The supervisor.                                                         *)
LEMMA SupervisorInvStep ==
  ASSUME TypeOK, OrderInv, OutcomeInv, SupervisorInv, InterruptedIn \subseteq Main, [Next]_vars
  PROVE  SupervisorInv'
<1>1. CASE Next /\ Quiet
  <2>1. parent' = parent /\ ~SpawnSupervisor /\ ~SettleSupervisor
    BY <1>1, QuietKeeps DEF SpawnSupervisor, SettleSupervisor, AfterSupervisor
  <2> QED BY <1>1, <2>1, SupervisorKept, SupervisorSteps DEF SupervisorInv
<1>2. CASE Next /\ ~Quiet
  <2>1. ParentReaches
    BY <1>2, ParentEdges
  <2>2. supervisor' = supervisor \/ SpawnSupervisor \/ SettleSupervisor
    BY <1>2, SupervisorKept DEF Quiet
  <2>3. parent' \in {"waiting", "cancel", "cancelKill", "settle"} => supervisor' # "starting"
    <3>1. ReadPid => supervisor # "starting"
      BY DEF ReadPid, OrderInv, Member
    <3> QED BY <2>1, <2>2, <3>1
        DEF ParentReaches, SupervisorInv, NoCompletion, ReadCompletion, SpawnSupervisor,
            SettleSupervisor, AfterSupervisor
  <2>4. ASSUME parent' \in {"settleAnchor", "confirm", "hAnchor", "hAnchorKill",
                            "hSettleAnchor"} \cup Released
        PROVE  supervisor' \in {"none", "gone"}
    <3>1. CASE SettleSupervisor
      BY <3>1 DEF SettleSupervisor
    <3>2. ~SpawnSupervisor
      BY <2>4 DEF SpawnSupervisor, Released
    <3>3. CASE ~SettleSupervisor
      <4>1. supervisor' = supervisor
        BY <2>2, <3>2, <3>3
      <4>2. SettleAnchor \/ Confirm => supervisor \in {"none", "gone"}
        BY DEF SettleAnchor, Confirm, SupervisorInv
      <4>3. parent' = "interrupted" => SettleAnchor
        BY <2>1 DEF ParentReaches
      <4> QED BY <2>1, <2>4, <3>3, <4>1, <4>2, <4>3
          DEF ParentReaches, SupervisorInv, Released
    <3> QED BY <3>1, <3>3
  <2> QED BY <2>3, <2>4 DEF SupervisorInv
<1>3. CASE UNCHANGED vars
  BY <1>3 DEF vars, SupervisorInv
<1> QED BY <1>1, <1>2, <1>3

(* Proofs.                                                                 *)
LEMMA ProofGrows ==
  ASSUME Next
  PROVE  /\ proof # "none" => proof' # "none"
         /\ ReportStopped \/ Cancelled => proof' # "none" /\ (proof' = "sound" => Running = {})
         /\ Confirm => parent' = "returned" \/ parent' = "unproven"
         /\ Confirm /\ parent' = "returned" =>
              proof' # "none" /\ (proof' = "sound" => Running = {})
         /\ Confirm /\ parent' = "unproven" => proof' = proof \/ proof' = "missed" \/ Running = {}
BY ProofKept DEF ReportStopped, Cancelled, Confirm, Clean

(* Those who may see Git start late leave for one another, for the second  *)
(* cancellation, or for good.                                              *)
LEMMA Left ==
  ASSUME TypeOK, OutcomeInv, OrderInv, Next, InterruptedIn \subseteq Main, ParentReaches,
         ~Cancelled, parent \in LateStart \cup {"hAnchor", "hAnchorKill"}, parent' # parent,
         parent' # "begin"
  PROVE  \/ parent' \in LateStart
         \/ parent' = "hAnchorKill" /\ parent = "hAnchor"
         \/ parent' = "hAnchor" /\ SettleSupervisor
<1>1. parent' \in Stages
  BY TypeStep DEF TypeOK
<1> QED BY <1>1
    DEF ParentReaches, Raises, LateStart, SpawnAnchor, GuardianReady, SpawnSupervisor, ReadPid,
        NoCompletion, ReadCompletion, SettleAnchor, Confirm, Stages, Opening, Main, Handler, Ends

LEMMA NobodyBorn ==
  ASSUME TypeOK, OrderInv, Next, ~StartGit, Running = {}
  PROVE  Running' = {}
<1>1. CASE CancelKill \/ SettleAnchor \/ DrainKill \/ AnchorFires
  BY <1>1, KillTypes DEF CancelKill, SettleAnchor, DrainKill, AnchorFires, groupVars, Running
<1>2. CASE SpawnAnchor \/ AnchorKilled
  BY <1>2 DEF SpawnAnchor, AnchorKilled, Running
<1>3. \A m \in Member : ~Exit(m) /\ \A c \in Descendant : ~Fork(m, c)
  BY DEF Exit, Fork, Living, Running
<1> QED BY <1>1, <1>2, <1>3, GroupKept DEF groupVars, Running

LEMMA ProofStep ==
  ASSUME TypeOK, OrderInv, OutcomeInv, SupervisorInv, ProofInv,
         InterruptedIn \subseteq Main, [Next]_vars
  PROVE  ProofInv'
<1>1. CASE Next /\ Quiet
  <2>1. /\ parent' = parent /\ outcome' = outcome
        /\ ~SpawnSupervisor /\ ~SettleSupervisor /\ ~Cancelled /\ ~Confirm
    BY <1>1, QuietKeeps, CancelStages
    DEF SpawnSupervisor, SettleSupervisor, AfterSupervisor, Confirm
  <2>2. proof' = proof \/ ReportStopped
    BY <1>1, QuietKeeps
  <2>3. told' = "proven" => proof' # "none"
    BY <1>1, QuietKeeps, ProofGrows DEF ProofInv, ReportUnproven
  <2>4. proof' = "sound" /\ supervisor' = "starting" => parent' \in LateStart
    BY <1>1, <2>1, <2>2, SupervisorKept, SupervisorSteps DEF ProofInv, ReportStopped
  <2>5. ASSUME proof' = "sound", parent' \notin LateStart \cup {"hAnchor", "hAnchorKill"}
        PROVE  Running' = {}
    <3>1. CASE ReportStopped
      BY <1>1, <2>5, <3>1, ProofGrows DEF ReportStopped, groupVars, Running
    <3>2. CASE ~ReportStopped
      <4>1. Running = {} /\ ~StartGit
        BY <2>1, <2>2, <2>5, <3>2 DEF ProofInv, StartGit
      <4> QED BY <1>1, <4>1, NobodyBorn
    <3> QED BY <3>1, <3>2
  <2> QED BY <1>1, <2>1, <2>3, <2>4, <2>5, ProofGrows DEF ProofInv
<1>2. CASE Next /\ ~Quiet
  <2>1. ParentReaches /\ ~ReportStopped /\ ~StartGit /\ parent' \notin {parent, "begin"}
    BY <1>2, ParentEdges DEF Quiet, SupervisorStep
  <2>2. supervisor' = supervisor \/ SpawnSupervisor \/ SettleSupervisor
    BY <1>2, SupervisorKept DEF Quiet
  <2>3. told' \in {told, "none"}
    BY <1>2 DEF Quiet, Next, ParentStep, SpawnAnchor, GuardianReady, GuardianFails,
       SpawnSupervisor, SupervisorNotSpawned, ReadPid, NoPid, ReadCompletion, NoCompletion,
       HandlerReads, HandlerReadsNothing, CancelKill, Cancelled, GivesUp, SettleSupervisor,
       SettleAnchor, Confirm, Interrupt, ParentKilled
  <2>4. told' = "proven" => proof' # "none"
    BY <1>2, <2>3, ProofGrows DEF ProofInv
  <2>5. parent' \in {"settle", "settleAnchor"} /\ outcome' # "confirm" => proof' # "none"
    BY <1>2, <2>1, ProofGrows DEF ParentReaches, ReadCompletion, SettleSupervisor, ProofInv
  <2>6. parent' \in Released \cup {"hSettleAnchor"} => proof' # "none"
    <3>1. SettleAnchor /\ outcome # "confirm" => proof # "none"
      BY DEF SettleAnchor, ProofInv
    <3> QED BY <1>2, <2>1, <3>1, ProofGrows DEF ParentReaches, Released
  <2>7. ASSUME proof' = "sound", supervisor' = "starting" PROVE parent' \in LateStart
    <3>1. supervisor = "starting"
      <4>1. ~SettleSupervisor
        BY <2>7 DEF SettleSupervisor
      <4>2. ~SpawnSupervisor
        BY <2>7 DEF SpawnSupervisor, OrderInv, Opening
      <4> QED BY <2>2, <2>7, <4>1, <4>2
    <3>2. CASE Cancelled
      BY <3>1, <3>2, CancelStages DEF SupervisorInv, LateStart
    <3>3. ~Confirm
      BY <3>1 DEF Confirm, SupervisorInv
    <3>4. CASE ~Cancelled
      <4>1. parent \in LateStart
        BY <1>2, <2>1, <2>7, <3>1, <3>3, <3>4, ProofKept DEF ProofInv
      <4> QED BY <1>2, <2>1, <2>7, <3>1, <3>4, <4>1, Left DEF SettleSupervisor, LateStart
    <3> QED BY <3>2, <3>4
  <2>8. ASSUME proof' = "sound", parent' \notin LateStart \cup {"hAnchor", "hAnchorKill"}
        PROVE  Running' = {}
    <3>1. CASE Cancelled \/ Confirm
      BY <1>2, <2>8, <3>1, ProofGrows
      DEF Cancelled, Confirm, groupVars, Running, LateStart
    <3>2. CASE ~Cancelled /\ ~Confirm
      <4>1. proof = "sound"
        BY <1>2, <2>1, <2>8, <3>2, ProofKept
      <4>2. parent \notin LateStart \cup {"hAnchor", "hAnchorKill"}
        BY <1>2, <2>1, <2>8, <3>2, Left DEF LateStart
      <4> QED BY <1>2, <2>1, <4>1, <4>2, NobodyBorn DEF ProofInv
    <3> QED BY <3>1, <3>2
  <2> QED BY <2>4, <2>5, <2>6, <2>7, <2>8 DEF ProofInv
<1>3. CASE UNCHANGED vars
  BY <1>3 DEF vars, ProofInv, Running
<1> QED BY <1>1, <1>2, <1>3

-----------------------------------------------------------------------------
(* When the parent takes a SIGINT only where it handles one.  (Elsewhere   *)
(* it may give the lease back without a proof: run supervision_interrupt.) *)
THEOREM SupervisionInvariant ==
  ASSUME InterruptedIn \subseteq Main PROVE Spec => []SupervisionInv
<1>1. Init => SupervisionInv
  BY DEF Init, SupervisionInv, TypeOK, OrderInv, OutcomeInv, AnchorInv, SupervisorInv, ProofInv,
         Stages, Opening, Handler, Member, Released, LateStart, Living, Running
<1>2. SupervisionInv /\ [Next]_vars => SupervisionInv'
  BY TypeStep, OrderStep, OutcomeStep, AnchorStep, SupervisorInvStep, ProofStep
  DEF SupervisionInv
<1> QED BY <1>1, <1>2, PTL DEF Spec

(* A parent that gives the lease back has proof that its group stopped,    *)
(* and unless a scan missed a process, nothing of the command runs; and    *)
(* unless an outsider killed the anchor or Git began after it, whatever a  *)
(* scan missed was killed.                                                 *)
THEOREM Stopped == ASSUME InterruptedIn \subseteq Main PROVE Spec => []StoppedWhenReleased
<1>1. SupervisionInv => StoppedWhenReleased
  <2> SUFFICES ASSUME SupervisionInv, parent \in Released PROVE StoppedWhenReleased
    BY DEF StoppedWhenReleased, Released
  <2> USE DEF SupervisionInv
  <2>1. proof # "none" /\ (proof = "sound" => Running = {})
    BY DEF ProofInv, Released, LateStart
  <2>2. Anchored => anchor = "fired"
    BY DEF Anchored, AnchorInv, OrderInv, Released, TypeOK
  <2> QED BY <2>1, <2>2 DEF StoppedWhenReleased, AnchorInv
<1> QED BY <1>1, SupervisionInvariant, PTL
=============================================================================
