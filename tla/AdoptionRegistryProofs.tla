----------------------- MODULE AdoptionRegistryProofs -----------------------
(***************************************************************************)
(* Proofs about what adoption and the create beside it leave in the        *)
(* Registry, for any processes and Worktrees.                              *)
(*                                                                         *)
(* FactsInv: a row records what was so once, and a transaction that is to  *)
(* write one is alone with it.  ResultsInv: what an adoption returned is   *)
(* in the row, and the adoption that made the row says so.  CreateInv: the *)
(* Worktree of a create waits for its create.                              *)
(***************************************************************************)
EXTENDS AdoptionProofs

RowsAreFacts ==
  \A w \in Worktree :
    Recorded(w) => rows[w].generation # NoGeneration /\ rows[w].head <= head[w]

(* Nothing is committed between the observation under the write lock and   *)
(* the end of its transaction.                                             *)
TransactionIsAlone ==
  \A p \in Adopter :
    pc[p] = "inTransaction" =>
      LET w == call[p].goal
      IN /\ writer = p
         /\ call[p].seen.head <= head[w]
         /\ Recorded(w) => rows[w].head <= call[p].seen.head

CompletesThePlanned ==
  pc[Create] = "completing" =>
    call[Create].seen.worktree = Token /\ call[Create].seen.head <= head[Made]

FactsInv == RowsAreFacts /\ TransactionIsAlone /\ CompletesThePlanned

CreateSteps == BeginIntent \/ Resolve \/ Stage \/ MoveToTarget \/ Complete

(* A step of a process.                                                    *)
StepOf(p) ==
  \/ Establishes(p) \/ Kill(p)
  \/ p \in Adopter /\ Adopts(p)
  \/ p = Create /\ CreateSteps

Outsiders ==
  \/ \E w \in Worktree : Commit(w) \/ Forget(w)
  \/ \E q \in Place : LoseMarker(q) \/ Replace(q)

-----------------------------------------------------------------------------
LEMMA WhoSteps == ASSUME Next PROVE (\E p \in Process : StepOf(p)) \/ Outsiders
BY DEF Next, StepOf, Outsiders, CreateSteps, Process

(* A process changes no stage and no local variable but its own.           *)
LEMMA Local ==
  ASSUME TypeOK, NEW p \in Process, StepOf(p), NEW q \in Process, q # p
  PROVE  pc'[q] = pc[q] /\ call'[q] = call[q]
<1> USE DEF TypeOK, Goes
<1>1. CASE Establishes(p)
  BY <1>1, EndsOthers DEF Establishes, OpenDirectory, Lock, LockTimesOut, Reread, Verify,
                          Publish, Established, Abandoned
<1>2. CASE Kill(p)
  BY <1>2, EndsOthers DEF Kill
<1>3. CASE Adopts(p)
  BY <1>3, EndsOthers DEF Adopts, Observe, RequireRepository, RequireWorkspace,
                          ObserveEstablished, BeginAdoption, CommitAdoption, Report
<1>4. CASE p = Create /\ CreateSteps
  BY <1>4, EndsOthers DEF CreateSteps, BeginIntent, Resolve, Stage, MoveToTarget, Complete
<1> QED BY <1>1, <1>2, <1>3, <1>4 DEF StepOf

(* What changes rows and heads, and who changes the writer.                *)
LEMMA RowsKept ==
  ASSUME NEW p \in Process, StepOf(p), ~(p \in Adopter /\ CommitAdoption(p)), ~Complete
  PROVE  rows' = rows
BY DEF StepOf, Establishes, OpenDirectory, Lock, LockTimesOut, Reread, Verify, Publish, Kill,
       Adopts, Observe, RequireRepository, RequireWorkspace, ObserveEstablished, BeginAdoption,
       Report, CreateSteps, BeginIntent, Resolve, Stage, MoveToTarget, registryVars

LEMMA HeadKept == ASSUME NEW p \in Process, StepOf(p) PROVE head' = head
BY DEF StepOf, Establishes, OpenDirectory, Lock, LockTimesOut, Reread, Verify, Publish, Kill,
       Adopts, Observe, RequireRepository, RequireWorkspace, ObserveEstablished, BeginAdoption,
       CommitAdoption, Report, CreateSteps, BeginIntent, Resolve, Stage, MoveToTarget, Complete,
       layout

LEMMA WriterKept ==
  ASSUME NEW p \in Process, StepOf(p), NEW q \in Process, q # p, writer = q,
         p \in Adopter => ~CommitAdoption(p)
  PROVE  writer' = q
<1>1. q # NoOne
  BY AdoptionAssumption
<1> QED BY <1>1
  DEF StepOf, Establishes, OpenDirectory, Lock, LockTimesOut, Reread, Verify, Publish, Kill,
      Adopts, Observe, RequireRepository, RequireWorkspace, ObserveEstablished, BeginAdoption,
      Report, CreateSteps, BeginIntent, Resolve, Stage, MoveToTarget, Complete, registryVars

(* Who gets into a transaction, or on to the completion.                   *)
LEMMA StagesReached ==
  ASSUME TypeOK, NEW p \in Process, StepOf(p)
  PROVE  /\ pc'[p] = "inTransaction" => p \in Adopter /\ BeginAdoption(p)
         /\ pc'[p] = "completing" => p = Create /\ Stage
<1> USE DEF TypeOK, Goes
<1>1. CASE Establishes(p)
  BY <1>1, EndsOthers DEF Establishes, OpenDirectory, Lock, LockTimesOut, Reread, Verify,
                          Publish, Established, Abandoned
<1>2. CASE Kill(p)
  BY <1>2, EndsOthers DEF Kill
<1>3. CASE p \in Adopter /\ Adopts(p)
  <2>1. CASE \E w \in Worktree : Observe(p, w)
    BY <1>3, <2>1 DEF Observe
  <2>2. CASE RequireRepository(p)
    BY <1>3, <2>2, EndsOthers DEF RequireRepository
  <2>3. CASE RequireWorkspace(p)
    BY <1>3, <2>3, EndsOthers DEF RequireWorkspace
  <2>4. CASE ObserveEstablished(p)
    BY <1>3, <2>4 DEF ObserveEstablished
  <2>5. CASE BeginAdoption(p)
    BY <1>3, <2>5 DEF BeginAdoption
  <2>6. CASE CommitAdoption(p)
    BY <1>3, <2>6, EndsOthers DEF CommitAdoption
  <2>7. CASE Report(p)
    BY <1>3, <2>7, EndsOthers DEF Report
  <2> QED BY <1>3, <2>1, <2>2, <2>3, <2>4, <2>5, <2>6, <2>7 DEF Adopts
<1>4. CASE p = Create /\ CreateSteps
  <2>1. CASE BeginIntent
    BY <1>4, <2>1 DEF BeginIntent
  <2>2. CASE Resolve
    BY <1>4, <2>2 DEF Resolve
  <2>3. CASE Stage
    BY <1>4, <2>3, EndsOthers DEF Stage
  <2>4. CASE MoveToTarget
    BY <1>4, <2>4, EndsOthers DEF MoveToTarget
  <2>5. CASE Complete
    BY <1>4, <2>5, EndsOthers DEF Complete
  <2> QED BY <1>4, <2>1, <2>2, <2>3, <2>4, <2>5 DEF CreateSteps
<1> QED BY <1>1, <1>2, <1>3, <1>4 DEF StepOf

-----------------------------------------------------------------------------
(* Rows and heads as steps of each kind leave them.                        *)
LEMMA FactsAlone ==
  ASSUME TypeOK, TypeOK', FactsInv, NEW p \in Process, StepOf(p),
         rows' = rows, p \in Adopter => ~CommitAdoption(p)
  PROVE  FactsInv'
<1>h. head' = head
  BY HeadKept
<1>1. RowsAreFacts'
  BY <1>h DEF FactsInv, RowsAreFacts, Recorded
<1>2. TransactionIsAlone'
  <2> SUFFICES ASSUME NEW q \in Adopter, pc'[q] = "inTransaction"
               PROVE  LET w == call'[q].goal
                      IN /\ writer' = q
                         /\ call'[q].seen.head <= head[w]
                         /\ Recorded(w) => rows[w].head <= call'[q].seen.head
    BY <1>h DEF TransactionIsAlone, Recorded
  <2>q. q \in Process
    BY DEF Process
  <2>1. CASE q = p
    <3>1. BeginAdoption(q)
      BY <2>1, <2>q, StagesReached
    <3>2. call[q] \in Call /\ call[q].goal \in Worktree
      BY <2>q DEF TypeOK, Call
    <3>3. writer' = q /\ call'[q].goal = call[q].goal /\ call'[q].seen = Look(call[q].goal)
      BY <2>q, <3>1, <3>2 DEF BeginAdoption, Reobserved, TypeOK, Call
    <3>4. call'[q].seen.head = head[call[q].goal] /\ head[call[q].goal] \in Nat
      BY <3>2, <3>3 DEF Look, TypeOK
    <3> QED BY <3>2, <3>3, <3>4 DEF FactsInv, RowsAreFacts
  <2>2. CASE q # p
    <3>1. pc[q] = "inTransaction" /\ call'[q] = call[q]
      BY <2>2, <2>q, Local
    <3>2. writer = q
      BY <3>1 DEF FactsInv, TransactionIsAlone
    <3> QED BY <2>2, <2>q, <3>1, <3>2, WriterKept DEF FactsInv, TransactionIsAlone
  <2> QED BY <2>1, <2>2
<1>3. CompletesThePlanned'
  <2> SUFFICES ASSUME pc'[Create] = "completing"
               PROVE  call'[Create].seen.worktree = Token /\ call'[Create].seen.head <= head[Made]
    BY <1>h DEF CompletesThePlanned
  <2>c. Create \in Process /\ Made \in Worktree
    BY DEF Process, Worktree
  <2>1. CASE p = Create
    <3>1. Stage
      BY <2>1, StagesReached
    <3>2. MarkerAt(Made) = Token /\ call' = [call EXCEPT ![Create].seen = Look(Made)]
      BY <2>c, <3>1, EndsOthers DEF Stage, Goes, TypeOK
    <3>3. call'[Create].seen = Look(Made)
      BY <2>c, <3>2 DEF TypeOK, Call
    <3> QED BY <2>c, <3>2, <3>3 DEF Look, TypeOK
  <2>2. CASE p # Create
    <3>1. pc[Create] = "completing" /\ call'[Create] = call[Create]
      BY <2>2, <2>c, Local
    <3> QED BY <3>1 DEF FactsInv, CompletesThePlanned
  <2> QED BY <2>1, <2>2
<1> QED BY <1>1, <1>2, <1>3 DEF FactsInv

(* What a commit does to the rows.                                         *)
LEMMA CommitRow ==
  ASSUME TypeOK, NEW p \in Adopter, CommitAdoption(p),
         Acceptable(call[p].seen, rows[call[p].goal])
  PROVE  LET w == call[p].goal
             look == call[p].seen
         IN /\ w \in Worktree /\ pc[p] = "inTransaction"
            /\ \A v \in Worktree \ {w} : rows'[v] = rows[v]
            /\ rows'[w].workspace = (IF Recorded(w) THEN rows[w].workspace ELSE p)
            /\ rows'[w].generation = look.worktree
            /\ rows'[w].head = look.head
            /\ rows'[w].state = "active"
            /\ result'[p].worktree = w
            /\ result'[p].workspace = rows'[w].workspace
            /\ result'[p].created = ~Recorded(w)
            /\ \A q \in Process \ {p} : result'[q] = result[q]
            /\ pc'[p] = "committed"
<1> DEFINE w == call[p].goal
           look == call[p].seen
           row == [ workspace |-> IF Recorded(w) THEN rows[w].workspace ELSE p,
                    generation |-> look.worktree, head |-> look.head, state |-> "active" ]
<1>1. p \in Process /\ call[p] \in Call /\ w \in Worktree
  BY DEF Process, TypeOK, Call
<1>2. pc[p] = "inTransaction"
  BY DEF CommitAdoption
<1>3. rows' = [rows EXCEPT ![w] = row]
  BY DEF CommitAdoption, TypeOK
<1>4. rows'[w] = row /\ \A v \in Worktree \ {w} : rows'[v] = rows[v]
  BY <1>1, <1>3 DEF TypeOK
<1>5. /\ result' = [result EXCEPT ![p] =
            [worktree |-> w, workspace |-> rows'[w].workspace, created |-> Creates(p)]]
      /\ Ends(p, "committed")
  BY DEF CommitAdoption
<1>6. /\ result'[p].worktree = w /\ result'[p].workspace = rows'[w].workspace
      /\ result'[p].created = ~Recorded(w)
      /\ \A q \in Process \ {p} : result'[q] = result[q]
  BY <1>1, <1>5 DEF TypeOK, Creates
<1>7. pc'[p] = "committed"
  BY <1>1, <1>5, EndsOthers
<1> QED BY <1>1, <1>2, <1>4, <1>6, <1>7

(* An adoption that is not acceptable changes nothing.                     *)
LEMMA CommitRefused ==
  ASSUME TypeOK, NEW p \in Adopter, CommitAdoption(p),
         ~Acceptable(call[p].seen, rows[call[p].goal])
  PROVE  rows' = rows /\ result' = result /\ pc'[p] = "failed"
<1>1. p \in Process
  BY DEF Process
<1> QED BY <1>1, EndsOthers DEF CommitAdoption

LEMMA FactsCommit ==
  ASSUME TypeOK, TypeOK', FactsInv, NEW p \in Adopter, CommitAdoption(p)
  PROVE  FactsInv'
<1>p. p \in Process /\ StepOf(p) /\ pc[p] = "inTransaction"
  BY DEF Process, StepOf, Adopts, CommitAdoption
<1>h. head' = head /\ writer = p /\ pc'[p] \notin {"inTransaction", "completing"}
  BY <1>p, HeadKept, StagesReached DEF FactsInv, TransactionIsAlone, BeginAdoption, Stage
<1>1. RowsAreFacts'
  <2>1. CASE rows' = rows
    BY <1>h, <2>1 DEF FactsInv, RowsAreFacts, Recorded
  <2>2. CASE rows' # rows
    <3> DEFINE w == call[p].goal
    <3>0. Acceptable(call[p].seen, rows[w])
      BY <2>2, CommitRefused
    <3>1. /\ w \in Worktree
          /\ \A v \in Worktree \ {w} : rows'[v] = rows[v]
          /\ rows'[w].generation = call[p].seen.worktree /\ rows'[w].head = call[p].seen.head
      BY <3>0, CommitRow
    <3>2. rows'[w].generation # NoGeneration /\ rows'[w].head <= head[w]
      BY <1>p, <3>0, <3>1 DEF Acceptable, FactsInv, TransactionIsAlone
    <3> QED BY <1>h, <3>1, <3>2 DEF FactsInv, RowsAreFacts, Recorded
  <2> QED BY <2>1, <2>2
<1>2. TransactionIsAlone'
  <2> SUFFICES ASSUME NEW q \in Adopter, pc'[q] = "inTransaction" PROVE FALSE
    BY DEF TransactionIsAlone
  <2>1. q # p /\ q \in Process
    BY <1>h DEF Process
  <2>2. pc[q] = "inTransaction"
    BY <1>p, <2>1, Local
  <2> QED BY <1>h, <2>1, <2>2 DEF FactsInv, TransactionIsAlone
<1>3. CompletesThePlanned'
  <2>1. Create \in Process /\ Create # p
    BY AdoptionAssumption DEF Process
  <2> QED BY <1>p, <1>h, <2>1, Local DEF FactsInv, CompletesThePlanned
<1> QED BY <1>1, <1>2, <1>3 DEF FactsInv

LEMMA CompleteRow ==
  ASSUME TypeOK, Complete, rows' # rows
  PROVE  /\ ~Recorded(Made)
         /\ \A v \in Worktree \ {Made} : rows'[v] = rows[v]
         /\ rows'[Made] = [ workspace |-> Create, generation |-> call[Create].seen.worktree,
                            head |-> call[Create].seen.head, state |-> "active" ]
         /\ intent'.status = "completed"
<1>1. Made \in Worktree
  BY DEF Worktree
<1> QED BY <1>1 DEF Complete, TypeOK

LEMMA FactsComplete ==
  ASSUME TypeOK, TypeOK', FactsInv, Complete
  PROVE  FactsInv'
<1>p. Create \in Process /\ StepOf(Create) /\ pc[Create] = "completing" /\ writer = NoOne
  BY DEF Process, StepOf, CreateSteps, Complete
<1>h. head' = head /\ Made \in Worktree /\ pc'[Create] \notin {"inTransaction", "completing"}
  BY <1>p, HeadKept, StagesReached DEF Stage, BeginAdoption, Worktree
<1>1. RowsAreFacts'
  BY <1>p, <1>h, CompleteRow DEF FactsInv, RowsAreFacts, Recorded, CompletesThePlanned,
                                 NoGeneration, Token
<1>2. TransactionIsAlone'
  <2> SUFFICES ASSUME NEW q \in Adopter, pc'[q] = "inTransaction" PROVE FALSE
    BY DEF TransactionIsAlone
  <2>1. q # Create /\ q \in Process /\ q # NoOne
    BY AdoptionAssumption DEF Process
  <2>2. pc[q] = "inTransaction"
    BY <1>p, <2>1, Local
  <2> QED BY <1>p, <2>1, <2>2 DEF FactsInv, TransactionIsAlone
<1> QED BY <1>1, <1>2, <1>h DEF FactsInv, CompletesThePlanned

LEMMA FactsOutside ==
  ASSUME TypeOK, TypeOK', FactsInv, Outsiders
  PROVE  FactsInv'
<1>1. pc' = pc /\ call' = call /\ writer' = writer
  BY DEF Outsiders, Commit, Forget, LoseMarker, Replace, Meddle
<1>2. \A w \in Worktree : head'[w] >= head[w]
  BY DEF Outsiders, Commit, Forget, LoseMarker, Replace, TypeOK
<1>t. /\ \A w \in Worktree : head[w] \in Nat /\ head'[w] \in Nat /\ rows[w].head \in Nat
      /\ \A p \in Process : call[p].goal \in Worktree /\ call[p].seen.head \in Nat
  BY DEF TypeOK, Row, Call, Sight
<1>p. /\ Create \in Process /\ Adopter \subseteq Process /\ Made \in Worktree
      /\ NoOne \notin Adopter
  BY AdoptionAssumption DEF Process, Worktree
<1>3. CASE rows' = rows
  BY <1>1, <1>2, <1>3, <1>t, <1>p
  DEF FactsInv, RowsAreFacts, TransactionIsAlone, CompletesThePlanned, Recorded
<1>4. ASSUME NEW w \in Worktree, Forget(w) PROVE FactsInv'
  <2>1. writer = NoOne /\ head' = head /\ rows[w].state = "active"
    BY <1>4 DEF Forget
  <2>2. \A v \in Worktree : /\ rows'[v].generation = rows[v].generation
                            /\ rows'[v].head = rows[v].head
                            /\ rows'[v].state # "none" => rows[v].state # "none"
    BY <1>4 DEF Forget, TypeOK, Row
  <2> QED BY <1>1, <1>p, <2>1, <2>2
          DEF FactsInv, RowsAreFacts, TransactionIsAlone, CompletesThePlanned, Recorded
<1> QED BY <1>3, <1>4 DEF Outsiders, Commit, LoseMarker, Replace

LEMMA FactsStep == ASSUME TypeOK, TypeOK', FactsInv, [Next]_vars PROVE FactsInv'
<1>1. CASE UNCHANGED vars
  BY <1>1 DEF vars, FactsInv, RowsAreFacts, TransactionIsAlone, CompletesThePlanned, Recorded
<1>2. ASSUME NEW p \in Process, StepOf(p) PROVE FactsInv'
  BY <1>2, FactsAlone, FactsCommit, FactsComplete, RowsKept
<1> QED BY <1>1, <1>2, WhoSteps, FactsOutside

LEMMA FactsStart == ASSUME Init PROVE FactsInv
BY DEF Init, FactsInv, RowsAreFacts, TransactionIsAlone, CompletesThePlanned, Recorded, NoRow,
       Process

(* Rows record facts, and a transaction that writes one is alone.          *)
THEOREM FactsInvariant == Spec => []FactsInv
BY FactsStart, FactsStep, AdoptionTypeCorrect, PTL DEF Spec

(* No adoption and no create takes what a row records back, binds a row    *)
(* anew, or revives a forgotten one.                                       *)
THEOREM FactsSafety == Spec => FactsMoveForward
<1>1. ASSUME TypeOK, TypeOK', FactsInv, [Next]_vars
      PROVE  [\A w \in Worktree :
                Recorded(w) =>
                  /\ rows'[w].workspace = rows[w].workspace
                  /\ rows'[w].generation = rows[w].generation
                  /\ rows'[w].head >= rows[w].head
                  /\ rows[w].state = "forgotten" => rows'[w] = rows[w]]_vars
  <2> SUFFICES ASSUME Next, NEW w \in Worktree, Recorded(w), rows' # rows
               PROVE  /\ rows'[w].workspace = rows[w].workspace
                      /\ rows'[w].generation = rows[w].generation
                      /\ rows'[w].head >= rows[w].head
                      /\ rows[w].state = "forgotten" => rows'[w] = rows[w]
    BY <1>1 DEF TypeOK, Row, vars
  <2>t. /\ rows[w].head \in Nat /\ rows'[w].head \in Nat
        /\ \A p \in Process : call[p].seen.head \in Nat
    BY <1>1 DEF TypeOK, Row, Call, Sight
  <2>1. ASSUME NEW p \in Adopter, CommitAdoption(p)
        PROVE  /\ rows'[w].workspace = rows[w].workspace
               /\ rows'[w].generation = rows[w].generation
               /\ rows'[w].head >= rows[w].head
               /\ rows[w].state = "forgotten" => rows'[w] = rows[w]
    <3>1. Acceptable(call[p].seen, rows[call[p].goal])
      BY <1>1, <2>1, CommitRefused
    <3>2. CASE call[p].goal # w
      BY <1>1, <2>1, <2>t, <3>1, <3>2, CommitRow
    <3>3. CASE call[p].goal = w
      <4>1. /\ pc[p] = "inTransaction"
            /\ rows'[w].workspace = rows[w].workspace
            /\ rows'[w].generation = call[p].seen.worktree
            /\ rows'[w].head = call[p].seen.head
        BY <1>1, <2>1, <3>1, <3>3, CommitRow
      <4>2. rows[w].generation # NoGeneration /\ rows[w].head <= call[p].seen.head
        BY <1>1, <2>1, <3>3, <4>1 DEF FactsInv, RowsAreFacts, TransactionIsAlone
      <4>3. rows[w].generation = call[p].seen.worktree /\ rows[w].state # "forgotten"
        BY <3>1, <3>3, <4>2 DEF Acceptable, Agrees
      <4> QED BY <2>t, <4>1, <4>2, <4>3
    <3> QED BY <3>2, <3>3
  <2>2. CASE Complete
    BY <1>1, <2>2, <2>t, CompleteRow
  <2>3. ASSUME NEW v \in Worktree, Forget(v)
        PROVE  /\ rows'[w].workspace = rows[w].workspace
               /\ rows'[w].generation = rows[w].generation
               /\ rows'[w].head = rows[w].head
               /\ rows[w].state = "forgotten" => rows'[w] = rows[w]
    <3>1. CASE v = w
      BY <1>1, <2>3, <3>1 DEF Forget, TypeOK, Row
    <3>2. CASE v # w
      BY <1>1, <2>3, <3>2 DEF Forget, TypeOK
    <3> QED BY <3>1, <3>2
  <2>4. \/ \E p \in Adopter : CommitAdoption(p)
        \/ Complete
        \/ \E v \in Worktree : Forget(v)
    <3>1. ASSUME NEW p \in Process, StepOf(p)
          PROVE  (p \in Adopter /\ CommitAdoption(p)) \/ Complete
      BY <3>1, RowsKept
    <3>2. ASSUME Outsiders PROVE \E v \in Worktree : Forget(v)
      BY <3>2 DEF Outsiders, Commit, LoseMarker, Replace
    <3> QED BY <3>1, <3>2, WhoSteps
  <2> QED BY <2>t, <2>1, <2>2, <2>3, <2>4
<1> QED BY <1>1, AdoptionTypeCorrect, FactsInvariant, PTL DEF Spec, FactsMoveForward

-----------------------------------------------------------------------------
(* An adoption that has committed, whether it has reported or not.         *)
Committed == {"committed", "done"}

(* What an adoption returned, or is to return, is what the row says.       *)
ReturnsTheRow ==
  \A p \in Adopter :
    pc[p] \in Committed =>
      LET w == result[p].worktree
      IN /\ Recorded(w)
         /\ result[p].workspace = rows[w].workspace
         /\ result[p].created <=> rows[w].workspace = p

(* It lives on after its commit, or was killed since.                      *)
Outlived(p) == pc[p] \in Committed \/ (pc[p] = "failed" /\ kills > 0)

(* The adoption that a row is of has committed it, and no other.           *)
CreatorCommitted ==
  \A p \in Adopter : \A w \in Worktree :
    rows[w].workspace = p => Outlived(p) /\ result[p].worktree = w

ResultsInv == ReturnsTheRow /\ CreatorCommitted

LEMMA KillsGrow == ASSUME TypeOK, Next, kills > 0 PROVE kills' > 0
<1>1. kills \in Nat
  BY AdoptionAssumption DEF TypeOK
<1>2. kills' = kills \/ kills' = kills + 1
  BY DEF Next, Establishes, OpenDirectory, Lock, LockTimesOut, Reread, Verify, Publish, Kill,
         Adopts, Observe, RequireRepository, RequireWorkspace, ObserveEstablished, BeginAdoption,
         CommitAdoption, Report, BeginIntent, Resolve, Stage, MoveToTarget, Complete,
         Meddle, Commit, Forget, LoseMarker, Replace, bounds
<1> QED BY <1>1, <1>2

(* An adoption gets past its commit by committing, and only a kill takes   *)
(* it from there.                                                          *)
LEMMA OnlyByCommit ==
  ASSUME TypeOK, NEW p \in Adopter, StepOf(p), ~CommitAdoption(p)
  PROVE  /\ pc'[p] \in Committed => pc[p] \in Committed
         /\ Outlived(p) => Outlived(p)'
         /\ result' = result
<1> USE DEF TypeOK, Goes, Committed, Outlived
<1>p. p \in Process /\ p # Create
  BY AdoptionAssumption DEF Process
<1>1. CASE Establishes(p)
  BY <1>1, <1>p, EndsOthers DEF Establishes, OpenDirectory, Lock, LockTimesOut, Reread, Verify,
                                Publish, Established, Abandoned
<1>2. CASE Kill(p)
  <2>1. kills \in Nat /\ kills' = kills + 1 /\ pc'[p] = "failed" /\ result' = result
    BY <1>2, <1>p, EndsOthers, AdoptionAssumption DEF Kill
  <2> QED BY <2>1
<1>3. CASE Adopts(p)
  <2>1. CASE \E w \in Worktree : Observe(p, w)
    BY <1>p, <2>1 DEF Observe
  <2>2. CASE RequireRepository(p)
    BY <1>p, <2>2, EndsOthers DEF RequireRepository
  <2>3. CASE RequireWorkspace(p)
    BY <1>p, <2>3, EndsOthers DEF RequireWorkspace
  <2>4. CASE ObserveEstablished(p)
    BY <1>p, <2>4 DEF ObserveEstablished
  <2>5. CASE BeginAdoption(p)
    BY <1>p, <2>5 DEF BeginAdoption
  <2>6. CASE Report(p)
    BY <1>p, <2>6, EndsOthers DEF Report
  <2> QED BY <1>3, <2>1, <2>2, <2>3, <2>4, <2>5, <2>6 DEF Adopts
<1> QED BY <1>1, <1>2, <1>3, <1>p DEF StepOf

LEMMA CreateReturnsNothing == ASSUME StepOf(Create) PROVE result' = result
<1>1. Create \notin Adopter
  BY AdoptionAssumption
<1> QED BY <1>1
  DEF StepOf, Establishes, OpenDirectory, Lock, LockTimesOut, Reread, Verify, Publish, Kill,
      CreateSteps, BeginIntent, Resolve, Stage, MoveToTarget, Complete

(* As long as no adoption commits and no row changes hands.                *)
LEMMA ResultsAlone ==
  ASSUME TypeOK, ResultsInv, result' = result,
         \A p \in Adopter : /\ pc'[p] \in Committed => pc[p] \in Committed
                            /\ Outlived(p) => Outlived(p)',
         \A w \in Worktree : /\ Recorded(w) => Recorded(w)'
                             /\ rows'[w].workspace = rows[w].workspace
  PROVE  ResultsInv'
<1>1. \A p \in Adopter : result[p].worktree \in Worktree
  BY DEF TypeOK, Process
<1> QED BY <1>1 DEF ResultsInv, ReturnsTheRow, CreatorCommitted

LEMMA ResultsCommit ==
  ASSUME TypeOK, ResultsInv, NEW p \in Adopter, CommitAdoption(p),
         Acceptable(call[p].seen, rows[call[p].goal])
  PROVE  ResultsInv'
<1> DEFINE w == call[p].goal
<1>p. p \in Process /\ StepOf(p)
  BY DEF Process, StepOf, Adopts
<1>1. /\ w \in Worktree /\ pc[p] = "inTransaction" /\ pc'[p] = "committed"
      /\ \A v \in Worktree \ {w} : rows'[v] = rows[v]
      /\ rows'[w].workspace = (IF Recorded(w) THEN rows[w].workspace ELSE p)
      /\ rows'[w].state = "active"
      /\ result'[p].worktree = w
      /\ result'[p].workspace = rows'[w].workspace
      /\ result'[p].created = ~Recorded(w)
      /\ \A q \in Process \ {p} : result'[q] = result[q]
  BY CommitRow
<1>2. \A q \in Adopter \ {p} : /\ q \in Process /\ pc'[q] = pc[q] /\ result'[q] = result[q]
                               /\ result[q].worktree \in Worktree
                               /\ Outlived(q)' <=> Outlived(q)
  <2>1. kills' = kills
    BY DEF CommitAdoption, bounds
  <2> QED BY <1>p, <1>1, <2>1, Local DEF Process, TypeOK, Outlived
(* p has not committed before, so no row is of it.                         *)
<1>3. \A v \in Worktree : rows[v].workspace # p
  BY <1>1 DEF ResultsInv, CreatorCommitted, Outlived, Committed
<1>4. \A v \in Worktree : Recorded(v) => Recorded(v)' /\ rows'[v].workspace = rows[v].workspace
  BY <1>1 DEF Recorded
<1>5. ReturnsTheRow'
  <2> SUFFICES ASSUME NEW q \in Adopter, pc'[q] \in Committed
               PROVE  LET v == result'[q].worktree
                      IN /\ rows'[v].state # "none"
                         /\ result'[q].workspace = rows'[v].workspace
                         /\ result'[q].created <=> rows'[v].workspace = q
    BY DEF ReturnsTheRow, Recorded
  <2>1. CASE q = p
    <3>1. rows'[w].state # "none" /\ (~Recorded(w) <=> rows'[w].workspace = p)
      BY <1>1, <1>3
    <3> HIDE DEF w
    <3> QED BY <1>1, <2>1, <3>1
  <2>2. CASE q # p
    <3>1. pc[q] \in Committed /\ result'[q] = result[q] /\ result[q].worktree \in Worktree
      BY <1>2, <2>2
    <3> QED BY <1>4, <3>1 DEF ResultsInv, ReturnsTheRow, Recorded
  <2> QED BY <2>1, <2>2
<1>6. CreatorCommitted'
  <2> SUFFICES ASSUME NEW q \in Adopter, NEW v \in Worktree, rows'[v].workspace = q
               PROVE  Outlived(q)' /\ result'[q].worktree = v
    BY DEF CreatorCommitted
  <2>1. CASE q = p
    <3>1. v = w
      BY <1>1, <1>3, <2>1
    <3> QED BY <1>1, <2>1, <3>1 DEF Outlived, Committed
  <2>2. CASE q # p
    <3>1. rows[v].workspace = q
      BY <1>1, <2>2
    <3> QED BY <1>2, <2>2, <3>1 DEF ResultsInv, CreatorCommitted
  <2> QED BY <2>1, <2>2
<1> QED BY <1>5, <1>6 DEF ResultsInv

LEMMA ResultsComplete ==
  ASSUME TypeOK, ResultsInv, Complete, rows' # rows
  PROVE  ResultsInv'
<1>p. Create \in Process /\ StepOf(Create) /\ Create \notin Adopter
  BY AdoptionAssumption DEF Process, StepOf, CreateSteps
<1>1. \A p \in Adopter : /\ pc'[p] = pc[p] /\ result' = result
                         /\ result[p].worktree \in Worktree
                         /\ Outlived(p)' <=> Outlived(p)
  <2>1. kills' = kills
    BY DEF Complete, bounds
  <2> QED BY <1>p, <2>1, Local, CreateReturnsNothing DEF Process, TypeOK, Outlived
<1>2. /\ ~Recorded(Made)
      /\ \A v \in Worktree \ {Made} : rows'[v] = rows[v]
      /\ rows'[Made].workspace = Create
  BY CompleteRow
<1>3. ReturnsTheRow'
  BY <1>1, <1>2 DEF ResultsInv, ReturnsTheRow, Recorded
<1>4. CreatorCommitted'
  BY <1>p, <1>1, <1>2 DEF ResultsInv, CreatorCommitted
<1> QED BY <1>3, <1>4 DEF ResultsInv

LEMMA ResultsStep == ASSUME TypeOK, ResultsInv, [Next]_vars PROVE ResultsInv'
<1>1. CASE UNCHANGED vars
  BY <1>1, ResultsAlone DEF vars, Recorded, Outlived
<1>2. ASSUME Next, NEW p \in Process, StepOf(p) PROVE ResultsInv'
  <2>0. \A q \in Adopter : q # p => /\ pc'[q] = pc[q]
                                    /\ Outlived(q) => Outlived(q)'
    BY <1>2, Local, KillsGrow DEF Process, Outlived
  <2>1. CASE p \in Adopter /\ CommitAdoption(p)
    <3>1. CASE Acceptable(call[p].seen, rows[call[p].goal])
      BY <2>1, <3>1, ResultsCommit
    <3>2. CASE ~Acceptable(call[p].seen, rows[call[p].goal])
      <4>1. /\ rows' = rows /\ result' = result
            /\ pc[p] = "inTransaction" /\ pc'[p] = "failed"
        BY <2>1, <3>2, CommitRefused DEF CommitAdoption
      <4>2. \A q \in Adopter : /\ pc'[q] \in Committed => pc[q] \in Committed
                               /\ Outlived(q) => Outlived(q)'
        BY <2>0, <4>1 DEF Committed, Outlived
      <4> QED BY <4>1, <4>2, ResultsAlone DEF Recorded
    <3> QED BY <3>1, <3>2
  <2>2. CASE Complete /\ rows' # rows
    BY <2>2, ResultsComplete
  <2>3. CASE ~(p \in Adopter /\ CommitAdoption(p)) /\ ~(Complete /\ rows' # rows)
    <3>1. rows' = rows
      BY <1>2, <2>3, RowsKept
    <3>2. /\ result' = result
          /\ \A q \in Adopter : /\ pc'[q] \in Committed => pc[q] \in Committed
                                /\ Outlived(q) => Outlived(q)'
      BY <1>2, <2>0, <2>3, OnlyByCommit, CreateReturnsNothing, AdoptionAssumption DEF Process
    <3> QED BY <3>1, <3>2, ResultsAlone DEF Recorded
  <2> QED BY <2>1, <2>2, <2>3
<1>3. CASE Outsiders
  <2>1. pc' = pc /\ result' = result /\ kills' = kills
    BY <1>3 DEF Outsiders, Commit, Forget, LoseMarker, Replace, Meddle
  <2>2. \A w \in Worktree : (Recorded(w) => Recorded(w)') /\ rows'[w].workspace = rows[w].workspace
    <3>1. CASE rows' = rows
      BY <3>1 DEF Recorded
    <3>2. ASSUME NEW v \in Worktree, Forget(v)
          PROVE  \A w \in Worktree : /\ Recorded(w) => Recorded(w)'
                                     /\ rows'[w].workspace = rows[w].workspace
      BY <3>2 DEF Forget, Recorded, TypeOK, Row
    <3> QED BY <1>3, <3>1, <3>2 DEF Outsiders, Commit, LoseMarker, Replace
  <2> QED BY <2>1, <2>2, ResultsAlone DEF Outlived
<1> QED BY <1>1, <1>2, <1>3, WhoSteps

(* What adoptions returned agrees with the rows, then and from then on.    *)
THEOREM ResultsInvariant == Spec => []ResultsInv
<1>1. ASSUME Init PROVE ResultsInv
  <2>1. NoOne \notin Adopter
    BY AdoptionAssumption DEF Process
  <2> QED BY <1>1, <2>1
          DEF Init, ResultsInv, ReturnsTheRow, CreatorCommitted, Committed, NoRow, Process
<1> QED BY <1>1, ResultsStep, AdoptionTypeCorrect, PTL DEF Spec

(* Any number of adoptions of a Worktree that succeed return one           *)
(* Workspace.  The one that made it, if it was made by an adoption, is the *)
(* only one to report its creation, and reports it unless it is killed     *)
(* between its commit and its report (registry.py, _adopt_once).           *)
THEOREM ConvergenceSafety == Spec => []Converged
<1>1. ASSUME ResultsInv, TypeOK PROVE Converged
  <2> SUFFICES ASSUME NEW w \in Worktree
               PROVE  LET Reporting == {p \in Adopter : /\ pc[p] = "done"
                                                        /\ result[p].worktree = w}
                          maker == rows[w].workspace
                      IN /\ \A p \in Reporting : result[p].workspace = maker
                         /\ {p \in Reporting : result[p].created} = {maker} \cap Reporting
                         /\ maker \in Adopter =>
                              \/ pc[maker] = "committed" \/ maker \in Reporting
                              \/ kills > 0 /\ pc[maker] = "failed"
    BY DEF Converged
  <2> DEFINE Reporting == {p \in Adopter : pc[p] = "done" /\ result[p].worktree = w}
             maker == rows[w].workspace
  <2>1. \A p \in Reporting : /\ result[p].workspace = maker
                             /\ result[p].created <=> maker = p
    BY <1>1 DEF ResultsInv, ReturnsTheRow, Committed
  <2>2. maker \in Adopter => Outlived(maker) /\ result[maker].worktree = w
    BY <1>1 DEF ResultsInv, CreatorCommitted
  <2>3. maker \in Adopter =>
           \/ pc[maker] = "committed" \/ maker \in Reporting
           \/ kills > 0 /\ pc[maker] = "failed"
    BY <2>2 DEF Outlived, Committed
  <2>4. {p \in Reporting : result[p].created} = {maker} \cap Reporting
    BY <2>1
  <2> QED BY <2>1, <2>3, <2>4
<1> QED BY <1>1, ResultsInvariant, AdoptionTypeCorrect, PTL

-----------------------------------------------------------------------------
(* Adoptions, however many, leave the Worktree of a create to its create   *)
(* until that completes.  An adoption that saw the Worktree before it was  *)
(* completed is refused by the intent, which is there before the Worktree  *)
(* is; one that gets further, to open directories and to write, comes      *)
(* after the completion.                                                   *)
Opening == {"opened", "locked", "written", "verified"}
Past == Opening \cup {"requiring", "again", "creating", "adopting", "inTransaction"}
Intended == {"resolved", "completed"}

(* A directory that is not there yet has no marker, and nobody opened it.  *)
Unborn ==
  \A q \in Place : \A n \in 0 .. 1 + MaxMeddling :
    n > current[q] => marker[<<q, n>>] = NoGeneration

OpenedExists ==
  \A p \in Process :
    pc[p] \in Opening => \E q \in Place : \E n \in 0 .. current[q] : Opened(p) = <<q, n>>

(* The Worktree is there only after its intent was resolved.               *)
MadeAfterIntent ==
  /\ path = "none" <=> current[Made] = 0
  /\ path # "none" => intent.status \in Intended

(* A create that opens the Worktree has staged it.                         *)
CreateStaged ==
  /\ call[Create].need \subseteq {Repository}
  /\ \/ pc[Create] \in {"establishing", "established"}
     \/ pc[Create] \in Opening /\ Opened(Create)[1] = Made
     => path # "none"

AdopterAims(p) ==
  /\ pc[p] # "establishing"
  /\ call[p].need \subseteq {Repository, call[p].goal}
  /\ pc[p] = "idle" => call[p].need = {}
  /\ pc[p] \in Opening => Opened(p)[1] \in {Repository, call[p].goal}

AdopterWaits(p) ==
  call[p].goal = Made =>
    /\ pc[p] = "observed" =>
         call[p].seen.at \in {"staging", "target"} /\ intent.status \in Intended
    /\ pc[p] \in Past => intent.status = "completed"

AdoptersWait == \A p \in Adopter : AdopterAims(p) /\ AdopterWaits(p)

CreateInv ==
  /\ Unborn /\ OpenedExists /\ MadeAfterIntent /\ CreateStaged /\ AdoptersWait
  /\ CreateUndisturbed
  /\ intent.status = "completed" => Recorded(Made)

-----------------------------------------------------------------------------
(* What adds directories.                                                  *)
LEMMA CurrentSteps ==
  ASSUME Next PROVE UNCHANGED current \/ Stage \/ \E r \in Place : Replace(r)
<1>1. ASSUME NEW p \in Process, StepOf(p), ~Stage PROVE UNCHANGED current
  BY <1>1 DEF StepOf, Establishes, OpenDirectory, Lock, LockTimesOut, Reread, Verify, Publish,
    Kill, Adopts, Observe, RequireRepository, RequireWorkspace, ObserveEstablished,
    BeginAdoption, CommitAdoption, Report, CreateSteps, BeginIntent, Resolve, MoveToTarget,
    Complete, layout
<1>2. ASSUME Outsiders, \A r \in Place : ~Replace(r) PROVE UNCHANGED current
  BY <1>2 DEF Outsiders, Commit, Forget, LoseMarker
<1> QED BY <1>1, <1>2, WhoSteps

(* Directories come one after the other.                                   *)
LEMMA CurrentMoves ==
  ASSUME TypeOK, TypeOK', MadeAfterIntent, Next, NEW q \in Place
  PROVE  current[q] \in Nat /\ current'[q] \in Nat /\ current'[q] >= current[q]
<1>t. current[q] \in Nat /\ current'[q] \in Nat
  BY AdoptionAssumption DEF TypeOK
<1>1. CASE UNCHANGED current
  BY <1>t, <1>1
<1>2. CASE Stage
  <2>1. (path = "none" /\ current' = [current EXCEPT ![Made] = 1]) \/ UNCHANGED current
    BY <1>2 DEF Stage
  <2> QED BY <1>t, <2>1 DEF MadeAfterIntent, TypeOK
<1>3. ASSUME NEW r \in Place, Replace(r) PROVE current'[q] >= current[q]
  BY <1>t, <1>3 DEF Replace, TypeOK
<1> QED BY <1>t, <1>1, <1>2, <1>3, CurrentSteps

(* The intent gets on, and only the create moves it.                       *)
LEMMA IntentMoves ==
  ASSUME TypeOK, Next
  PROVE  /\ intent.status \in Intended => intent'.status \in Intended
         /\ intent.status = "completed" => intent'.status = "completed"
         /\ intent'.status = "completed" => intent.status = "completed" \/ Complete
<1>1. ASSUME NEW p \in Process, StepOf(p)
      PROVE  UNCHANGED intent \/ BeginIntent \/ Resolve \/ Complete
  BY <1>1 DEF StepOf, Establishes, OpenDirectory, Lock, LockTimesOut, Reread, Verify, Publish,
     Kill, Adopts, Observe, RequireRepository, RequireWorkspace, ObserveEstablished,
     BeginAdoption, CommitAdoption, Report, CreateSteps, Stage, MoveToTarget, registryVars
<1>2. ASSUME Outsiders PROVE UNCHANGED intent
  BY <1>2 DEF Outsiders, Commit, Forget, LoseMarker, Replace, Meddle
<1>4. CASE UNCHANGED intent
  BY <1>4
<1>5. CASE BeginIntent
  <2>1. intent'.status = IF intent.status = "none" THEN "preparing" ELSE intent.status
    BY <1>5 DEF BeginIntent, TypeOK
  <2> QED BY <2>1 DEF Intended
<1>6. CASE Resolve
  BY <1>6 DEF Resolve, Intended
<1>7. CASE Complete
  <2>1. intent' = intent \/ intent'.status = "completed"
    BY <1>7 DEF Complete, TypeOK
  <2> QED BY <1>7, <2>1 DEF Intended
<1> QED BY <1>1, <1>2, <1>4, <1>5, <1>6, <1>7, WhoSteps

(* Once the Worktree is made, it has a path, and only Stage makes it.      *)
LEMMA PathMoves ==
  ASSUME Next
  PROVE  /\ path # "none" => path' # "none"
         /\ path' = path \/ Stage \/ MoveToTarget
<1>1. ASSUME NEW p \in Process, StepOf(p) PROVE UNCHANGED path \/ Stage \/ MoveToTarget
  BY <1>1 DEF StepOf, Establishes, OpenDirectory, Lock, LockTimesOut, Reread, Verify, Publish,
    Kill, Adopts, Observe, RequireRepository, RequireWorkspace, ObserveEstablished,
    BeginAdoption, CommitAdoption, Report, CreateSteps, BeginIntent, Resolve, Complete, layout
<1>2. ASSUME Outsiders PROVE UNCHANGED path
  BY <1>2 DEF Outsiders, Commit, Forget, LoseMarker, Replace, Meddle
<1>3. CASE Stage
  <2>1. path' = path \/ path' = "staging"
    BY <1>3 DEF Stage
  <2> QED BY <1>3, <2>1
<1>4. CASE MoveToTarget
  <2>1. path' = path \/ path' = "target"
    BY <1>4 DEF MoveToTarget
  <2> QED BY <1>4, <2>1
<1> QED BY <1>1, <1>2, <1>3, <1>4, WhoSteps

LEMMA StagedStep ==
  ASSUME TypeOK, TypeOK', CreateStaged, Next
  PROVE  CreateStaged'
<1>c. Create \in Process /\ Create \notin Adopter /\ Repository # Made
  BY AdoptionAssumption DEF Process, Worktree
<1> USE DEF TypeOK, Goes, Opening
<1>1. ASSUME pc'[Create] = pc[Create], call'[Create] = call[Create] PROVE CreateStaged'
  BY <1>1, PathMoves DEF CreateStaged, Opened
<1>2. ASSUME Ends(Create, "failed") \/ Ends(Create, "done") \/ Ends(Create, "idle")
      PROVE  CreateStaged'
  <2>1. call'[Create] = NoCall /\ pc'[Create] \in {"failed", "done", "idle"}
    BY <1>2, <1>c DEF Ends
  <2> QED BY <2>1 DEF CreateStaged, NoCall
<1>3. ASSUME NEW p \in Process, StepOf(p), p # Create PROVE CreateStaged'
  BY <1>1, <1>3, <1>c, Local
<1>4. CASE Outsiders
  BY <1>1, <1>4 DEF Outsiders, Commit, Forget, LoseMarker, Replace, Meddle
<1>5. CASE Establishes(Create)
  <2>1. ASSUME NEW q \in Place, OpenDirectory(Create, q) PROVE CreateStaged'
    <3>1. /\ call'[Create].need = call[Create].need /\ call'[Create].opened = At(q)
          /\ pc'[Create] = "opened"
      BY <1>c, <2>1 DEF OpenDirectory, Call
    <3>2. q = Made => pc[Create] = "establishing"
      BY <1>c, <2>1 DEF OpenDirectory, Missing, CreateStaged
    <3>3. At(q)[1] = q
      BY DEF At
    <3> QED BY <3>1, <3>2, <3>3, PathMoves DEF CreateStaged, Opened
  <2>2. ASSUME call' = call, pc[Create] \in Opening, pc'[Create] \in Opening PROVE CreateStaged'
    BY <2>2, PathMoves DEF CreateStaged, Opened
  <2>3. ASSUME Established(Create), pc[Create] \in Opening PROVE CreateStaged'
    <3>1. call'[Create].need = call[Create].need
      BY <1>c, <2>3 DEF Established, Call
    <3>2. pc'[Create] = IF Expects(Create) THEN "established" ELSE "creating"
      BY <1>c, <2>3 DEF Established
    <3> QED BY <2>3, <3>1, <3>2, PathMoves DEF CreateStaged, Expects
  <2>4. CASE Lock(Create)
    BY <1>c, <2>2, <2>4 DEF Lock
  <2>5. CASE LockTimesOut(Create)
    BY <1>2, <2>5 DEF LockTimesOut
  <2>6. CASE Reread(Create)
    BY <1>c, <1>2, <2>2, <2>3, <2>6 DEF Reread, Abandoned
  <2>7. CASE Verify(Create)
    BY <1>c, <1>2, <2>2, <2>7 DEF Verify, Abandoned
  <2>8. CASE Publish(Create)
    BY <2>3, <2>8 DEF Publish
  <2> QED BY <1>5, <2>1, <2>4, <2>5, <2>6, <2>7, <2>8 DEF Establishes
<1>6. CASE Kill(Create)
  BY <1>2, <1>6 DEF Kill
<1>7. CASE CreateSteps
  <2>1. CASE BeginIntent
    <3>1. call'[Create].need = {Repository} /\ pc'[Create] = "creating"
      BY <1>c, <2>1 DEF BeginIntent, Call
    <3> QED BY <3>1 DEF CreateStaged
  <2>2. CASE Resolve
    BY <1>1, <2>2 DEF Resolve
  <2>3. CASE Stage
    <3>1. CASE Ends(Create, "failed")
      BY <1>2, <3>1
    <3>2. CASE call' = call /\ Goes(Create, "establishing") /\ path' # "none"
      BY <1>c, <3>2 DEF CreateStaged
    <3>3. CASE /\ call' = [call EXCEPT ![Create].seen = Look(Made)]
               /\ Goes(Create, "completing")
      <4>1. call'[Create].need = call[Create].need /\ pc'[Create] = "completing"
        BY <1>c, <3>3 DEF Call
      <4> QED BY <4>1 DEF CreateStaged
    <3> QED BY <2>3, <3>1, <3>2, <3>3 DEF Stage
  <2>4. CASE MoveToTarget
    <3>1. CASE Goes(Create, "creating") /\ call' = call
      BY <1>c, <3>1 DEF CreateStaged
    <3> QED BY <1>2, <2>4, <3>1 DEF MoveToTarget
  <2>5. CASE Complete
    BY <1>2, <2>5 DEF Complete
  <2> QED BY <1>7, <2>1, <2>2, <2>3, <2>4, <2>5 DEF CreateSteps
<1> QED BY <1>3, <1>4, <1>5, <1>6, <1>7, <1>c, WhoSteps DEF StepOf

LEMMA MadeStep ==
  ASSUME TypeOK, TypeOK', MadeAfterIntent, CreateStaged, Next
  PROVE  MadeAfterIntent'
<1>m. Made \in Place
  BY DEF Place, Worktree
<1>1. CASE Stage
  <2>1. \/ path = "none" /\ path' = "staging" /\ current' = [current EXCEPT ![Made] = 1]
        \/ UNCHANGED <<path, current>>
    BY <1>1 DEF Stage
  <2>2. path = "none" => path' = path \/ (path' = "staging" /\ intent.status = "resolved")
    BY <1>1, <2>1 DEF Stage
  <2> QED BY <1>m, <2>1, <2>2, IntentMoves DEF MadeAfterIntent, TypeOK, Intended
<1>2. CASE ~Stage
  <2>1. path = "none" <=> path' = "none"
    BY <1>2, PathMoves DEF MoveToTarget, CreateStaged
  <2>2. current'[Made] = 0 <=> current[Made] = 0
    <3>1. UNCHANGED current \/ \E q \in Place : Replace(q)
      BY <1>2, CurrentSteps
    <3>2. ASSUME NEW q \in Place, Replace(q) PROVE current'[Made] = 0 <=> current[Made] = 0
      <4>1. current[Made] \in Nat
        BY <1>m, AdoptionAssumption DEF TypeOK
      <4> QED BY <1>m, <3>2, <4>1 DEF Replace
    <3> QED BY <3>1, <3>2
  <2> QED BY <2>1, <2>2, IntentMoves DEF MadeAfterIntent
<1> QED BY <1>1, <1>2

-----------------------------------------------------------------------------
(* An adopter that leaves its stage, its aim and its directory as they are *)
(* waits as before; one that ends waits for nothing.                       *)
LEMMA AimsKept ==
  ASSUME TypeOK, Next, NEW p \in Adopter, AdopterAims(p), AdopterWaits(p),
         pc'[p] = pc[p], call'[p] = call[p]
  PROVE  AdopterAims(p)' /\ AdopterWaits(p)'
BY IntentMoves DEF AdopterAims, AdopterWaits, Opened

LEMMA AimsEnd ==
  ASSUME TypeOK, NEW p \in Adopter, NEW stage \in {"failed", "committed", "done"},
         Ends(p, stage)
  PROVE  AdopterAims(p)' /\ AdopterWaits(p)'
<1>1. p \in Process
  BY DEF Process
<1>2. call'[p] = NoCall /\ pc'[p] \in {"failed", "committed", "done"}
  BY <1>1 DEF Ends, Goes, TypeOK
<1> QED BY <1>2 DEF AdopterAims, AdopterWaits, NoCall, Past, Opening

(* An adopter that goes on past its first requirement, with the same aim.  *)
LEMMA AimsGoOn ==
  ASSUME TypeOK, Next, NEW p \in Adopter, AdopterAims(p), AdopterWaits(p),
         pc[p] \in Past, pc'[p] \in Past \cup {"observed"},
         call'[p].goal = call[p].goal, call'[p].need \subseteq {Repository, call[p].goal},
         pc'[p] \in Opening => Opened(p)'[1] \in {Repository, call[p].goal},
         pc'[p] = "observed" /\ call[p].goal = Made => call'[p].seen.at \in {"staging", "target"}
  PROVE  AdopterAims(p)' /\ AdopterWaits(p)'
BY IntentMoves DEF AdopterAims, AdopterWaits, Past, Opening, Intended

LEMMA EstablishesWaits ==
  ASSUME TypeOK, TypeOK', Next,
         NEW p \in Adopter, AdopterAims(p), AdopterWaits(p), Establishes(p)
  PROVE  AdopterAims(p)' /\ AdopterWaits(p)'
<1>p. p \in Process /\ p # Create
  BY AdoptionAssumption DEF Process
<1> USE DEF TypeOK, Goes
<1>1. ASSUME NEW q \in Place, OpenDirectory(p, q) PROVE AdopterAims(p)' /\ AdopterWaits(p)'
  <2>1. pc[p] = "creating" /\ q \in call[p].need
    BY <1>1 DEF OpenDirectory, AdopterAims, Missing
  <2>2. /\ call'[p].goal = call[p].goal /\ call'[p].need = call[p].need
        /\ call'[p].opened = At(q) /\ pc'[p] = "opened"
    BY <1>p, <1>1 DEF OpenDirectory, Call
  <2>3. Opened(p)'[1] = q
    BY <2>2 DEF At, Opened
  <2> QED BY <2>1, <2>2, <2>3, AimsGoOn DEF AdopterAims, Past, Opening
<1>2. ASSUME call' = call, pc[p] \in Opening, pc'[p] \in Opening
      PROVE  AdopterAims(p)' /\ AdopterWaits(p)'
  BY <1>2, AimsGoOn DEF AdopterAims, Past, Opened, Opening
<1>3. ASSUME Established(p), pc[p] \in Opening PROVE AdopterAims(p)' /\ AdopterWaits(p)'
  <2>1. call'[p].goal = call[p].goal /\ call'[p].need = call[p].need /\ pc'[p] = "creating"
    BY <1>p, <1>3 DEF Established, Expects, Call
  <2> QED BY <1>3, <2>1, AimsGoOn DEF AdopterAims, Past, Opening
<1>4. CASE Lock(p)
  BY <1>p, <1>2, <1>4 DEF Lock, Opening
<1>5. CASE LockTimesOut(p)
  BY <1>5, AimsEnd DEF LockTimesOut
<1>6. CASE Reread(p)
  BY <1>p, <1>2, <1>3, <1>6, AimsEnd DEF Reread, Abandoned, Opening
<1>7. CASE Verify(p)
  BY <1>p, <1>2, <1>7, AimsEnd DEF Verify, Abandoned, Opening
<1>8. CASE Publish(p)
  BY <1>3, <1>8 DEF Publish, Opening
<1> QED BY <1>1, <1>4, <1>5, <1>6, <1>7, <1>8 DEF Establishes

LEMMA AdoptsWaits ==
  ASSUME TypeOK, TypeOK', Next, MadeAfterIntent,
         NEW p \in Adopter, AdopterAims(p), AdopterWaits(p), Adopts(p)
  PROVE  AdopterAims(p)' /\ AdopterWaits(p)'
<1>p. p \in Process
  BY DEF Process
<1>c. call[p] \in Call
  BY <1>p DEF TypeOK
<1> USE DEF TypeOK, Goes
<1>1. ASSUME NEW w \in Worktree, Observe(p, w) PROVE AdopterAims(p)' /\ AdopterWaits(p)'
  <2>1. /\ call'[p].goal = w /\ call'[p].seen = Look(w) /\ call'[p].need = call[p].need
        /\ pc'[p] = "observed"
    BY <1>p, <1>c, <1>1 DEF Observe, Call
  <2>2. call[p].need \subseteq {Repository, w}
    BY <1>1 DEF Observe, AdopterAims
  <2>3. w = Made => path # "none" /\ Look(w).at = path
    BY <1>1 DEF Observe, MadeAfterIntent, Look
  <2>4. w = Made => call'[p].seen.at \in {"staging", "target"} /\ intent.status \in Intended
    BY <2>1, <2>3 DEF MadeAfterIntent
  <2> QED BY <2>1, <2>2, <2>4, IntentMoves DEF AdopterAims, AdopterWaits, Past, Opening
<1>2. CASE RequireRepository(p)
  <2>1. CASE Incomplete(call[p].seen)
    BY <1>2, <2>1, AimsEnd DEF RequireRepository
  <2>2. CASE ~Incomplete(call[p].seen)
    <3>1. /\ pc[p] = "observed" /\ pc'[p] = "requiring" /\ intent' = intent
          /\ call'[p].goal = call[p].goal /\ call'[p].need = call[p].need
      BY <1>p, <1>c, <1>2, <2>2 DEF RequireRepository, Call, registryVars
    <3>2. call[p].goal = Made => intent.status = "completed"
      BY <2>2, <3>1 DEF AdopterWaits, Incomplete, Intended
    <3> QED BY <3>1, <3>2 DEF AdopterAims, AdopterWaits, Opening
  <2> QED BY <2>1, <2>2
<1>3. CASE RequireWorkspace(p)
  <2> DEFINE c == call[p]
             need == {q \in {Repository} : c.seen.repository = NoGeneration}
                     \cup {q \in {c.goal} : c.seen.worktree = NoGeneration}
             again == [NoCall EXCEPT !.goal = c.goal, !.again = TRUE]
             next == [NoCall EXCEPT !.goal = c.goal, !.seen = c.seen, !.need = need]
  <2>1. \/ call' = [call EXCEPT ![p] = again] /\ Goes(p, "again")
        \/ Ends(p, "failed")
        \/ /\ call' = [call EXCEPT ![p] = next]
           /\ Goes(p, "adopting") \/ Goes(p, "creating")
    BY <1>3 DEF RequireWorkspace
  <2>2. again.goal = c.goal /\ again.need = {}
    BY DEF NoCall
  <2>3. next.goal = c.goal /\ next.need = need /\ need \subseteq {Repository, c.goal}
    BY DEF NoCall
  <2>4. pc[p] = "requiring"
    BY <1>3 DEF RequireWorkspace
  <2> HIDE DEF again, next, need
  <2>5. CASE Ends(p, "failed")
    BY <2>5, AimsEnd
  <2>6. CASE ~Ends(p, "failed")
    <3>1. /\ call'[p].goal = call[p].goal /\ call'[p].need \subseteq {Repository, call[p].goal}
          /\ pc'[p] \in {"again", "adopting", "creating"}
      BY <1>p, <2>1, <2>2, <2>3, <2>6
    <3> QED BY <2>4, <3>1, AimsGoOn DEF Past, Opening
  <2> QED BY <2>5, <2>6
<1>4. CASE ObserveEstablished(p) \/ BeginAdoption(p)
  <2>1. /\ pc[p] \in Past /\ pc'[p] \in {"adopting", "inTransaction"}
        /\ call'[p].goal = call[p].goal /\ call'[p].need = call[p].need
    BY <1>p, <1>c, <1>4 DEF ObserveEstablished, BeginAdoption, Call, Past
  <2> QED BY <2>1, AimsGoOn DEF AdopterAims, Past, Opening
<1>5. CASE CommitAdoption(p)
  <2>1. Ends(p, "committed") \/ Ends(p, "failed")
    BY <1>5 DEF CommitAdoption
  <2> QED BY <2>1, AimsEnd
<1>6. CASE Report(p)
  BY <1>6, AimsEnd DEF Report
<1> QED BY <1>1, <1>2, <1>3, <1>4, <1>5, <1>6 DEF Adopts

LEMMA WaitsStep ==
  ASSUME TypeOK, TypeOK', MadeAfterIntent, AdoptersWait, Next
  PROVE  AdoptersWait'
<1> SUFFICES ASSUME NEW p \in Adopter PROVE AdopterAims(p)' /\ AdopterWaits(p)'
  BY DEF AdoptersWait
<1>p. p \in Process /\ p # Create /\ AdopterAims(p) /\ AdopterWaits(p)
  BY AdoptionAssumption DEF Process, AdoptersWait
<1>1. ASSUME NEW q \in Process, StepOf(q), q # p PROVE AdopterAims(p)' /\ AdopterWaits(p)'
  BY <1>p, <1>1, Local, AimsKept
<1>2. CASE StepOf(p)
  BY <1>p, <1>2, EstablishesWaits, AdoptsWaits, AimsEnd DEF StepOf, Kill
<1>3. CASE Outsiders
  BY <1>p, <1>3, AimsKept DEF Outsiders, Commit, Forget, LoseMarker, Replace, Meddle
<1> QED BY <1>1, <1>2, <1>3, WhoSteps

-----------------------------------------------------------------------------
(* Markers are written in directories that were opened, and lost.          *)
LEMMA MarkerSteps ==
  ASSUME Next
  PROVE  \/ UNCHANGED marker
         \/ \E p \in Process : Publish(p)
         \/ \E q \in Place : LoseMarker(q)
<1>1. ASSUME NEW p \in Process, StepOf(p), ~Publish(p) PROVE UNCHANGED marker
  BY <1>1 DEF StepOf, Establishes, OpenDirectory, Lock, LockTimesOut, Reread, Verify, Kill,
    Adopts, Observe, RequireRepository, RequireWorkspace, ObserveEstablished, BeginAdoption,
    CommitAdoption, Report, CreateSteps, BeginIntent, Resolve, Stage, MoveToTarget, Complete,
    files
<1>2. ASSUME Outsiders, \A q \in Place : ~LoseMarker(q) PROVE UNCHANGED marker
  BY <1>2 DEF Outsiders, Commit, Forget, Replace
<1> QED BY <1>1, <1>2, WhoSteps

LEMMA UnbornStep ==
  ASSUME TypeOK, TypeOK', MadeAfterIntent, Unborn, OpenedExists, Next
  PROVE  Unborn'
<1> SUFFICES ASSUME NEW q \in Place, NEW n \in 0 .. 1 + MaxMeddling, n > current'[q]
             PROVE  marker'[<<q, n>>] = NoGeneration
  BY DEF Unborn
<1>1. n \in Nat /\ n > current[q] /\ <<q, n>> \in Directory
  BY CurrentMoves, AdoptionAssumption DEF Directory
<1>2. marker[<<q, n>>] = NoGeneration
  BY <1>1 DEF Unborn
<1>3. ASSUME NEW p \in Process, Publish(p) PROVE marker'[<<q, n>>] = NoGeneration
  <2>1. PICK r \in Place : \E m \in 0 .. current[r] : Opened(p) = <<r, m>>
    BY <1>3 DEF OpenedExists, Publish, Opening
  <2>2. Opened(p) # <<q, n>>
    BY <1>1, <2>1, CurrentMoves
  <2> QED BY <1>1, <1>2, <1>3, <2>2 DEF Publish, TypeOK
<1>4. ASSUME NEW r \in Place, LoseMarker(r) PROVE marker'[<<q, n>>] = NoGeneration
  BY <1>1, <1>2, <1>4 DEF LoseMarker, TypeOK
<1> QED BY <1>2, <1>3, <1>4, MarkerSteps

LEMMA OpenedStep ==
  ASSUME TypeOK, TypeOK', MadeAfterIntent, OpenedExists, Next
  PROVE  OpenedExists'
<1>1. ASSUME NEW p \in Process, pc[p] \in Opening, call'[p].opened = call[p].opened
      PROVE  \E q \in Place : \E n \in 0 .. current'[q] : Opened(p)' = <<q, n>>
  <2>1. PICK q \in Place : \E n \in 0 .. current[q] : Opened(p) = <<q, n>>
    BY <1>1 DEF OpenedExists
  <2>2. \A n \in 0 .. current[q] : n \in 0 .. current'[q]
    BY CurrentMoves
  <2>3. Opened(p)' = Opened(p)
    BY <1>1 DEF Opened
  <2> QED BY <2>1, <2>2, <2>3
<1>2. ASSUME NEW p \in Process, StepOf(p), pc'[p] \in Opening
      PROVE  \/ \E q \in Place : OpenDirectory(p, q)
             \/ pc[p] \in Opening /\ call'[p].opened = call[p].opened
  <2> USE DEF TypeOK, Goes, Opening
  <2>1. CASE Establishes(p)
    BY <1>2, <2>1, EndsOthers DEF Establishes, Lock, LockTimesOut, Reread, Verify, Publish,
                                  Established, Abandoned
  <2>2. CASE Kill(p)
    BY <1>2, <2>2, EndsOthers DEF Kill
  <2>3. CASE p \in Adopter /\ Adopts(p)
    <3>1. CASE \E w \in Worktree : Observe(p, w)
      BY <1>2, <3>1 DEF Observe
    <3>2. CASE RequireRepository(p)
      BY <1>2, <3>2, EndsOthers DEF RequireRepository
    <3>3. CASE RequireWorkspace(p)
      BY <1>2, <3>3, EndsOthers DEF RequireWorkspace
    <3>4. CASE ObserveEstablished(p) \/ BeginAdoption(p)
      BY <1>2, <3>4 DEF ObserveEstablished, BeginAdoption
    <3>5. CASE CommitAdoption(p)
      BY <1>2, <3>5, EndsOthers DEF CommitAdoption
    <3>6. CASE Report(p)
      BY <1>2, <3>6, EndsOthers DEF Report
    <3> QED BY <2>3, <3>1, <3>2, <3>3, <3>4, <3>5, <3>6 DEF Adopts
  <2>4. CASE p = Create /\ CreateSteps
    <3>1. CASE BeginIntent \/ Resolve
      BY <1>2, <2>4, <3>1 DEF BeginIntent, Resolve
    <3>2. CASE Stage
      BY <1>2, <2>4, <3>2, EndsOthers DEF Stage
    <3>3. CASE MoveToTarget \/ Complete
      BY <1>2, <2>4, <3>3, EndsOthers DEF MoveToTarget, Complete
    <3> QED BY <2>4, <3>1, <3>2, <3>3 DEF CreateSteps
  <2> QED BY <1>2, <2>1, <2>2, <2>3, <2>4 DEF StepOf
<1>3. ASSUME NEW p \in Process, NEW q \in Place, OpenDirectory(p, q)
      PROVE  \E r \in Place : \E n \in 0 .. current'[r] : Opened(p)' = <<r, n>>
  <2>1. Opened(p)' = <<q, current[q]>>
    BY <1>3 DEF OpenDirectory, Opened, At, TypeOK, Call
  <2>2. current[q] \in 0 .. current'[q]
    BY CurrentMoves
  <2> QED BY <2>1, <2>2
<1> SUFFICES ASSUME NEW p \in Process, pc'[p] \in Opening
             PROVE  \E q \in Place : \E n \in 0 .. current'[q] : Opened(p)' = <<q, n>>
  BY DEF OpenedExists, Opened
<1>4. CASE StepOf(p)
  BY <1>1, <1>2, <1>3, <1>4
<1>5. ASSUME NEW q \in Process, StepOf(q), q # p PROVE pc[p] = pc'[p] /\ call[p] = call'[p]
  BY <1>5, Local
<1>6. ASSUME Outsiders PROVE pc[p] = pc'[p] /\ call[p] = call'[p]
  BY <1>6 DEF Outsiders, Commit, Forget, LoseMarker, Replace, Meddle
<1> QED BY <1>1, <1>4, <1>5, <1>6, WhoSteps

-----------------------------------------------------------------------------
(* Before the completion, the Worktree's marker is the token, if any.      *)
LEMMA MadeMarkerStep ==
  ASSUME TypeOK, TypeOK', CreateInv, Next, intent'.status # "completed"
  PROVE  MarkerAt(Made)' \in {NoGeneration, Token}
<1> USE DEF CreateInv
<1>m. Made \in Place /\ Made # Repository /\ intent.status # "completed"
  BY IntentMoves, AdoptionAssumption DEF Place, Worktree
<1>d. /\ MarkerAt(Made)' = marker'[<<Made, current'[Made]>>]
      /\ <<Made, current'[Made]>> \in Directory
  BY <1>m, AdoptionAssumption DEF MarkerAt, At, TypeOK, Directory
<1>1. marker[<<Made, current'[Made]>>] \in {NoGeneration, Token}
  <2>1. CASE current'[Made] = current[Made]
    BY <1>m, <2>1 DEF CreateUndisturbed, MarkerAt, At
  <2>2. CASE current'[Made] # current[Made]
    <3>1. current'[Made] > current[Made]
      BY <1>m, <2>2, CurrentMoves
    <3>2. current'[Made] \in 0 .. 1 + MaxMeddling
      BY <1>d DEF Directory
    <3> QED BY <1>m, <3>1, <3>2 DEF Unborn
  <2> QED BY <2>1, <2>2
<1>2. ASSUME NEW p \in Process, Publish(p)
      PROVE  marker'[<<Made, current'[Made]>>] \in {NoGeneration, Token}
  <2>1. CASE Opened(p)[1] # Made
    <3>1. Opened(p) # <<Made, current'[Made]>>
      BY <2>1
    <3> QED BY <1>1, <1>2, <1>d, <3>1 DEF Publish, TypeOK
  <2>2. CASE Opened(p)[1] = Made
    <3>1. p = Create
      BY <1>2, <1>m, <2>2 DEF Publish, AdoptersWait, AdopterAims, AdopterWaits,
                                Opening, Past, Process
    <3>2. Expects(p)
      BY <2>2, <3>1 DEF Expects
    <3>3. marker' = [marker EXCEPT ![Opened(p)] = Token]
      BY <1>2, <3>2 DEF Publish
    <3> QED BY <1>1, <1>d, <3>3 DEF TypeOK
  <2> QED BY <2>1, <2>2
<1>3. ASSUME NEW q \in Place, LoseMarker(q)
      PROVE  marker'[<<Made, current'[Made]>>] \in {NoGeneration, Token}
  BY <1>1, <1>3, <1>d DEF LoseMarker, TypeOK
<1> QED BY <1>1, <1>2, <1>3, <1>d, MarkerSteps

(* The row of the Worktree is made by the completion of the create.        *)
LEMMA MadeRowStep ==
  ASSUME TypeOK, TypeOK', CreateInv, FactsInv, Next
  PROVE  /\ intent'.status # "completed" => ~Recorded(Made)'
         /\ intent'.status = "completed" =>
              /\ Recorded(Made)'
              /\ rows'[Made].workspace = Create /\ rows'[Made].generation = Token
<1> USE DEF CreateInv
<1>m. Made \in Worktree
  BY DEF Worktree
<1>1. CASE Complete /\ rows' # rows
  <2>1. call[Create].seen.worktree = Token
    BY <1>1 DEF Complete, FactsInv, CompletesThePlanned
  <2>2. rows'[Made].workspace = Create /\ rows'[Made].generation = call[Create].seen.worktree
    BY <1>1, CompleteRow
  <2>3. Recorded(Made)' /\ intent'.status = "completed"
    BY <1>1, CompleteRow DEF Recorded
  <2> QED BY <2>1, <2>2, <2>3
<1>2. CASE ~(Complete /\ rows' # rows)
  <2>1. intent'.status = "completed" <=> intent.status = "completed"
    <3>1. ASSUME Complete, rows' = rows PROVE intent' = intent
      <4>1. CASE ~Recorded(Made)
        BY <1>m, <3>1, <4>1 DEF Complete, Recorded, TypeOK
      <4>2. CASE Recorded(Made)
        BY <3>1, <4>2 DEF Complete
      <4> QED BY <4>1, <4>2
    <3> QED BY <1>2, <3>1, IntentMoves
  <2>2. ASSUME NEW p \in Adopter, CommitAdoption(p), call[p].goal = Made,
               Acceptable(call[p].seen, rows[call[p].goal])
        PROVE  /\ intent.status = "completed"
               /\ Recorded(Made)'
               /\ rows'[Made].workspace = Create /\ rows'[Made].generation = Token
    <3>1. intent.status = "completed"
      BY <2>2 DEF CommitAdoption, AdoptersWait, AdopterWaits, Past
    <3>2. /\ Recorded(Made) /\ rows[Made].workspace = Create
          /\ rows[Made].generation = Token
      BY <3>1 DEF CreateUndisturbed
    <3>3. /\ rows'[Made].workspace = rows[Made].workspace
          /\ rows'[Made].generation = call[p].seen.worktree
          /\ rows'[Made].state = "active"
      BY <2>2, <3>2, CommitRow
    <3>4. call[p].seen.worktree = Token
      BY <2>2, <3>2 DEF Acceptable, Agrees, Token, NoGeneration
    <3> QED BY <3>1, <3>2, <3>3, <3>4 DEF Recorded
  <2>3. \/ rows'[Made] = rows[Made]
        \/ \E p \in Adopter : /\ CommitAdoption(p) /\ call[p].goal = Made
                              /\ Acceptable(call[p].seen, rows[call[p].goal])
        \/ /\ Recorded(Made)' <=> Recorded(Made)
           /\ rows'[Made].workspace = rows[Made].workspace
           /\ rows'[Made].generation = rows[Made].generation
    <3>1. ASSUME NEW p \in Adopter, CommitAdoption(p),
                 ~(call[p].goal = Made /\ Acceptable(call[p].seen, rows[call[p].goal]))
          PROVE  rows'[Made] = rows[Made]
      BY <1>m, <3>1, CommitRow, CommitRefused
    <3>2. ASSUME NEW w \in Worktree, Forget(w)
          PROVE  /\ Recorded(Made)' <=> Recorded(Made)
                 /\ rows'[Made].workspace = rows[Made].workspace
                 /\ rows'[Made].generation = rows[Made].generation
      BY <1>m, <3>2 DEF Forget, Recorded, TypeOK, Row
    <3>3. ASSUME NEW p \in Process, StepOf(p)
          PROVE  rows' = rows \/ (p \in Adopter /\ CommitAdoption(p))
      BY <1>2, <3>3, RowsKept
    <3>4. ASSUME Outsiders PROVE rows' = rows \/ \E w \in Worktree : Forget(w)
      BY <3>4 DEF Outsiders, Commit, LoseMarker, Replace
    <3> QED BY <3>1, <3>2, <3>3, <3>4, WhoSteps
  <2> QED BY <2>1, <2>2, <2>3 DEF CreateUndisturbed, Recorded
<1> QED BY <1>1, <1>2

LEMMA CreateStep ==
  ASSUME TypeOK, TypeOK', FactsInv, CreateInv, [Next]_vars
  PROVE  CreateInv'
<1>1. CASE UNCHANGED vars
  BY <1>1 DEF vars, CreateInv, Unborn, OpenedExists, MadeAfterIntent, CreateStaged, AdoptersWait,
              AdopterAims, AdopterWaits, CreateUndisturbed, Recorded, MarkerAt, At, Opened
<1>2. CASE Next
  <2>1. Unborn' /\ OpenedExists' /\ MadeAfterIntent' /\ CreateStaged' /\ AdoptersWait'
    BY <1>2, UnbornStep, OpenedStep, MadeStep, StagedStep, WaitsStep DEF CreateInv
  <2>2. CreateUndisturbed' /\ (intent'.status = "completed" => Recorded(Made)')
    BY <1>2, MadeMarkerStep, MadeRowStep DEF CreateUndisturbed
  <2> QED BY <2>1, <2>2 DEF CreateInv
<1> QED BY <1>1, <1>2

(* The Worktree of a create is the create's, as an inductive invariant.    *)
THEOREM CreateInvariant == Spec => []CreateInv
<1>1. ASSUME Init PROVE CreateInv
  <2>1. /\ Made \in Place /\ Made \in Worktree /\ Create \in Process /\ Adopter \subseteq Process
        /\ current[Made] = 0 /\ \A q \in Place : current[q] \in Nat
    BY <1>1 DEF Init, Place, Worktree, Process
  <2>2. Unborn
    BY <1>1 DEF Init, Unborn, Directory
  <2>3. OpenedExists /\ MadeAfterIntent /\ CreateStaged /\ AdoptersWait
    BY <1>1, <2>1 DEF Init, OpenedExists, MadeAfterIntent, CreateStaged, AdoptersWait, AdopterAims,
                      AdopterWaits, Opening, Past, NoCall
  <2>4. <<Made, current[Made]>> \in Directory
    BY <2>1, AdoptionAssumption DEF Directory
  <2>5. CreateUndisturbed /\ intent.status # "completed"
    BY <1>1, <2>1, <2>4 DEF Init, CreateUndisturbed, MarkerAt, At, Recorded, NoRow
  <2> QED BY <2>2, <2>3, <2>5 DEF CreateInv
<1> QED BY <1>1, CreateStep, AdoptionTypeCorrect, FactsInvariant, PTL DEF Spec

(* Until its create completes, nobody gives the Worktree another identity  *)
(* than the planned one or adopts it, and then its Workspace is the        *)
(* create's, however many adoptions observe it meanwhile.                  *)
THEOREM CreateSafety == Spec => []CreateUndisturbed
<1>1. CreateInv => CreateUndisturbed
  BY DEF CreateInv
<1> QED BY <1>1, CreateInvariant, PTL
=============================================================================
