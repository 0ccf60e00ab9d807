--------------------------- MODULE AdoptionProofs ---------------------------
(***************************************************************************)
(* Proofs about generation markers and adoption, for any processes and     *)
(* Worktrees, and any number of kills and acts of outsiders.               *)
(*                                                                         *)
(* TypeOK is inductive.  OneMarker rests on LockedWrites: whoever writes a *)
(* marker locks the directory it opened, and found no marker in it since.  *)
(***************************************************************************)
EXTENDS Adoption, TLAPS

(* A process that is past its lock holds the lock of what it opened; one   *)
(* that is past its second reading found no marker there.                  *)
LockedWrites ==
  \A p \in Process :
    /\ pc[p] \in {"locked", "written", "verified"} => lock[Opened(p)] = p
    /\ pc[p] \in {"written", "verified"} => marker[Opened(p)] = NoGeneration

MarkerInv == TypeOK /\ LockedWrites

-----------------------------------------------------------------------------
(* The directory that is found at a place is one of those there may be.    *)
LEMMA AtType == ASSUME TypeOK, NEW q \in Place PROVE At(q) \in Directory
<1>1. current[q] \in 0 .. 1 + meddled /\ meddled \in 0 .. MaxMeddling
  BY DEF TypeOK
<1>2. current[q] \in 0 .. 1 + MaxMeddling
  BY <1>1, AdoptionAssumption
<1> QED BY <1>2 DEF At, Directory

LEMMA LookType == ASSUME TypeOK, NEW w \in Worktree PROVE Look(w) \in Sight
<1>1. w \in Place /\ Repository \in Place
  BY DEF Place
<1>2. MarkerAt(w) \in Generation /\ MarkerAt(Repository) \in Generation
  BY <1>1, AtType DEF TypeOK, MarkerAt
<1> QED BY <1>2 DEF TypeOK, Look, Sight

LEMMA NoCallType == NoCall \in Call /\ NoSight \in Sight
<1>1. Made \in Worktree /\ <<Made, 0>> \in Directory
  BY AdoptionAssumption DEF Worktree, Directory, Place
<1> QED BY <1>1 DEF NoCall, Call, NoSight, Sight, NoGeneration, Generation

LEMMA UnlockedType ==
  ASSUME TypeOK, NEW p \in Process
  PROVE  Unlocked(p) \in [Directory -> Process \cup {NoOne}]
BY DEF TypeOK, Unlocked

LEMMA EndsType ==
  ASSUME TypeOK, NEW p \in Process, NEW stage \in Stages, Ends(p, stage)
  PROVE  pc' \in [Process -> Stages] /\ call' \in [Process -> Call]
BY NoCallType DEF TypeOK, Ends, Goes

LEMMA OpenedType == ASSUME TypeOK, NEW p \in Process PROVE Opened(p) \in Directory
BY DEF TypeOK, Call, Opened

LEMMA EstablishedType ==
  ASSUME TypeOK, NEW p \in Process, Established(p) \/ Abandoned(p)
  PROVE  /\ lock' \in [Directory -> Process \cup {NoOne}]
         /\ pc' \in [Process -> Stages] /\ call' \in [Process -> Call]
<1>1. CASE Established(p)
  <2>1. NoCall.opened \in Directory
    BY NoCallType DEF Call
  <2>2. call' \in [Process -> Call]
    BY <1>1, <2>1 DEF Established, TypeOK, Call
  <2>3. pc' \in [Process -> Stages]
    BY <1>1 DEF Established, TypeOK, Goes, Stages
  <2> QED BY <1>1, <2>2, <2>3, UnlockedType DEF Established
<1>2. CASE Abandoned(p)
  BY <1>2, UnlockedType, EndsType DEF Abandoned, Stages
<1> QED BY <1>1, <1>2

-----------------------------------------------------------------------------
(* The steps that establish a generation, adopt, create, and interfere     *)
(* keep the types.                                                         *)
LEMMA EstablishesType ==
  ASSUME TypeOK, NEW p \in Process, Establishes(p)
  PROVE  TypeOK'
<1>1. ASSUME NEW q \in Place, OpenDirectory(p, q) PROVE TypeOK'
  <2>1. At(q) \in Directory
    BY AtType
  <2>2. call' \in [Process -> Call]
    BY <1>1, <2>1 DEF OpenDirectory, TypeOK, Call
  <2> QED BY <1>1, <2>2 DEF OpenDirectory, Goes, Stages, TypeOK, layout, files,
                             registryVars, bounds
<1>2. CASE Lock(p)
  BY <1>2, OpenedType DEF Lock, Goes, Stages, TypeOK, layout, registryVars, bounds
<1>3. CASE LockTimesOut(p)
  <2>1. pc' \in [Process -> Stages] /\ call' \in [Process -> Call]
    BY <1>3, EndsType DEF LockTimesOut, Stages
  <2> QED BY <1>3, <2>1 DEF LockTimesOut, TypeOK, layout, files,
                             registryVars, bounds
<1>4. CASE Reread(p)
  <2>1. \/ Established(p) \/ Abandoned(p)
        \/ Goes(p, "written") /\ UNCHANGED <<lock, call>>
    BY <1>4 DEF Reread
  <2>2. /\ lock' \in [Directory -> Process \cup {NoOne}]
        /\ pc' \in [Process -> Stages] /\ call' \in [Process -> Call]
    BY <2>1, EstablishedType DEF Goes, Stages, TypeOK
  <2> QED BY <1>4, <2>2 DEF Reread, TypeOK, layout, registryVars, bounds
<1>5. CASE Verify(p)
  <2>1. \/ Abandoned(p)
        \/ Goes(p, "verified") /\ UNCHANGED <<lock, call>>
    BY <1>5 DEF Verify
  <2>2. /\ lock' \in [Directory -> Process \cup {NoOne}]
        /\ pc' \in [Process -> Stages] /\ call' \in [Process -> Call]
    BY <2>1, EstablishedType DEF Goes, Stages, TypeOK
  <2> QED BY <1>5, <2>2 DEF Verify, TypeOK, layout, registryVars, bounds
<1>6. CASE Publish(p)
  <2>1. /\ lock' \in [Directory -> Process \cup {NoOne}]
        /\ pc' \in [Process -> Stages] /\ call' \in [Process -> Call]
    BY <1>6, EstablishedType DEF Publish
  <2>2. fresh' \in Generation /\ Token \in Generation
    BY <1>6 DEF Publish, TypeOK, Generation, Token
  <2>3. marker' \in [Directory -> Generation]
    BY <1>6, <2>2 DEF Publish, TypeOK
  <2> QED BY <1>6, <2>1, <2>2, <2>3 DEF Publish, TypeOK, layout, registryVars, bounds
<1> QED BY <1>1, <1>2, <1>3, <1>4, <1>5, <1>6 DEF Establishes

LEMMA AdoptsType ==
  ASSUME TypeOK, NEW p \in Adopter, Adopts(p)
  PROVE  TypeOK'
<1> p \in Process
  BY DEF Process
<1>c. call[p] \in Call /\ call[p].goal \in Worktree /\ call[p].seen \in Sight
  BY DEF TypeOK, Call
<1>1. ASSUME NEW w \in Worktree, Observe(p, w) PROVE TypeOK'
  <2> DEFINE new == [call[p] EXCEPT !.goal = w, !.seen = Look(w)]
  <2>0. new \in Call
    BY <1>c, LookType DEF Call
  <2>a. call' = [call EXCEPT ![p] = new]
    BY <1>1 DEF Observe, TypeOK
  <2> HIDE DEF new
  <2>1. call' \in [Process -> Call]
    BY <2>0, <2>a DEF TypeOK
  <2> QED BY <1>1, <2>1 DEF Observe, Goes, Stages, TypeOK, layout, files,
                             registryVars, bounds
<1>2. CASE RequireRepository(p)
  <2>1. CASE Ends(p, "failed")
    BY <1>2, <2>1, EndsType DEF RequireRepository, Stages, TypeOK, layout, files,
                             registryVars, bounds
  <2>2. CASE Goes(p, "requiring") /\ call' = [call EXCEPT ![p].read = repository]
    <3>1. call' \in [Process -> Call]
      BY <2>2 DEF TypeOK, Call
    <3> QED BY <1>2, <2>2, <3>1 DEF RequireRepository, Goes, Stages, TypeOK, layout, files,
                             registryVars, bounds
  <2> QED BY <1>2, <2>1, <2>2 DEF RequireRepository
<1>3. CASE RequireWorkspace(p)
  <2>1. /\ pc' \in [Process -> Stages] /\ call' \in [Process -> Call]
    <3> DEFINE c == call[p]
               need == {q \in {Repository} : c.seen.repository = NoGeneration}
                       \cup {q \in {c.goal} : c.seen.worktree = NoGeneration}
               again == [NoCall EXCEPT !.goal = c.goal, !.again = TRUE]
               next == [NoCall EXCEPT !.goal = c.goal, !.seen = c.seen, !.need = need]
    <3>1. need \in SUBSET Place
      BY <1>c DEF Place
    <3>2. again \in Call
      BY <1>c, NoCallType DEF Call
    <3>3. next \in Call
      BY <1>c, <3>1, NoCallType DEF Call
    <3>4. \/ call' = [call EXCEPT ![p] = again] /\ Goes(p, "again")
          \/ Ends(p, "failed")
          \/ /\ call' = [call EXCEPT ![p] = next]
             /\ Goes(p, "adopting") \/ Goes(p, "creating")
      BY <1>3 DEF RequireWorkspace
    <3> HIDE DEF again, next
    <3> QED BY <3>2, <3>3, <3>4, EndsType DEF Goes, Stages, TypeOK
  <2> QED BY <1>3, <2>1 DEF RequireWorkspace, TypeOK, layout, files,
                             registryVars, bounds
<1>4. CASE ObserveEstablished(p)
  <2>1. call' \in [Process -> Call]
    BY <1>4, <1>c, LookType DEF ObserveEstablished, TypeOK, Call
  <2> QED BY <1>4, <2>1 DEF ObserveEstablished, Goes, Stages, TypeOK, layout, files,
                             registryVars, bounds
<1>5. CASE BeginAdoption(p)
  <2>1. call' \in [Process -> Call]
    BY <1>5, <1>c, LookType DEF BeginAdoption, Reobserved, TypeOK, Call
  <2> QED BY <1>5, <2>1 DEF BeginAdoption, Goes, Stages, TypeOK, layout, files, bounds
<1>6. CASE CommitAdoption(p)
  <2>1. CASE Acceptable(call[p].seen, rows[call[p].goal])
    <3> DEFINE w == call[p].goal
               look == call[p].seen
    <3>1. /\ repository' = look.repository
          /\ rows' = [rows EXCEPT ![w] =
                [ workspace |-> IF Recorded(w) THEN @.workspace ELSE p,
                  generation |-> look.worktree, head |-> look.head, state |-> "active" ]]
          /\ result' = [result EXCEPT ![p] =
                [worktree |-> w, workspace |-> rows'[w].workspace, created |-> Creates(p)]]
          /\ Ends(p, "committed")
      BY <1>6, <2>1 DEF CommitAdoption
    <3>2. rows' \in [Worktree -> Row]
      BY <1>c, <3>1 DEF TypeOK, Row, Sight
    <3>3. repository' \in Generation
      BY <1>c, <3>1 DEF Sight
    <3>4. Creates(p) \in BOOLEAN /\ rows'[w].workspace \in Process \cup {NoOne}
      BY <1>c, <3>2 DEF Creates, Recorded, Row
    <3>5. result' \in [Process -> [worktree : Worktree, workspace : Process \cup {NoOne},
                                   created : BOOLEAN]]
      BY <1>c, <3>1, <3>4 DEF TypeOK
    <3>6. pc' \in [Process -> Stages] /\ call' \in [Process -> Call]
      BY <3>1, EndsType DEF Stages
    <3> QED BY <1>6, <3>2, <3>3, <3>5, <3>6 DEF CommitAdoption, TypeOK, layout, files, bounds
  <2>2. CASE ~Acceptable(call[p].seen, rows[call[p].goal])
    <3>1. Ends(p, "failed") /\ UNCHANGED <<repository, rows, result>>
      BY <1>6, <2>2 DEF CommitAdoption
    <3>2. pc' \in [Process -> Stages] /\ call' \in [Process -> Call]
      BY <3>1, EndsType DEF Stages
    <3> QED BY <1>6, <3>1, <3>2 DEF CommitAdoption, TypeOK, layout, files, bounds
  <2> QED BY <2>1, <2>2
<1>7. CASE Report(p)
  <2>1. pc' \in [Process -> Stages] /\ call' \in [Process -> Call]
    BY <1>7, EndsType DEF Report, Stages
  <2> QED BY <1>7, <2>1 DEF Report, TypeOK, layout, files, registryVars, bounds
<1> QED BY <1>1, <1>2, <1>3, <1>4, <1>5, <1>6, <1>7 DEF Adopts

LEMMA CreatesType ==
  ASSUME TypeOK, BeginIntent \/ Resolve \/ Stage \/ MoveToTarget \/ Complete
  PROVE  TypeOK'
<1>p. Create \in Process /\ Made \in Worktree /\ Made \in Place /\ Repository \in Place
  BY DEF Process, Worktree, Place
<1>c. call[Create] \in Call /\ call[Create].seen \in Sight
  BY <1>p DEF TypeOK, Call
<1>1. CASE BeginIntent
  <2>1. call' \in [Process -> Call]
    BY <1>1, <1>p DEF BeginIntent, TypeOK, Call
  <2>2. intent' \in [status : {"none", "preparing", "resolved", "completed"},
                     repository : Generation]
    BY <1>1 DEF BeginIntent, TypeOK
  <2> QED BY <1>1, <1>p, <2>1, <2>2 DEF BeginIntent, Goes, Stages, TypeOK, layout, files, bounds
<1>2. CASE Resolve
  <2>1. MarkerAt(Repository) \in Generation
    BY <1>p, AtType DEF MarkerAt, TypeOK
  <2> QED BY <1>2, <2>1 DEF Resolve, TypeOK, layout, files, bounds
<1>3. CASE Stage
  <2>1. current' \in [Place -> 0 .. 1 + meddled] /\ path' \in {"none", "staging", "target"}
    BY <1>3 DEF Stage, TypeOK
  <2>2. \/ Goes(Create, "establishing") /\ UNCHANGED call
        \/ /\ call' = [call EXCEPT ![Create].seen = Look(Made)]
           /\ Goes(Create, "completing")
        \/ Ends(Create, "failed")
    BY <1>3 DEF Stage
  <2>3. ASSUME call' = [call EXCEPT ![Create].seen = Look(Made)] PROVE call' \in [Process -> Call]
    BY <2>3, <1>p, LookType DEF TypeOK, Call
  <2>4. pc' \in [Process -> Stages] /\ call' \in [Process -> Call]
    BY <2>2, <2>3, <1>p, EndsType DEF Goes, Stages, TypeOK
  <2> QED BY <1>3, <2>1, <2>4 DEF Stage, TypeOK, files, registryVars, bounds
<1>4. CASE MoveToTarget
  <2>1. \/ Goes(Create, "creating") /\ UNCHANGED call
        \/ Ends(Create, "failed")
    BY <1>4 DEF MoveToTarget
  <2>2. pc' \in [Process -> Stages] /\ call' \in [Process -> Call]
    BY <2>1, <1>p, EndsType DEF Goes, Stages, TypeOK
  <2> QED BY <1>4, <2>2 DEF MoveToTarget, TypeOK, files, registryVars, bounds
<1>5. CASE Complete
  <2>1. Ends(Create, "done") \/ Ends(Create, "failed")
    BY <1>5 DEF Complete
  <2>2. pc' \in [Process -> Stages] /\ call' \in [Process -> Call]
    BY <2>1, <1>p, EndsType DEF Stages
  <2>3. repository' \in Generation /\ rows' \in [Worktree -> Row]
    BY <1>5, <1>p, <1>c DEF Complete, TypeOK, Row, Sight
  <2>4. intent' \in [status : {"none", "preparing", "resolved", "completed"},
                     repository : Generation]
    BY <1>5 DEF Complete, TypeOK
  <2> QED BY <1>5, <2>2, <2>3, <2>4 DEF Complete, TypeOK, layout, files, bounds
<1> QED BY <1>1, <1>2, <1>3, <1>4, <1>5

LEMMA KillType == ASSUME TypeOK, NEW p \in Process, Kill(p) PROVE TypeOK'
<1>1. Ends(p, "idle") \/ Ends(p, "failed")
  BY DEF Kill
<1>2. pc' \in [Process -> Stages] /\ call' \in [Process -> Call]
  BY <1>1, EndsType DEF Stages
<1>3. kills' \in 0 .. MaxKills
  BY AdoptionAssumption DEF Kill, TypeOK
<1> QED BY <1>2, <1>3, UnlockedType DEF Kill, TypeOK, layout

LEMMA OutsidersType ==
  ASSUME TypeOK,
         \/ \E w \in Worktree : Commit(w) \/ Forget(w)
         \/ \E q \in Place : LoseMarker(q) \/ Replace(q)
  PROVE  TypeOK'
<1>m. ASSUME Meddle PROVE meddled' = meddled + 1 /\ meddled' \in 0 .. MaxMeddling
  BY <1>m, AdoptionAssumption DEF Meddle, TypeOK
<1>c. ASSUME Meddle, UNCHANGED current PROVE current' \in [Place -> 0 .. 1 + meddled']
  <2>1. \A n \in 0 .. 1 + meddled : n \in 0 .. 1 + meddled'
    BY <1>c, <1>m, AdoptionAssumption DEF TypeOK
  <2> QED BY <1>c, <2>1 DEF TypeOK
<1>1. ASSUME NEW w \in Worktree, Commit(w) PROVE TypeOK'
  <2>1. head' \in [Worktree -> Nat]
    BY <1>1 DEF Commit, TypeOK
  <2> QED BY <1>1, <1>m, <1>c, <2>1 DEF Commit, Meddle, TypeOK
<1>2. ASSUME NEW w \in Worktree, Forget(w) PROVE TypeOK'
  <2> DEFINE forgotten == [rows[w] EXCEPT !.state = "forgotten"]
  <2>0. forgotten \in Row
    BY DEF TypeOK, Row
  <2>a. rows' = [rows EXCEPT ![w] = forgotten]
    BY <1>2 DEF Forget, TypeOK
  <2> HIDE DEF forgotten
  <2>1. rows' \in [Worktree -> Row]
    BY <2>0, <2>a DEF TypeOK
  <2> QED BY <1>2, <1>m, <1>c, <2>1 DEF Forget, Meddle, TypeOK
<1>3. ASSUME NEW q \in Place, LoseMarker(q) PROVE TypeOK'
  <2>1. marker' \in [Directory -> Generation]
    BY <1>3 DEF LoseMarker, TypeOK, NoGeneration, Generation
  <2> QED BY <1>3, <1>m, <1>c, <2>1 DEF LoseMarker, Meddle, TypeOK
<1>4. ASSUME NEW q \in Place, Replace(q) PROVE TypeOK'
  <2>1. \A n \in 0 .. 1 + meddled : n \in 0 .. 1 + meddled' /\ n + 1 \in 0 .. 1 + meddled'
    BY <1>4, <1>m, AdoptionAssumption DEF Replace, TypeOK
  <2>2. current' \in [Place -> 0 .. 1 + meddled']
    BY <1>4, <2>1 DEF Replace, TypeOK
  <2> QED BY <1>4, <1>m, <2>2 DEF Replace, Meddle, TypeOK
<1> QED BY <1>1, <1>2, <1>3, <1>4

LEMMA InitType == ASSUME Init PROVE TypeOK
<1>1. Made \in Worktree /\ Made \in Place
  BY DEF Worktree, Place
<1>2. /\ current \in [Place -> 0 .. 1 + meddled]
      /\ meddled \in 0 .. MaxMeddling /\ kills \in 0 .. MaxKills
  BY AdoptionAssumption DEF Init
<1>3. call \in [Process -> Call]
  BY NoCallType DEF Init
<1>4. rows \in [Worktree -> Row] /\ NoOne \in Process \cup {NoOne}
  BY DEF Init, NoRow, Row, Generation, NoGeneration
<1> QED BY <1>1, <1>2, <1>3, <1>4 DEF Init, TypeOK, Generation, NoGeneration, Token, Stages

(* Every variable keeps its type, whatever processes and outsiders do; in  *)
(* particular no place is ever at a directory beyond those there may be.   *)
THEOREM AdoptionTypeCorrect == Spec => []TypeOK
<1>1. ASSUME TypeOK, [Next]_vars PROVE TypeOK'
  <2>1. CASE UNCHANGED vars
    BY <1>1, <2>1 DEF vars, TypeOK
  <2>2. CASE Next
    BY <1>1, <2>2, EstablishesType, KillType, AdoptsType, CreatesType, OutsidersType DEF Next
  <2> QED BY <1>1, <2>1, <2>2
<1> QED BY <1>1, InitType, PTL DEF Spec

-----------------------------------------------------------------------------
Writing == {"locked", "written", "verified"}

(* A step of one process that starts no writing, and gives at most its own *)
(* locks back.                                                             *)
LEMMA WritesKept ==
  ASSUME MarkerInv, TypeOK', NEW p \in Process,
         \A q \in Process \ {p} : pc'[q] = pc[q] /\ call'[q] = call[q],
         pc'[p] \notin Writing, lock' = lock \/ lock' = Unlocked(p),
         \A d \in Directory : marker[d] = NoGeneration => marker'[d] = NoGeneration
  PROVE  LockedWrites'
<1> SUFFICES ASSUME NEW q \in Process, pc'[q] \in Writing
             PROVE  /\ lock'[Opened(q)'] = q
                    /\ pc'[q] \in {"written", "verified"} => marker'[Opened(q)'] = NoGeneration
  BY DEF LockedWrites, Writing
<1>1. q # p /\ pc[q] = pc'[q] /\ Opened(q)' = Opened(q)
  BY DEF Opened
<1>2. lock[Opened(q)] = q /\ Opened(q) \in Directory
  BY <1>1, OpenedType DEF MarkerInv, LockedWrites, Writing
<1>3. lock'[Opened(q)] = q
  BY <1>1, <1>2 DEF Unlocked
<1>4. pc[q] \in {"written", "verified"} => marker'[Opened(q)] = NoGeneration
  BY <1>2 DEF MarkerInv, LockedWrites
<1> QED BY <1>1, <1>3, <1>4

(* A process that is given a lock, or gets on with its writing.            *)
LEMMA WritesGoOn ==
  ASSUME MarkerInv, TypeOK', NEW p \in Process,
         Lock(p) \/ (Reread(p) /\ ~Winner(p) /\ Goes(p, "written") /\ UNCHANGED <<lock, call>>)
                 \/ (Verify(p) /\ Goes(p, "verified") /\ UNCHANGED <<lock, call>>)
  PROVE  LockedWrites'
<1>o. Opened(p) \in Directory /\ NoOne # p
  BY OpenedType, AdoptionAssumption DEF MarkerInv
<1>1. CASE Lock(p)
  <2> SUFFICES ASSUME NEW q \in Process, pc'[q] \in Writing
               PROVE  /\ lock'[Opened(q)] = q
                      /\ pc'[q] \in {"written", "verified"} => marker[Opened(q)] = NoGeneration
    BY <1>1 DEF LockedWrites, Writing, Lock, Opened
  <2>1. CASE q = p
    <3>1. pc'[p] = "locked" /\ lock'[Opened(p)] = p
      BY <1>1, <1>o DEF Lock, Goes, MarkerInv, TypeOK
    <3> QED BY <2>1, <3>1
  <2>2. CASE q # p
    <3>1. pc[q] = pc'[q]
      BY <1>1, <2>2 DEF Lock, Goes, MarkerInv, TypeOK
    <3>2. lock[Opened(q)] = q /\ Opened(q) \in Directory /\ q # NoOne
      BY <3>1, OpenedType, AdoptionAssumption DEF MarkerInv, LockedWrites, Writing
    <3>3. lock'[Opened(q)] = q
      BY <1>1, <3>2 DEF Lock, MarkerInv, TypeOK
    <3> QED BY <3>1, <3>3 DEF MarkerInv, LockedWrites
  <2> QED BY <2>1, <2>2
<1>2. CASE Reread(p) /\ ~Winner(p) /\ Goes(p, "written") /\ UNCHANGED <<lock, call>>
  <2>1. marker' = marker /\ marker[Opened(p)] = NoGeneration /\ pc[p] = "locked"
    BY <1>2 DEF Reread, Winner
  <2>2. \A q \in Process : pc'[q] = IF q = p THEN "written" ELSE pc[q]
    BY <1>2 DEF Goes, MarkerInv, TypeOK
  <2>3. \A q \in Process : Opened(q)' = Opened(q)
    BY <1>2 DEF Opened
  <2> QED BY <1>2, <2>1, <2>2, <2>3 DEF MarkerInv, LockedWrites
<1>3. CASE Verify(p) /\ Goes(p, "verified") /\ UNCHANGED <<lock, call>>
  <2>1. marker' = marker /\ pc[p] = "written"
    BY <1>3 DEF Verify
  <2>2. \A q \in Process : pc'[q] = IF q = p THEN "verified" ELSE pc[q]
    BY <1>3 DEF Goes, MarkerInv, TypeOK
  <2>3. \A q \in Process : Opened(q)' = Opened(q)
    BY <1>3 DEF Opened
  <2> QED BY <1>3, <2>1, <2>2, <2>3 DEF MarkerInv, LockedWrites
<1> QED BY <1>1, <1>2, <1>3

(* The one who publishes is the only one who may write in the directory.   *)
LEMMA PublishKeeps ==
  ASSUME MarkerInv, TypeOK', NEW p \in Process, Publish(p)
  PROVE  LockedWrites'
<1>1. lock[Opened(p)] = p
  BY DEF Publish, MarkerInv, LockedWrites
<1>2. \A q \in Process \ {p} : pc'[q] = pc[q] /\ call'[q] = call[q]
  BY DEF Publish, Established, Goes, MarkerInv, TypeOK
<1>3. pc'[p] \notin Writing
  BY DEF Publish, Established, Goes, MarkerInv, TypeOK, Writing
<1> SUFFICES ASSUME NEW q \in Process, pc'[q] \in Writing
             PROVE  /\ lock'[Opened(q)'] = q
                    /\ pc'[q] \in {"written", "verified"} => marker'[Opened(q)'] = NoGeneration
  BY DEF LockedWrites, Writing
<1>4. q # p /\ pc[q] = pc'[q] /\ Opened(q)' = Opened(q)
  BY <1>2, <1>3 DEF Opened
<1>5. lock[Opened(q)] = q /\ Opened(q) \in Directory
  BY <1>4, OpenedType DEF MarkerInv, LockedWrites, Writing
<1>6. lock'[Opened(q)] = q
  BY <1>4, <1>5 DEF Publish, Established, Unlocked
<1>7. marker'[Opened(q)] = marker[Opened(q)]
  BY <1>1, <1>4, <1>5 DEF Publish, MarkerInv, TypeOK
<1> QED BY <1>4, <1>6, <1>7 DEF MarkerInv, LockedWrites

(* The stage a process goes to, and what is left of the others.            *)
LEMMA EndsOthers ==
  ASSUME TypeOK, NEW p \in Process, NEW stage, Ends(p, stage)
  PROVE  /\ pc'[p] = stage
         /\ \A q \in Process \ {p} : pc'[q] = pc[q] /\ call'[q] = call[q]
BY DEF TypeOK, Ends, Goes

LEMMA EstablishesKeeps ==
  ASSUME MarkerInv, TypeOK', NEW p \in Process, Establishes(p)
  PROVE  LockedWrites'
<1> USE DEF MarkerInv
<1>1. ASSUME NEW q \in Place, OpenDirectory(p, q) PROVE LockedWrites'
  <2>1. /\ pc'[p] \notin Writing
        /\ \A r \in Process \ {p} : pc'[r] = pc[r] /\ call'[r] = call[r]
    BY <1>1 DEF OpenDirectory, Goes, TypeOK, Writing
  <2> QED BY <1>1, <2>1, WritesKept DEF OpenDirectory, files
<1>2. CASE Lock(p)
  BY <1>2, WritesGoOn
<1>3. CASE LockTimesOut(p)
  <2>1. pc'[p] \notin Writing
    BY <1>3, EndsOthers DEF LockTimesOut, Writing
  <2> QED BY <1>3, <2>1, EndsOthers, WritesKept DEF LockTimesOut, files
<1>4. ASSUME Established(p) \/ Abandoned(p), marker' = marker PROVE LockedWrites'
  <2>1. /\ pc'[p] \notin Writing /\ lock' = Unlocked(p)
        /\ \A q \in Process \ {p} : pc'[q] = pc[q] /\ call'[q] = call[q]
    <3>1. CASE Established(p)
      BY <3>1 DEF Established, Goes, TypeOK, Writing
    <3>2. CASE Abandoned(p)
      BY <3>2, EndsOthers DEF Abandoned, Writing
    <3> QED BY <1>4, <3>1, <3>2
  <2> QED BY <1>4, <2>1, WritesKept
<1>5. CASE Reread(p)
  <2>1. \/ Established(p) \/ Abandoned(p)
        \/ ~Winner(p) /\ Goes(p, "written") /\ UNCHANGED <<lock, call>>
    BY <1>5 DEF Reread
  <2> QED BY <1>4, <1>5, <2>1, WritesGoOn DEF Reread
<1>6. CASE Verify(p)
  <2>1. \/ Abandoned(p)
        \/ Goes(p, "verified") /\ UNCHANGED <<lock, call>>
    BY <1>6 DEF Verify
  <2> QED BY <1>4, <1>6, <2>1, WritesGoOn DEF Verify
<1>7. CASE Publish(p)
  BY <1>7, PublishKeeps
<1> QED BY <1>1, <1>2, <1>3, <1>5, <1>6, <1>7 DEF Establishes

(* What processes do besides leaves locks and markers alone, and starts    *)
(* no writing.                                                             *)
LEMMA AdoptsKeeps ==
  ASSUME MarkerInv, TypeOK', NEW p \in Process, Adopts(p)
  PROVE  LockedWrites'
<1>1. lock' = lock /\ marker' = marker
  BY DEF Adopts, Observe, RequireRepository, RequireWorkspace, ObserveEstablished,
         BeginAdoption, CommitAdoption, Report, files
<1>2. /\ pc'[p] \notin Writing
      /\ \A q \in Process \ {p} : pc'[q] = pc[q] /\ call'[q] = call[q]
  <2> USE DEF MarkerInv, TypeOK, Goes, Writing
  <2>1. CASE \E w \in Worktree : Observe(p, w)
    BY <2>1 DEF Observe
  <2>2. CASE RequireRepository(p)
    BY <2>2, EndsOthers DEF RequireRepository
  <2>3. CASE RequireWorkspace(p)
    BY <2>3, EndsOthers DEF RequireWorkspace
  <2>4. CASE ObserveEstablished(p)
    BY <2>4 DEF ObserveEstablished
  <2>5. CASE BeginAdoption(p)
    BY <2>5 DEF BeginAdoption
  <2>6. CASE CommitAdoption(p)
    BY <2>6, EndsOthers DEF CommitAdoption
  <2>7. CASE Report(p)
    BY <2>7, EndsOthers DEF Report
  <2> QED BY <2>1, <2>2, <2>3, <2>4, <2>5, <2>6, <2>7 DEF Adopts
<1> QED BY <1>1, <1>2, WritesKept

LEMMA CreatesKeeps ==
  ASSUME MarkerInv, TypeOK', BeginIntent \/ Resolve \/ Stage \/ MoveToTarget \/ Complete
  PROVE  LockedWrites'
<1>p. Create \in Process
  BY DEF Process
<1>1. lock' = lock /\ marker' = marker
  BY DEF BeginIntent, Resolve, Stage, MoveToTarget, Complete, files
<1>2. /\ pc'[Create] \notin Writing
      /\ \A q \in Process \ {Create} : pc'[q] = pc[q] /\ call'[q] = call[q]
  <2> USE <1>p DEF MarkerInv, TypeOK, Goes, Writing
  <2>1. CASE BeginIntent
    BY <2>1 DEF BeginIntent
  <2>2. CASE Resolve
    BY <2>2 DEF Resolve
  <2>3. CASE Stage
    BY <2>3, EndsOthers DEF Stage
  <2>4. CASE MoveToTarget
    BY <2>4, EndsOthers DEF MoveToTarget
  <2>5. CASE Complete
    BY <2>5, EndsOthers DEF Complete
  <2> QED BY <2>1, <2>2, <2>3, <2>4, <2>5
<1> QED BY <1>p, <1>1, <1>2, WritesKept

LEMMA OthersKeep ==
  ASSUME MarkerInv, TypeOK',
         \/ UNCHANGED vars
         \/ \E p \in Process : Kill(p)
         \/ \E w \in Worktree : Commit(w) \/ Forget(w)
         \/ \E q \in Place : LoseMarker(q) \/ Replace(q)
  PROVE  LockedWrites'
<1>1. ASSUME NEW p \in Process, Kill(p) PROVE LockedWrites'
  <2>1. Ends(p, "idle") \/ Ends(p, "failed")
    BY <1>1 DEF Kill
  <2>2. /\ pc'[p] \notin Writing
        /\ \A q \in Process \ {p} : pc'[q] = pc[q] /\ call'[q] = call[q]
    BY <2>1, EndsOthers DEF MarkerInv, Writing
  <2> QED BY <1>1, <2>2, WritesKept DEF Kill
<1>2. ASSUME pc' = pc, call' = call, lock' = lock,
             \A d \in Directory : marker[d] = NoGeneration => marker'[d] = NoGeneration
      PROVE  LockedWrites'
  <2>1. \A p \in Process : Opened(p)' = Opened(p) /\ Opened(p) \in Directory
    BY <1>2, OpenedType DEF MarkerInv, Opened
  <2> QED BY <1>2, <2>1 DEF MarkerInv, LockedWrites
<1>3. CASE UNCHANGED vars
  BY <1>2, <1>3 DEF vars
<1>4. ASSUME NEW w \in Worktree, Commit(w) \/ Forget(w) PROVE LockedWrites'
  BY <1>2, <1>4 DEF Commit, Forget, Meddle
<1>5. ASSUME NEW q \in Place, LoseMarker(q) \/ Replace(q) PROVE LockedWrites'
  <2>1. \A d \in Directory : marker[d] = NoGeneration => marker'[d] = NoGeneration
    BY <1>5 DEF LoseMarker, Replace, MarkerInv, TypeOK
  <2> QED BY <1>2, <1>5, <2>1 DEF LoseMarker, Replace, Meddle
<1> QED BY <1>1, <1>3, <1>4, <1>5

(* The inductive invariant of the markers.                                 *)
THEOREM MarkerInvariant == Spec => []MarkerInv
<1>1. ASSUME Init PROVE MarkerInv
  BY <1>1, InitType DEF Init, MarkerInv, LockedWrites
<1>2. ASSUME MarkerInv, TypeOK', [Next]_vars PROVE MarkerInv'
  BY <1>2, EstablishesKeeps, AdoptsKeeps, CreatesKeeps, OthersKeep DEF Next, Process, MarkerInv
<1> QED BY <1>1, <1>2, AdoptionTypeCorrect, PTL DEF Spec

(* However many processes establish the generation of a directory, and     *)
(* whoever of them is killed, a marker that is published there is never    *)
(* replaced by another (_create_generation_marker).                        *)
THEOREM OneMarkerSafety == Spec => OneMarker
<1>1. ASSUME MarkerInv, [Next]_vars
      PROVE  [\A d \in Directory :
                marker[d] # NoGeneration => marker'[d] \in {NoGeneration, marker[d]}]_vars
  <2>1. ASSUME NEW p \in Process, Publish(p), NEW d \in Directory, marker[d] # NoGeneration
        PROVE  marker'[d] = marker[d]
    <3>1. marker[Opened(p)] = NoGeneration
      BY <1>1, <2>1 DEF Publish, MarkerInv, LockedWrites
    <3> QED BY <1>1, <2>1, <3>1 DEF Publish, MarkerInv, TypeOK
  <2>2. ASSUME NEW q \in Place, LoseMarker(q), NEW d \in Directory
        PROVE  marker'[d] \in {NoGeneration, marker[d]}
    BY <1>1, <2>2 DEF LoseMarker, MarkerInv, TypeOK
  <2>3. \/ UNCHANGED marker
        \/ \E p \in Process : Publish(p)
        \/ \E q \in Place : LoseMarker(q)
    <3>1. ASSUME NEW p \in Process, Establishes(p), ~Publish(p) PROVE UNCHANGED marker
      BY <3>1 DEF Establishes, OpenDirectory, Lock, LockTimesOut, Reread, Verify, files
    <3>2. ASSUME NEW p \in Process, Kill(p) PROVE UNCHANGED marker
      BY <3>2 DEF Kill
    <3>3. ASSUME NEW p \in Adopter, Adopts(p) PROVE UNCHANGED marker
      BY <3>3 DEF Adopts, Observe, RequireRepository, RequireWorkspace, ObserveEstablished,
                  BeginAdoption, CommitAdoption, Report, files
    <3>4. ASSUME BeginIntent \/ Resolve \/ Stage \/ MoveToTarget \/ Complete
          PROVE  UNCHANGED marker
      BY <3>4 DEF BeginIntent, Resolve, Stage, MoveToTarget, Complete, files
    <3>5. ASSUME NEW w \in Worktree, Commit(w) \/ Forget(w) PROVE UNCHANGED marker
      BY <3>5 DEF Commit, Forget
    <3>6. ASSUME NEW q \in Place, Replace(q) PROVE UNCHANGED marker
      BY <3>6 DEF Replace
    <3> QED BY <1>1, <3>1, <3>2, <3>3, <3>4, <3>5, <3>6 DEF Next, vars
  <2> QED BY <2>1, <2>2, <2>3
<1> QED BY <1>1, MarkerInvariant, PTL DEF Spec, OneMarker
=============================================================================
