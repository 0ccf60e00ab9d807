------------------------------ MODULE Adoption ------------------------------
(***************************************************************************)
(* Adoption of existing Worktrees (Workspaces.adopt, Registry.adopt) and   *)
(* the generation markers it rests on (git.py), together with one create   *)
(* that makes a Worktree of its own meanwhile.                             *)
(*                                                                         *)
(* A marker is a file in the Git directory of the Repository or of a       *)
(* Worktree.  It names this directory, and no other that is ever found at  *)
(* its place.  It is published by a rename under a lock of the directory   *)
(* that was opened; a process that dies leaves a pending file, which the   *)
(* next one removes first, and no lock.                                    *)
(*                                                                         *)
(* An observation compares two captures, each with the same identities and *)
(* markers before and after what it reads, so one that succeeds is a       *)
(* single look; one that never settles ends its command like a kill does.  *)
(* The tokens that rows are written with are reserved by the transaction   *)
(* that writes them: their order is the order of these transactions.       *)
(* WorkspaceCreate has the create's journal, its faults and its retries.   *)
(***************************************************************************)
EXTENDS Naturals

CONSTANTS
  Adopter,     \* the calls of adopt
  Create,      \* the call of create
  Plain,       \* the Worktrees there are
  Made,        \* the Worktree the create makes
  Repository,  \* the place of the common directory of them all
  NoOne,
  MaxMeddling, \* bound: how often outsiders interfere
  MaxKills     \* bound: how many processes are killed

Process  == Adopter \cup {Create}
Worktree == Plain \cup {Made}
Place    == Worktree \cup {Repository}

ASSUME AdoptionAssumption ==
  /\ Create \notin Adopter /\ NoOne \notin Process
  /\ Made \notin Plain /\ Repository \notin Worktree
  /\ MaxMeddling \in Nat /\ MaxKills \in Nat

(* The directories that are found at a place, one after the other; the     *)
(* one numbered 0 stands for none.                                         *)
Directory == Place \X (0 .. 1 + MaxMeddling)

(* Generations are numbered as they are made; 1 is the ownership token of  *)
(* the create, whose secret is drawn before the Worktree is there.         *)
NoGeneration == 0
Token        == 1

VARIABLES
  current,    \* the number of the directory at each place
  marker,     \* the generation marker in each directory
  lock,       \* who holds the lock of each directory
  fresh,      \* the last generation made
  head,       \* the commit each Worktree is at
  path,       \* where the made Worktree is: "none", "staging", "target"
  repository, \* the generation the Registry has for the Repository
  rows,       \* the row of each Worktree
  intent,     \* the create's intent: its status and the Repository it names
  writer,     \* who holds the Registry's write lock
  pc,         \* the stage of each process
  call,       \* its local variables
  result,     \* what an adoption returns once it is done
  meddled, kills

vars == <<current, marker, lock, fresh, head, path, repository, rows, intent, writer,
          pc, call, result, meddled, kills>>
layout == <<current, head, path>>
files == <<marker, lock, fresh>>
registryVars == <<repository, rows, intent, writer>>
bounds == <<meddled, kills>>

At(q) == <<q, current[q]>>
MarkerAt(q) == marker[At(q)]
Recorded(w) == rows[w].state # "none"

(* What a successful observation reports of a Worktree.                    *)
Look(w) ==
  [ repository |-> MarkerAt(Repository), worktree |-> MarkerAt(w), head |-> head[w],
    at |-> IF w = Made THEN path ELSE "elsewhere" ]

NoSight == [repository |-> NoGeneration, worktree |-> NoGeneration, head |-> 0, at |-> "none"]
NoRow   == [workspace |-> NoOne, generation |-> NoGeneration, head |-> 0, state |-> "none"]

(* The Worktree a call is about, what it observed last, whether it looked  *)
(* twice for a recorded marker (markerless_reobserved), the Repository's   *)
(* generation it read, the places where it is to create what marker is     *)
(* missing, and the directory it opened to that end.                       *)
NoCall == [ goal |-> Made, seen |-> NoSight, again |-> FALSE, read |-> NoGeneration,
            need |-> {}, opened |-> <<Made, 0>> ]

Init ==
  /\ current = [q \in Place |-> IF q = Made THEN 0 ELSE 1]
  /\ marker = [d \in Directory |-> NoGeneration]
  /\ lock = [d \in Directory |-> NoOne]
  /\ fresh = Token
  /\ head = [w \in Worktree |-> 1]
  /\ path = "none"
  /\ repository = NoGeneration
  /\ rows = [w \in Worktree |-> NoRow]
  /\ intent = [status |-> "none", repository |-> NoGeneration]
  /\ writer = NoOne
  /\ pc = [p \in Process |-> "idle"]
  /\ call = [p \in Process |-> NoCall]
  /\ result = [p \in Process |-> [worktree |-> Made, workspace |-> NoOne, created |-> FALSE]]
  /\ meddled = 0 /\ kills = 0

Goes(p, stage) == pc' = [pc EXCEPT ![p] = stage]
Ends(p, stage) == Goes(p, stage) /\ call' = [call EXCEPT ![p] = NoCall]

-----------------------------------------------------------------------------
(* _generation: the marker is read first, and created where it is missing. *)
Missing(p) == {q \in call[p].need : MarkerAt(q) = NoGeneration}

(* _create_generation_marker.                                              *)
OpenDirectory(p, q) ==
  /\ \/ pc[p] = "creating" /\ q \in Missing(p)
     \/ pc[p] = "establishing" /\ q = Made
  /\ call' = [call EXCEPT ![p].opened = At(q)]
  /\ Goes(p, "opened")
  /\ UNCHANGED <<layout, files, registryVars, result, bounds>>

Opened(p) == call[p].opened

(* establish_worktree_generation expects the token.                        *)
Expects(p) == p = Create /\ Opened(p)[1] = Made

(* _verify_locked_directory: the directory is still the one at its place.  *)
StillThere(p) == At(Opened(p)[1]) = Opened(p)

Unlocked(p) == [d \in Directory |-> IF lock[d] = p THEN NoOne ELSE lock[d]]

Established(p) ==
  /\ lock' = Unlocked(p)
  /\ call' = [call EXCEPT ![p].opened = NoCall.opened]
  /\ Goes(p, IF Expects(p) THEN "established" ELSE "creating")

Abandoned(p) == lock' = Unlocked(p) /\ Ends(p, "failed")

Lock(p) ==
  /\ pc[p] = "opened"
  /\ lock[Opened(p)] = NoOne
  /\ lock' = [lock EXCEPT ![Opened(p)] = p]
  /\ Goes(p, "locked")
  /\ UNCHANGED <<layout, marker, fresh, registryVars, call, result, bounds>>

LockTimesOut(p) ==
  /\ pc[p] = "opened"
  /\ lock[Opened(p)] # NoOne
  /\ Ends(p, "failed")
  /\ UNCHANGED <<layout, files, registryVars, result, bounds>>

NoWinner(p) == FALSE

(* The marker is read again under the lock: another may have won.          *)
Winner(p) == marker[Opened(p)] # NoGeneration

Reread(p) ==
  /\ pc[p] = "locked"
  /\ LET usable == ~Winner(p) \/ ~Expects(p) \/ marker[Opened(p)] = Token
     IN \/ ~(StillThere(p) /\ usable) /\ Abandoned(p)
        \/ StillThere(p) /\ usable /\ Winner(p) /\ Established(p)
        \/ StillThere(p) /\ ~Winner(p) /\ Goes(p, "written") /\ UNCHANGED <<lock, call>>
  /\ UNCHANGED <<layout, marker, fresh, registryVars, result, bounds>>

Verify(p) ==
  /\ pc[p] = "written"
  /\ \/ ~StillThere(p) /\ Abandoned(p)
     \/ StillThere(p) /\ Goes(p, "verified") /\ UNCHANGED <<lock, call>>
  /\ UNCHANGED <<layout, marker, fresh, registryVars, result, bounds>>

(* The rename is done in the directory that was opened, wherever that is.  *)
Publish(p) ==
  /\ pc[p] = "verified"
  /\ fresh' = IF Expects(p) THEN fresh ELSE fresh + 1
  /\ marker' = [marker EXCEPT ![Opened(p)] = IF Expects(p) THEN Token ELSE fresh']
  /\ Established(p)
  /\ UNCHANGED <<layout, registryVars, result, bounds>>

-----------------------------------------------------------------------------
(* Workspaces.adopt: first an observation that creates nothing.            *)
Observe(p, w) ==
  /\ pc[p] = "idle" \/ (pc[p] = "again" /\ w = call[p].goal)
  /\ current[w] # 0
  /\ call' = [call EXCEPT ![p].goal = w, ![p].seen = Look(w)]
  /\ Goes(p, "observed")
  /\ UNCHANGED <<layout, files, registryVars, result, bounds>>

IncompleteByTarget(look) ==
  \/ intent.status \in {"preparing", "resolved"} /\ look.at = "target"
  \/ intent.status = "resolved" /\ look.worktree = Token

(* _reject_incomplete_create_target: the Worktree is at the target of an   *)
(* incomplete create or at its staging path, or bears its token.           *)
Incomplete(look) ==
  \/ intent.status \in {"preparing", "resolved"} /\ look.at = "target"
  \/ intent.status = "resolved" /\ (look.at = "staging" \/ look.worktree = Token)

(* marker_creation_requirements reads the intents, the Repository's row    *)
(* and the Workspace's, each by a statement of its own.                    *)
RequireRepository(p) ==
  /\ pc[p] = "observed"
  /\ IF Incomplete(call[p].seen)
     THEN Ends(p, "failed")
     ELSE Goes(p, "requiring") /\ call' = [call EXCEPT ![p].read = repository]
  /\ UNCHANGED <<layout, files, registryVars, result, bounds>>

(* What is recorded, if anything is, is what was found.                    *)
Agrees(recorded, found) == recorded \in {NoGeneration, found}

Absent(recorded, found) == recorded # NoGeneration /\ found = NoGeneration

RequireWorkspace(p) ==
  LET c     == call[p]
      look  == c.seen
      known == rows[c.goal].generation
      valid == Agrees(c.read, look.repository) /\ Agrees(known, look.worktree)
      again == /\ ~c.again
               /\ \/ Absent(c.read, look.repository)
                  \/ Agrees(c.read, look.repository) /\ Absent(known, look.worktree)
      need  == {q \in {Repository} : look.repository = NoGeneration}
               \cup {q \in {c.goal} : look.worktree = NoGeneration}
  IN /\ pc[p] = "requiring"
     /\ \/ /\ again
           /\ call' = [call EXCEPT ![p] = [NoCall EXCEPT !.goal = c.goal, !.again = TRUE]]
           /\ Goes(p, "again")
        \/ ~again /\ ~valid /\ Ends(p, "failed")
        \/ /\ valid
           /\ call' = [call EXCEPT ![p] =
                 [NoCall EXCEPT !.goal = c.goal, !.seen = look, !.need = need]]
           /\ Goes(p, IF need = {} THEN "adopting" ELSE "creating")
     /\ UNCHANGED <<layout, files, registryVars, result, bounds>>

(* The observation that creates.                                           *)
ObserveEstablished(p) ==
  /\ pc[p] = "creating" /\ Missing(p) = {}
  /\ call' = [call EXCEPT ![p].seen = Look(call[p].goal)]
  /\ Goes(p, "adopting")
  /\ UNCHANGED <<layout, files, registryVars, result, bounds>>

Remembered(p) == call[p].seen

(* The observation Registry.adopt makes once it holds the write lock.      *)
Reobserved(p) == Look(call[p].goal)

BeginAdoption(p) ==
  /\ pc[p] = "adopting" /\ writer = NoOne
  /\ writer' = p
  /\ call' = [call EXCEPT ![p].seen = Reobserved(p)]
  /\ Goes(p, "inTransaction")
  /\ UNCHANGED <<layout, files, repository, rows, intent, result, bounds>>

Acceptable(look, row) ==
  /\ ~Incomplete(look)
  /\ look.repository # NoGeneration /\ look.worktree # NoGeneration
  /\ Agrees(repository, look.repository)
  /\ row.state # "forgotten"
  /\ Agrees(row.generation, look.worktree)

CreatedWhatWasMissing(p) == call[p].goal \in call[p].need

Creates(p) == ~Recorded(call[p].goal)

(* What is to be returned is read before the COMMIT; a process killed      *)
(* after it leaves its row, and returns nothing.                           *)
CommitAdoption(p) ==
  /\ pc[p] = "inTransaction"
  /\ writer' = NoOne
  /\ LET w    == call[p].goal
         look == call[p].seen
     IN IF Acceptable(look, rows[w])
        THEN /\ repository' = look.repository
             /\ rows' = [rows EXCEPT ![w] =
                   [ workspace |-> IF Recorded(w) THEN @.workspace ELSE p,
                     generation |-> look.worktree, head |-> look.head, state |-> "active" ]]
             /\ result' = [result EXCEPT ![p] =
                   [worktree |-> w, workspace |-> rows'[w].workspace, created |-> Creates(p)]]
             /\ Ends(p, "committed")
        ELSE Ends(p, "failed") /\ UNCHANGED <<repository, rows, result>>
  /\ UNCHANGED <<layout, files, intent, bounds>>

Report(p) ==
  /\ pc[p] = "committed"
  /\ Ends(p, "done")
  /\ UNCHANGED <<layout, files, registryVars, result, bounds>>

-----------------------------------------------------------------------------
(* The create, from its intent to its completion.  A call that follows a   *)
(* killed one goes on from what the intent and the Worktree say.           *)
BeginIntent ==
  /\ pc[Create] = "idle" /\ writer = NoOne
  /\ intent' = [intent EXCEPT !.status = IF @ = "none" THEN "preparing" ELSE @]
  /\ call' = [call EXCEPT ![Create].need = {Repository}]
  /\ Goes(Create, "creating")
  /\ UNCHANGED <<layout, files, repository, rows, writer, result, bounds>>

(* The Repository's generation is part of what the intent resolves to.     *)
Resolve ==
  /\ pc[Create] = "creating" /\ Missing(Create) = {}
  /\ intent.status = "preparing" /\ writer = NoOne
  /\ intent' = [status |-> "resolved", repository |-> MarkerAt(Repository)]
  /\ UNCHANGED <<layout, files, repository, rows, writer, pc, call, result, bounds>>

(* create_worktree: the Worktree is staged, or found staged, or found at   *)
(* its target; the Repository must be the one resolved.                    *)
Stage ==
  /\ pc[Create] = "creating" /\ Missing(Create) = {} /\ intent.status = "resolved"
  /\ \/ /\ MarkerAt(Repository) = intent.repository /\ path = "none"
        /\ current' = [current EXCEPT ![Made] = 1]
        /\ path' = "staging"
        /\ Goes(Create, "establishing")
        /\ UNCHANGED call
     \/ /\ MarkerAt(Repository) = intent.repository /\ path = "staging"
        /\ MarkerAt(Made) \in {NoGeneration, Token}
        /\ Goes(Create, "establishing")
        /\ UNCHANGED <<current, path, call>>
     \/ /\ MarkerAt(Repository) = intent.repository /\ path = "target"
        /\ MarkerAt(Made) = Token
        /\ call' = [call EXCEPT ![Create].seen = Look(Made)]
        /\ Goes(Create, "completing")
        /\ UNCHANGED <<current, path>>
     \/ /\ \/ MarkerAt(Repository) # intent.repository
           \/ path = "staging" /\ MarkerAt(Made) \notin {NoGeneration, Token}
           \/ path = "target" /\ MarkerAt(Made) # Token
        /\ Ends(Create, "failed")
        /\ UNCHANGED <<current, path>>
  /\ UNCHANGED <<files, head, registryVars, result, bounds>>

(* The Worktree moves to its target, where it is observed once more.       *)
MoveToTarget ==
  /\ pc[Create] = "established"
  /\ \/ /\ MarkerAt(Repository) = intent.repository
        /\ path' = "target"
        /\ Goes(Create, "creating")
        /\ UNCHANGED call
     \/ /\ MarkerAt(Repository) # intent.repository
        /\ Ends(Create, "failed")
        /\ UNCHANGED path
  /\ UNCHANGED <<current, head, files, registryVars, result, bounds>>

(* The Registry records the completion, with what was observed before.     *)
Complete ==
  LET look == call[Create].seen
  IN /\ pc[Create] = "completing" /\ writer = NoOne
     /\ IF Agrees(repository, look.repository) /\ ~Recorded(Made)
        THEN /\ repository' = look.repository
             /\ rows' = [rows EXCEPT ![Made] =
                   [ workspace |-> Create, generation |-> look.worktree,
                     head |-> look.head, state |-> "active" ]]
             /\ intent' = [intent EXCEPT !.status = "completed"]
             /\ Ends(Create, "done")
        ELSE Ends(Create, "failed") /\ UNCHANGED <<repository, rows, intent>>
     /\ UNCHANGED <<layout, files, writer, result, bounds>>

-----------------------------------------------------------------------------
(* A killed process holds no lock any more, and its transaction is undone. *)
(* A create may be called again.                                           *)
Kill(p) ==
  /\ kills < MaxKills
  /\ pc[p] \notin {"idle", "done", "failed"}
  /\ kills' = kills + 1
  /\ lock' = Unlocked(p)
  /\ writer' = IF writer = p THEN NoOne ELSE writer
  /\ Ends(p, IF p = Create THEN "idle" ELSE "failed")
  /\ UNCHANGED <<layout, marker, fresh, repository, rows, intent, result, meddled>>

(* Outsiders.                                                              *)
Meddle ==
  /\ meddled < MaxMeddling
  /\ meddled' = meddled + 1
  /\ UNCHANGED <<lock, fresh, path, repository, intent, writer, pc, call, result, kills>>

Public(w) == current[w] # 0 /\ (w = Made => path = "target")

Commit(w) ==
  /\ Meddle /\ Public(w)
  /\ head' = [head EXCEPT ![w] = @ + 1]
  /\ UNCHANGED <<current, marker, rows>>

LoseMarker(q) ==
  /\ Meddle /\ MarkerAt(q) # NoGeneration
  /\ marker' = [marker EXCEPT ![At(q)] = NoGeneration]
  /\ UNCHANGED <<current, head, rows>>

(* A Worktree is removed and another added in its place; with a Repository *)
(* everything under it is.                                                 *)
Replace(q) ==
  /\ Meddle
  /\ q \in Worktree => Public(q)
  /\ current' = [r \in Place |->
        IF current[r] # 0 /\ q \in {r, Repository} THEN current[r] + 1 ELSE current[r]]
  /\ UNCHANGED <<marker, head, rows>>

Forget(w) ==
  /\ Meddle /\ writer = NoOne
  /\ rows[w].state = "active"
  /\ rows' = [rows EXCEPT ![w].state = "forgotten"]
  /\ UNCHANGED <<current, marker, head>>

-----------------------------------------------------------------------------
Establishes(p) ==
  \/ \E q \in Place : OpenDirectory(p, q)
  \/ Lock(p) \/ LockTimesOut(p) \/ Reread(p) \/ Verify(p) \/ Publish(p)

Adopts(p) ==
  \/ \E w \in Worktree : Observe(p, w)
  \/ RequireRepository(p) \/ RequireWorkspace(p) \/ ObserveEstablished(p)
  \/ BeginAdoption(p) \/ CommitAdoption(p) \/ Report(p)

Next ==
  \/ \E p \in Process : Establishes(p) \/ Kill(p)
  \/ \E p \in Adopter : Adopts(p)
  \/ BeginIntent \/ Resolve \/ Stage \/ MoveToTarget \/ Complete
  \/ \E w \in Worktree : Commit(w) \/ Forget(w)
  \/ \E q \in Place : LoseMarker(q) \/ Replace(q)

Spec == Init /\ [][Next]_vars

-----------------------------------------------------------------------------
Generation == Nat
Stages == {"idle", "observed", "requiring", "again", "creating", "opened", "locked",
           "written", "verified", "adopting", "inTransaction", "committed",
           "establishing", "established", "completing", "done", "failed"}
Sight == [repository : Generation, worktree : Generation, head : Nat,
          at : {"none", "staging", "target", "elsewhere"}]
Row   == [workspace : Process \cup {NoOne}, generation : Generation,
          head : Nat, state : {"none", "active", "forgotten"}]
Call  == [goal : Worktree, seen : Sight, again : BOOLEAN, read : Generation,
          need : SUBSET Place, opened : Directory]

(* Every variable has its type, and a made Worktree has a path.            *)
TypeOK ==
  /\ current \in [Place -> 0 .. 1 + meddled]
  /\ marker \in [Directory -> Generation]
  /\ lock \in [Directory -> Process \cup {NoOne}]
  /\ fresh \in Generation
  /\ head \in [Worktree -> Nat]
  /\ path \in {"none", "staging", "target"}
  /\ repository \in Generation
  /\ rows \in [Worktree -> Row]
  /\ intent \in [status : {"none", "preparing", "resolved", "completed"}, repository : Generation]
  /\ writer \in Process \cup {NoOne}
  /\ pc \in [Process -> Stages]
  /\ call \in [Process -> Call]
  /\ result \in [Process -> [worktree : Worktree, workspace : Process \cup {NoOne},
                             created : BOOLEAN]]
  /\ meddled \in 0 .. MaxMeddling /\ kills \in 0 .. MaxKills

(* A published marker may get lost, but nobody who establishes a           *)
(* generation replaces it by another (_create_generation_marker).          *)
OneMarker ==
  [][ \A d \in Directory :
        marker[d] # NoGeneration => marker'[d] \in {NoGeneration, marker[d]} ]_vars

(* "Equivalent repeated or concurrent adoption converges on one Workspace  *)
(* and one immutable Binding; exactly one successful adoption reports      *)
(* creation" (deepen-workspace-architecture.md): all that succeed return   *)
(* the Workspace of the row, and it is the adoption the row is of that     *)
(* reports its creation, no other.  One that is killed between its commit  *)
(* and its report leaves a row whose creation nobody reports; nothing else *)
(* takes the report away.                                                  *)
Converged ==
  \A w \in Worktree :
    LET Reporting == {p \in Adopter : pc[p] = "done" /\ result[p].worktree = w}
        maker == rows[w].workspace
    IN /\ \A p \in Reporting : result[p].workspace = maker
       /\ {p \in Reporting : result[p].created} = {maker} \cap Reporting
       /\ maker \in Adopter =>
            \/ pc[maker] = "committed" \/ maker \in Reporting
            \/ kills > 0 /\ pc[maker] = "failed"

(* Adoption never takes what a row records back to what was so earlier,    *)
(* never binds it anew, and leaves a forgotten one alone.                  *)
FactsMoveForward ==
  [][ \A w \in Worktree :
        Recorded(w) =>
          /\ rows'[w].workspace = rows[w].workspace
          /\ rows'[w].generation = rows[w].generation
          /\ rows'[w].head >= rows[w].head
          /\ rows[w].state = "forgotten" => rows'[w] = rows[w] ]_vars

(* Until its create completes, nobody gives a staged Worktree, or one at   *)
(* its target, an identity other than the planned one, or adopts it; the   *)
(* Workspace recorded for it then is the create's.                         *)
CreateUndisturbed ==
  /\ intent.status # "completed" =>
       MarkerAt(Made) \in {NoGeneration, Token} /\ ~Recorded(Made)
  /\ intent.status = "completed" =>
       rows[Made].workspace = Create /\ rows[Made].generation = Token
=============================================================================
