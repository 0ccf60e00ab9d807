----------------------- MODULE RepositoryCacheProofs ------------------------
(***************************************************************************)
(* Proofs about the shared cache, for any invocations, creates and         *)
(* sources.                                                                *)
(*                                                                         *)
(* The argument: between StartStep and Finish the entry of a source stands *)
(* still, because only the holder of its lease writes it (LeaseInv,        *)
(* EntryInv); whatever a holder publishes is no older than the request of  *)
(* any create that was served before (FreshInv); and a create that was     *)
(* served finds its receipt, unless somebody removed the cache             *)
(* (ReceiptInv).                                                           *)
(***************************************************************************)
EXTENDS RepositoryCache, TLAPS

Status == {"pending", "running", "unknown", "completed"}

Bare == [generation : Nat, version : Nat, receipts : SUBSET (Operation \cup {NoOperation})]

Local == [stage : Stage, operation : Operation \cup {NoOperation},
          previous : Status \cup {"none"}, entry : Nat]

Typing ==
  /\ step \in [Operation -> Status]
  /\ entry \in [Source -> Nat]
  /\ sha \in [Operation -> Nat]
  /\ lease \in [Source -> Invocation \cup {NoOne}]
  /\ run \in [Invocation -> Local]
  /\ cache \in [Source -> Bare]
  /\ clone \in [Invocation -> Bare]
  /\ origin \in [Source -> Version]
  /\ offline \subseteq Source
  /\ generations \in Nat
  /\ faults \in 0 .. MaxFaults
  /\ asked \in [Operation -> Nat]
  /\ served \subseteq Operation
  /\ lost \subseteq Source
  /\ \A i \in Invocation : run[i].stage # "idle" => Op(i) \in Operation

(* Who holds a lease, and whose clones there are.                          *)
LeaseInv ==
  /\ \A i \in Invocation : run[i].stage \in Owning => lease[At(i)] = i
  /\ \A s \in Source :
        lease[s] # NoOne =>
          run[lease[s]].stage \in Owning \cup {"gone"} /\ At(lease[s]) = s
  /\ \A i \in Invocation :
        clone[i] # NoRepository => run[i].stage \in Cloning \cup {"gone", "failing"}

(* Generations: a repository at a cache path has one, and the entry keeps  *)
(* still while the holder of the lease verifies it.                        *)
Reading == {"started", "cleaned", "cloning", "cloned", "fetching", "fetched", "verifying"}

EntryInv ==
  /\ \A s \in Source : cache[s] # NoRepository => cache[s].generation # None
  /\ \A s \in Source : cache[s].generation <= generations /\ entry[s] <= generations
  /\ \A i \in Invocation :
        /\ run[i].stage = "cloned" =>
              clone[i].generation # None /\ clone[i].generation <= generations
        /\ run[i].stage \in Reading => run[i].entry = entry[At(i)]
        /\ run[i].stage = "finishing" =>
              /\ run[i].entry # None
              /\ run[i].entry <= generations
              /\ entry[At(i)] # None => run[i].entry = entry[At(i)]

(* What a completed preparation leaves.                                    *)
StepInv ==
  /\ \A o \in Operation :
        /\ step[o] = "completed" => entry[SourceOf[o]] # None
        /\ sha[o] # None => step[o] = "completed"
  /\ \A i \in Invocation :
        /\ run[i].previous = "completed" => Op(i) \in Operation /\ step[Op(i)] = "completed"
        /\ run[i].stage \in {"releasing", "prepared", "resolved", "done"} =>
              step[Op(i)] = "completed"

(* Creates that got past their refresh have been served.                   *)
Past == {"verifying", "finishing", "releasing", "prepared", "resolved", "done"}

ServedInv ==
  /\ \A o \in Operation : step[o] = "completed" => o \in served
  /\ \A s \in Source, o \in Operation : o \in cache[s].receipts => o \in served
  /\ \A i \in Invocation :
        /\ run[i].stage \in Past => Op(i) \in served
        /\ run[i].stage = "cloned" => clone[i].receipts = {Op(i)}

(* Versions: no cache, and no clone that is to be published, is older than *)
(* the request of a create that was served.                                *)
FreshInv ==
  /\ \A o \in Operation : asked[o] <= origin[SourceOf[o]]
  /\ \A i \in Invocation : run[i].stage # "idle" => asked[Op(i)] # None
  /\ \A o \in served :
        /\ asked[o] # None
        /\ cache[SourceOf[o]] # NoRepository => cache[SourceOf[o]].version >= asked[o]
  /\ \A i \in Invocation :
        /\ run[i].stage = "fetched" /\ Found(i) # NoRepository =>
              Found(i).version >= asked[Op(i)]
        /\ run[i].stage = "cloned" =>
              \A o \in served \cup {Op(i)} :
                SourceOf[o] = At(i) => clone[i].version >= asked[o]

(* Receipts and identity, of a source whose cache nobody removed.          *)
Refreshing == {"fetching", "fetched", "cloning", "cloned"}

ReceiptInv ==
  /\ \A o \in served :
        SourceOf[o] \notin lost => o \in cache[SourceOf[o]].receipts
  /\ \A s \in Source :
        entry[s] # None /\ s \notin lost =>
          cache[s] # NoRepository /\ cache[s].generation = entry[s]
  /\ \A i \in Invocation :
        /\ run[i].stage \in Refreshing /\ At(i) \notin lost => Op(i) \notin served
        /\ run[i].stage = "finishing" /\ At(i) \notin lost =>
              Found(i) # NoRepository /\ Found(i).generation = run[i].entry

CacheInv == Typing /\ LeaseInv /\ EntryInv /\ StepInv /\ ServedInv /\ FreshInv /\ ReceiptInv

-----------------------------------------------------------------------------
StepOf(i) == Prepare(i) \/ Fails(i) \/ Vanish(i)

Others == \E s \in Source : OriginMoves(s) \/ OriginLost(s) \/ CacheRemoved(s)

LEMMA WhoSteps == ASSUME Next PROVE (\E i \in Invocation : StepOf(i)) \/ Others
BY DEF Next, StepOf, Others

(* Who changes what.                                                       *)
LEMMA StepKept ==
  ASSUME NEW i \in Invocation, StepOf(i),
         ~Acquire(i), ~StartStep(i), ~Finish(i), ~Fail(i)
  PROVE  step' = step
BY DEF StepOf, Prepare, Attempt, Busy, CleanUp, Find, Fetch, WriteReceipt, StartClone, Clone,
       Publish, Verify, Release, Resolve, Complete, Refuse, GroupEnds, Fails, Vanish, Faulty,
       registry

LEMMA EntryKept == ASSUME NEW i \in Invocation, StepOf(i), ~Finish(i) PROVE entry' = entry
BY DEF StepOf, Prepare, Attempt, Acquire, Busy, StartStep, CleanUp, Find, Fetch, WriteReceipt,
       StartClone, Clone, Publish, Verify, Release, Resolve, Complete, Refuse, Fail, GroupEnds,
       Fails, Vanish, Faulty, registry

LEMMA ShaKept == ASSUME NEW i \in Invocation, StepOf(i), ~Resolve(i) PROVE sha' = sha
BY DEF StepOf, Prepare, Attempt, Acquire, Busy, StartStep, CleanUp, Find, Fetch, WriteReceipt,
       StartClone, Clone, Publish, Verify, Finish, Release, Complete, Refuse, Fail, GroupEnds,
       Fails, Vanish, Faulty, registry

LEMMA LeaseKept ==
  ASSUME NEW i \in Invocation, StepOf(i), ~Acquire(i), ~Release(i), ~Fail(i)
  PROVE  lease' = lease
BY DEF StepOf, Prepare, Attempt, Busy, StartStep, CleanUp, Find, Fetch, WriteReceipt,
       StartClone, Clone, Publish, Verify, Finish, Resolve, Complete, Refuse, GroupEnds,
       Fails, Vanish, Faulty, registry

LEMMA CacheKept ==
  ASSUME NEW i \in Invocation, StepOf(i),
         ~Fetch(i), ~WriteReceipt(i), ~Publish(i), ~GroupEnds(i)
  PROVE  cache' = cache
BY DEF StepOf, Prepare, Attempt, Acquire, Busy, StartStep, CleanUp, Find, StartClone, Clone,
       Verify, Finish, Release, Resolve, Complete, Refuse, Fail, Fails, Vanish, Faulty, disk

LEMMA ClonesKept ==
  ASSUME NEW i \in Invocation, StepOf(i),
         ~CleanUp(i), ~StartClone(i), ~Clone(i), ~Publish(i), ~Fail(i)
  PROVE  clone' = clone
BY DEF StepOf, Prepare, Attempt, Acquire, Busy, StartStep, Find, Fetch, WriteReceipt,
       Verify, Finish, Release, Resolve, Complete, Refuse, GroupEnds, Fails, Vanish, Faulty, disk

LEMMA GenerationsKept ==
  ASSUME NEW i \in Invocation, StepOf(i), ~Clone(i) PROVE generations' = generations
BY DEF StepOf, Prepare, Attempt, Acquire, Busy, StartStep, CleanUp, Find, Fetch, WriteReceipt,
       StartClone, Publish, Verify, Finish, Release, Resolve, Complete, Refuse, Fail, GroupEnds,
       Fails, Vanish, Faulty, disk

LEMMA WorldKept ==
  ASSUME NEW i \in Invocation, StepOf(i)
  PROVE  origin' = origin /\ offline' = offline /\ lost' = lost
BY DEF StepOf, Prepare, Attempt, Acquire, Busy, StartStep, CleanUp, Find, Fetch, WriteReceipt,
       StartClone, Clone, Publish, Verify, Finish, Release, Resolve, Complete, Refuse, Fail,
       GroupEnds, Fails, Vanish, Faulty, others, history

LEMMA AskedKept ==
  ASSUME NEW i \in Invocation, StepOf(i), \A o \in Operation : ~Attempt(i, o)
  PROVE  asked' = asked
BY DEF StepOf, Prepare, Acquire, Busy, StartStep, CleanUp, Find, Fetch, WriteReceipt,
       StartClone, Clone, Publish, Verify, Finish, Release, Resolve, Complete, Refuse, Fail,
       GroupEnds, Fails, Vanish, Faulty, history

LEMMA ServedKept ==
  ASSUME NEW i \in Invocation, StepOf(i), ~WriteReceipt(i), ~Publish(i)
  PROVE  served' = served
BY DEF StepOf, Prepare, Attempt, Acquire, Busy, StartStep, CleanUp, Find, Fetch,
       StartClone, Clone, Verify, Finish, Release, Resolve, Complete, Refuse, Fail,
       GroupEnds, Fails, Vanish, Faulty, history

LEMMA FaultsKept ==
  ASSUME NEW i \in Invocation, StepOf(i)
  PROVE  faults' = faults \/ (faults < MaxFaults /\ faults' = faults + 1)
BY DEF StepOf, Prepare, Attempt, Acquire, Busy, StartStep, CleanUp, Find, Fetch, WriteReceipt,
       StartClone, Clone, Publish, Verify, Finish, Release, Resolve, Complete, Refuse, Fail,
       GroupEnds, Fails, Vanish, Faulty, others

-----------------------------------------------------------------------------
(* The local state of an invocation.                                       *)
RunTyping ==
  /\ run \in [Invocation -> Local]
  /\ \A i \in Invocation : run[i].stage # "idle" => Op(i) \in Operation

LEMMA Moved ==
  ASSUME RunTyping, NEW i \in Invocation, NEW stage \in Stage, run[i].stage # "idle",
         To(i, stage)
  PROVE  /\ RunTyping'
         /\ \A j \in Invocation \ {i} : run'[j] = run[j]
         /\ run'[i].stage = stage
         /\ run'[i].operation = run[i].operation
         /\ run'[i].previous = run[i].previous
         /\ run'[i].entry = run[i].entry
BY DEF RunTyping, Local, To, Op

LEMMA Became ==
  ASSUME RunTyping, NEW i \in Invocation, NEW new \in Local,
         new.stage # "idle" => new.operation \in Operation,
         run' = [run EXCEPT ![i] = new]
  PROVE  RunTyping' /\ run'[i] = new /\ \A j \in Invocation \ {i} : run'[j] = run[j]
BY DEF RunTyping, Local, Op

LEMMA IdleIsLocal == Idle \in Local
BY DEF Idle, Local, Stage, None

(* What a step of an invocation does to its own local state.               *)
Turns(i) ==
  /\ RunTyping'
  /\ \A j \in Invocation \ {i} : run'[j] = run[j]
  /\ run[i].stage # "gone"
  /\ run[i].stage = "idle" => \E o \in Operation : Attempt(i, o)
  /\ run'[i].stage # "idle" =>
        run'[i].operation = run[i].operation \/ \E o \in Operation : Attempt(i, o)
  /\ \/ run'[i].previous = run[i].previous /\ run'[i].operation = run[i].operation
     \/ run'[i].previous = "none"
     \/ StartStep(i)
  /\ run'[i].entry = run[i].entry \/ run'[i].stage \notin Owning \/ StartStep(i) \/ Verify(i)

(* The steps by which it reaches a stage.                                  *)
Reaches(i) ==
  LET stage == run'[i].stage
  IN  /\ stage = "asking" => \E o \in Operation : Attempt(i, o)
      /\ stage = "leased" => Acquire(i)
      /\ stage = "started" => StartStep(i)
      /\ stage = "cleaned" => CleanUp(i)
      /\ stage = "fetching" => Find(i) /\ ~Prepared(i)
      /\ stage = "fetched" => Fetch(i)
      /\ stage = "cloning" => StartClone(i)
      /\ stage = "cloned" => Clone(i)
      /\ stage = "verifying" => (Find(i) /\ Prepared(i)) \/ WriteReceipt(i) \/ Publish(i)
      /\ stage = "finishing" => Verify(i) /\ ~MustExist(i)
      /\ stage = "releasing" => (Verify(i) /\ MustExist(i)) \/ Finish(i)
      /\ stage = "prepared" => Release(i)
      /\ stage = "resolved" => Resolve(i)
      /\ stage = "done" => Complete(i)
      /\ stage = "lingering" => Vanish(i) /\ run[i].stage \in {"cloning", "fetching"}
      /\ stage = "failing" => run[i].stage \in Owning \ {"failing", "lingering"}
      /\ stage = "idle" => Fail(i) \/ run[i].stage \in {"asking", "prepared", "resolved"}

LEMMA RunSteps ==
  ASSUME Typing, NEW i \in Invocation, StepOf(i)
  PROVE  Turns(i) /\ Reaches(i)
<1> RunTyping
  BY DEF Typing, RunTyping, Op
<1> USE DEF Turns, Reaches
<1>i. ASSUME run' = [run EXCEPT ![i] = Idle],
             Fail(i) \/ run[i].stage \in {"asking", "prepared", "resolved"}
      PROVE  Turns(i) /\ Reaches(i)
  <2>1. Idle.stage = "idle" /\ Idle.previous = "none"
    BY DEF Idle
  <2>2. RunTyping' /\ run'[i] = Idle /\ \A j \in Invocation \ {i} : run'[j] = run[j]
    BY <1>i, <2>1, IdleIsLocal, Became
  <2> QED BY <1>i, <2>1, <2>2 DEF Fail, Owning, Cloning
<1>a. ASSUME NEW o \in Operation, Attempt(i, o) PROVE Turns(i) /\ Reaches(i)
  <2> DEFINE new == [Idle EXCEPT !.stage = "asking", !.operation = o]
  <2>1. new \in Local /\ new.stage = "asking" /\ new.operation = o /\ new.previous = "none"
    BY DEF Idle, Local, Stage, None
  <2>2. run' = [run EXCEPT ![i] = new] /\ run[i].stage = "idle"
    BY <1>a DEF Attempt
  <2> HIDE DEF new
  <2> QED BY <1>a, <2>1, <2>2, Became DEF Owning, Cloning
<1>1. CASE Acquire(i)
  <2>1. run[i].stage \notin {"idle", "gone"} /\ To(i, "leased")
    BY <1>1 DEF Acquire
  <2> QED BY <1>1, <2>1, Moved DEF Stage, Owning, Cloning
<1>2. CASE CleanUp(i)
  <2>1. run[i].stage \notin {"idle", "gone"} /\ To(i, "cleaned")
    BY <1>2 DEF CleanUp
  <2> QED BY <1>2, <2>1, Moved DEF Stage, Owning, Cloning
<1>3. CASE Find(i)
  <2>1. /\ run[i].stage \notin {"idle", "gone"}
        /\ To(i, IF Prepared(i) THEN "verifying" ELSE "fetching")
    BY <1>3 DEF Find
  <2> QED BY <1>3, <2>1, Moved DEF Stage, Owning, Cloning
<1>4. CASE Fetch(i)
  <2>1. run[i].stage \notin {"idle", "gone"} /\ To(i, "fetched")
    BY <1>4 DEF Fetch
  <2> QED BY <1>4, <2>1, Moved DEF Stage, Owning, Cloning
<1>5. CASE WriteReceipt(i)
  <2>1. run[i].stage \notin {"idle", "gone"} /\ To(i, "verifying")
    BY <1>5 DEF WriteReceipt
  <2> QED BY <1>5, <2>1, Moved DEF Stage, Owning, Cloning
<1>6. CASE StartClone(i)
  <2>1. run[i].stage \notin {"idle", "gone"} /\ To(i, "cloning")
    BY <1>6 DEF StartClone
  <2> QED BY <1>6, <2>1, Moved DEF Stage, Owning, Cloning
<1>7. CASE Clone(i)
  <2>1. run[i].stage \notin {"idle", "gone"} /\ To(i, "cloned")
    BY <1>7 DEF Clone
  <2> QED BY <1>7, <2>1, Moved DEF Stage, Owning, Cloning
<1>8. CASE Publish(i)
  <2>1. run[i].stage \notin {"idle", "gone"} /\ To(i, "verifying")
    BY <1>8 DEF Publish
  <2> QED BY <1>8, <2>1, Moved DEF Stage, Owning, Cloning
<1>9. CASE Finish(i)
  <2>1. run[i].stage \notin {"idle", "gone"} /\ To(i, "releasing")
    BY <1>9 DEF Finish
  <2> QED BY <1>9, <2>1, Moved DEF Stage, Owning, Cloning
<1>10. CASE Resolve(i)
  <2>1. run[i].stage \notin {"idle", "gone"} /\ To(i, "resolved")
    BY <1>10 DEF Resolve
  <2> QED BY <1>10, <2>1, Moved DEF Stage, Owning, Cloning
<1>11. CASE Complete(i)
  <2>1. run[i].stage \notin {"idle", "gone"} /\ To(i, "done")
    BY <1>11 DEF Complete
  <2> QED BY <1>11, <2>1, Moved DEF Stage, Owning, Cloning
<1>12. CASE GroupEnds(i)
  <2>1. run[i].stage \notin {"idle", "gone"} /\ To(i, "gone")
    BY <1>12 DEF GroupEnds
  <2> QED BY <1>12, <2>1, Moved DEF Stage, Owning, Cloning
<1>13. CASE Busy(i) \/ Fail(i)
  BY <1>13, <1>i DEF Busy, Fail
<1>14. CASE StartStep(i)
  <2> DEFINE new == [run[i] EXCEPT !.stage = "started", !.previous = step[Op(i)],
                                   !.entry = entry[At(i)]]
  <2>1. Op(i) \in Operation /\ At(i) \in Source /\ run[i] \in Local
    BY <1>14, CacheAssumption DEF StartStep, RunTyping, At
  <2>2. new \in Local /\ new.stage = "started" /\ new.operation = run[i].operation
    BY <2>1 DEF Local, Stage, Owning, Typing
  <2>3. run' = [run EXCEPT ![i] = new] /\ run[i].stage = "leased"
    BY <1>14 DEF StartStep
  <2> HIDE DEF new
  <2> QED BY <1>14, <2>1, <2>2, <2>3, Became DEF Owning, Cloning, Op
<1>15. CASE Verify(i)
  <2> DEFINE after == IF MustExist(i) THEN "releasing" ELSE "finishing"
             new == [run[i] EXCEPT !.stage = after, !.entry = Found(i).generation]
  <2>1. Op(i) \in Operation /\ At(i) \in Source /\ run[i] \in Local
    BY <1>15, CacheAssumption DEF Verify, RunTyping, At
  <2>2. /\ new \in Local /\ new.stage = after /\ new.operation = run[i].operation
        /\ new.previous = run[i].previous
    BY <2>1 DEF Local, Stage, Owning, Typing, Found, Bare
  <2>3. run' = [run EXCEPT ![i] = new] /\ run[i].stage = "verifying"
    BY <1>15 DEF Verify
  <2> HIDE DEF new
  <2> QED BY <1>15, <2>1, <2>2, <2>3, Became DEF Owning, Cloning, Op
<1>16. CASE Release(i)
  <2> DEFINE new == [Idle EXCEPT !.stage = "prepared", !.operation = Op(i)]
  <2>1. Op(i) \in Operation /\ run[i].stage = "releasing"
    BY <1>16 DEF Release, RunTyping
  <2>2. new \in Local /\ new.stage = "prepared" /\ new.operation = Op(i)
          /\ new.previous = "none"
    BY <2>1 DEF Idle, Local, Stage, None
  <2>3. run' = [run EXCEPT ![i] = new]
    BY <1>16 DEF Release
  <2> HIDE DEF new
  <2> QED BY <1>16, <2>1, <2>2, <2>3, Became DEF Owning, Cloning, Op
<1>17. CASE Refuse(i) \/ Fails(i)
  <2>1. /\ Abort(i)
        /\ run[i].stage \in (Owning \ {"failing", "lingering"}) \cup {"prepared", "resolved"}
    BY <1>17 DEF Refuse, Refused, Fails, Owning, Cloning
  <2>2. CASE run[i].stage \in {"prepared", "resolved"}
    BY <2>1, <2>2, <1>i DEF Abort
  <2>3. CASE run[i].stage \notin {"prepared", "resolved"}
    <3>1. run[i].stage \notin {"idle", "gone"} /\ To(i, "failing")
      BY <2>1, <2>3 DEF Abort, To, Owning, Cloning
    <3> QED BY <2>1, <2>3, <3>1, Moved DEF Stage, Owning, Cloning
  <2> QED BY <2>2, <2>3
<1>18. CASE Vanish(i)
  <2>1. /\ run[i].stage \notin {"idle", "gone"}
        /\ To(i, IF run[i].stage \in {"cloning", "fetching"} THEN "lingering" ELSE "gone")
    BY <1>18 DEF Vanish, Owning, Cloning
  <2> QED BY <1>18, <2>1, Moved DEF Stage, Owning, Cloning
<1> QED BY <1>a, <1>1, <1>2, <1>3, <1>4, <1>5, <1>6, <1>7, <1>8, <1>9, <1>10, <1>11, <1>12,
           <1>13, <1>14, <1>15, <1>16, <1>17, <1>18 DEF StepOf, Prepare

-----------------------------------------------------------------------------
LEMMA Places ==
  ASSUME Typing, NEW i \in Invocation, run[i].stage # "idle"
  PROVE  Op(i) \in Operation /\ At(i) \in Source
BY CacheAssumption DEF Typing, At

LEMMA NoRepositoryIsBare == NoRepository \in Bare
BY DEF NoRepository, Repository, Bare, None

(* What the steps that write a repository write.                           *)
LEMMA CacheTyping ==
  ASSUME Typing, NEW i \in Invocation, StepOf(i)
  PROVE  cache' \in [Source -> Bare]
<1>1. CASE Fetch(i) \/ GroupEnds(i)
  <2>1. Op(i) \in Operation /\ At(i) \in Source
    BY <1>1, Places DEF Fetch, GroupEnds
  <2>2. [cache[At(i)] EXCEPT !.version = origin[At(i)]] \in Bare
    <3>1. origin[At(i)] \in Nat /\ cache[At(i)] \in Bare
      BY <2>1, CacheAssumption DEF Typing, Version
    <3> QED BY <3>1 DEF Bare
  <2> QED BY <1>1, <2>1, <2>2 DEF Fetch, GroupEnds, Typing
<1>2. CASE WriteReceipt(i)
  BY <1>2, Places DEF WriteReceipt, Typing, Bare
<1>3. CASE Publish(i)
  BY <1>3 DEF Publish, Typing
<1> QED BY <1>1, <1>2, <1>3, CacheKept DEF Typing

LEMMA CloneTyping ==
  ASSUME Typing, NEW i \in Invocation, StepOf(i)
  PROVE  clone' \in [Invocation -> Bare] /\ generations' \in Nat
<1>1. CASE Clone(i)
  BY <1>1, Places DEF Clone, Receipts, Typing, Bare, Repository, Version
<1>2. CASE CleanUp(i) \/ Publish(i) \/ Fail(i)
  BY <1>2, NoRepositoryIsBare, GenerationsKept
  DEF CleanUp, Publish, Fail, Typing, disk
<1>3. CASE StartClone(i)
  BY <1>3, GenerationsKept DEF StartClone, Typing, Partial, Repository, Bare, None
<1> QED BY <1>1, <1>2, <1>3, ClonesKept, GenerationsKept DEF Typing

LEMMA RegistryTyping ==
  ASSUME Typing, NEW i \in Invocation, StepOf(i)
  PROVE  /\ step' \in [Operation -> Status]
         /\ entry' \in [Source -> Nat]
         /\ sha' \in [Operation -> Nat]
         /\ lease' \in [Source -> Invocation \cup {NoOne}]
<1>1. step' \in [Operation -> Status]
  <2>1. CASE Acquire(i)
    BY <2>1 DEF Acquire, Interrupted, Typing, Status
  <2>2. CASE StartStep(i) \/ Finish(i) \/ Fail(i)
    BY <2>2, Places DEF StartStep, Finish, Fail, Interrupted, Typing, Status
  <2> QED BY <2>1, <2>2, StepKept DEF Typing
<1>2. entry' \in [Source -> Nat]
  BY EntryKept DEF Finish, Typing, Local
<1>3. sha' \in [Operation -> Nat]
  BY ShaKept, Places DEF Resolve, Typing, Bare, Found
<1>4. lease' \in [Source -> Invocation \cup {NoOne}]
  BY LeaseKept DEF Acquire, Release, Fail, Typing
<1> QED BY <1>1, <1>2, <1>3, <1>4

LEMMA TypingStep == ASSUME Typing, [Next]_vars PROVE Typing'
<1>1. ASSUME NEW i \in Invocation, StepOf(i) PROVE Typing'
  <2>1. RunTyping' /\ cache' \in [Source -> Bare] /\ clone' \in [Invocation -> Bare]
          /\ generations' \in Nat
    BY <1>1, RunSteps, CacheTyping, CloneTyping DEF Turns
  <2>2. origin' \in [Source -> Version] /\ offline' \subseteq Source /\ lost' \subseteq Source
    BY <1>1, WorldKept DEF Typing
  <2>3. faults' \in 0 .. MaxFaults
    BY <1>1, FaultsKept, CacheAssumption DEF Typing
  <2>4. asked' \in [Operation -> Nat]
    <3>1. ASSUME NEW o \in Operation, Attempt(i, o) PROVE asked' \in [Operation -> Nat]
      <4>1. origin[SourceOf[o]] \in Nat
        BY CacheAssumption DEF Typing, Version
      <4> QED BY <3>1, <4>1 DEF Attempt, Typing
    <3> QED BY <1>1, <3>1, AskedKept DEF Typing
  <2>5. served' \subseteq Operation
    BY <1>1, ServedKept, Places DEF WriteReceipt, Publish, Typing
  <2> QED BY <1>1, <2>1, <2>2, <2>3, <2>4, <2>5, RegistryTyping DEF Typing, RunTyping
<1>2. CASE Others
  <2>1. ASSUME NEW s \in Source, OriginMoves(s) PROVE Typing'
    BY <2>1, CacheAssumption
    DEF OriginMoves, Typing, registry, disk, history, Op, Version
  <2>2. ASSUME NEW s \in Source, OriginLost(s) PROVE Typing'
    BY <2>2, CacheAssumption DEF OriginLost, Typing, registry, disk, history, Op
  <2>3. ASSUME NEW s \in Source, CacheRemoved(s) PROVE Typing'
    BY <2>3, CacheAssumption, NoRepositoryIsBare DEF CacheRemoved, Typing, registry, Op
  <2> QED BY <1>2, <2>1, <2>2, <2>3 DEF Others
<1>3. CASE UNCHANGED vars
  BY <1>3 DEF vars, Typing, Op
<1> QED BY <1>1, <1>2, <1>3, WhoSteps

-----------------------------------------------------------------------------
(* Leases.                                                                 *)
LEMMA OwningReached ==
  ASSUME Typing, NEW i \in Invocation, StepOf(i)
  PROVE  /\ run'[i].stage \in Owning =>
              /\ run'[i].operation = run[i].operation
              /\ Acquire(i) \/ (run[i].stage \in Owning /\ lease' = lease)
         /\ run[i].stage \in Owning =>
              \/ Release(i) \/ Fail(i)
              \/ /\ run'[i].stage \in Owning \cup {"gone"}
                 /\ run'[i].operation = run[i].operation
                 /\ lease' = lease
<1>1. Turns(i) /\ Reaches(i)
  BY RunSteps
<1>2. Release(i) \/ Fail(i) => run'[i].stage \notin Owning
  <2>1. Release(i) => run'[i].stage = "prepared"
    BY DEF Release, Typing, Idle
  <2>2. Fail(i) => run'[i].stage = "idle"
    BY DEF Fail, Typing, Idle
  <2> QED BY <2>1, <2>2 DEF Owning, Cloning
<1>3. run[i].stage # "idle" => ~(\E o \in Operation : Attempt(i, o))
  BY DEF Attempt
<1>4. CASE run[i].stage \in Owning
  <2>1. ~Acquire(i) /\ run[i].stage # "idle"
    BY <1>4 DEF Acquire, Owning, Cloning
  <2>2. run'[i].stage \in Owning => ~Release(i) /\ ~Fail(i)
    BY <1>2
  <2>3. ~Fail(i) /\ ~Release(i) => run'[i].stage \in Owning \cup {"gone"}
    <3>1. run'[i].stage \in Stage
      BY <1>1 DEF Turns, RunTyping, Local
    <3> QED BY <1>1, <1>3, <1>4, <2>1, <3>1
        DEF Reaches, Resolve, Complete, Stage, Owning, Cloning
  <2> QED BY <1>1, <1>3, <1>4, <2>1, <2>2, <2>3, LeaseKept DEF Turns, Owning, Cloning
<1>5. CASE run[i].stage \notin Owning
  <2>1. run'[i].stage \in Owning => Acquire(i)
    BY <1>1, <1>5
    DEF Reaches, StartStep, CleanUp, Find, Fetch, StartClone, Clone, WriteReceipt, Publish,
        Verify, Finish, Owning, Cloning
  <2>2. Acquire(i) => run[i].stage # "idle"
    BY DEF Acquire
  <2> QED BY <1>1, <1>3, <1>5, <2>1, <2>2 DEF Turns, Owning, Cloning
<1> QED BY <1>4, <1>5

LEMMA LeaseInvStep == ASSUME Typing, LeaseInv, [Next]_vars PROVE LeaseInv'
<1>1. ASSUME NEW i \in Invocation, StepOf(i) PROVE LeaseInv'
  <2> Turns(i) /\ Reaches(i)
    BY <1>1, RunSteps
  <2>1. ASSUME NEW j \in Invocation, run'[j].stage \in Owning PROVE lease'[At(j)'] = j
    <3>1. CASE j = i
      <4>1. At(i)' = At(i) /\ At(i) \in Source
        BY <1>1, <2>1, <3>1, OwningReached, Places
        DEF At, Op, Acquire, Owning, Cloning
      <4> QED BY <1>1, <2>1, <3>1, <4>1, OwningReached DEF LeaseInv, Acquire, Typing
    <3>2. CASE j # i
      <4>1. run'[j] = run[j] /\ run[j].stage \in Owning /\ lease[At(j)] = j /\ At(j)' = At(j)
        BY <2>1, <3>2 DEF Turns, LeaseInv, At, Op
      <4>2. CASE Acquire(i)
        BY <3>2, <4>1, <4>2, CacheAssumption
        DEF Acquire, Available, Dead, Typing, Owning, Cloning
      <4>3. CASE Release(i) \/ Fail(i)
        <5>1. lease[At(i)] = i
          BY <4>3 DEF Release, Fail, LeaseInv, Owning
        <5> QED BY <3>2, <4>1, <4>3, <5>1, Places DEF Release, Fail, Typing, Owning, Cloning
      <4> QED BY <1>1, <4>1, <4>2, <4>3, LeaseKept
    <3> QED BY <3>1, <3>2
  <2>2. ASSUME NEW s \in Source, lease'[s] # NoOne
        PROVE  run'[lease'[s]].stage \in Owning \cup {"gone"} /\ At(lease[s])' = s
    <3>1. CASE lease'[s] = i
      <4>1. CASE Acquire(i)
        <5>1. run'[i].stage = "leased" /\ run'[i].operation = run[i].operation
                /\ run[i].stage = "asking"
          BY <4>1 DEF Acquire, To, Typing
        <5>2. lease[s] # i
          BY <5>1, CacheAssumption DEF LeaseInv, Owning, Cloning
        <5>3. s = At(i)
          BY <3>1, <4>1, <5>2 DEF Acquire, Typing
        <5> QED BY <3>1, <5>1, <5>3 DEF At, Op, Owning
      <4>2. CASE Release(i) \/ Fail(i)
        <5>1. lease[At(i)] = i /\ run[i].stage \in Owning
          BY <4>2 DEF Release, Fail, LeaseInv, Owning
        <5>2. lease[s] = i
          BY <2>2, <3>1, <4>2 DEF Release, Fail, Typing
        <5>3. s = At(i)
          BY <5>2, CacheAssumption DEF LeaseInv
        <5> QED BY <3>1, <4>2, <5>3, CacheAssumption DEF Release, Fail, Typing
      <4>3. CASE ~Acquire(i) /\ ~Release(i) /\ ~Fail(i)
        <5>1. lease[s] = i
          BY <1>1, <3>1, <4>3, LeaseKept
        <5>2. run[i].stage \in Owning /\ At(i) = s
          BY <5>1, CacheAssumption DEF LeaseInv, Turns
        <5> QED BY <1>1, <3>1, <4>3, <5>2, OwningReached DEF At, Op
      <4> QED BY <4>1, <4>2, <4>3
    <3>2. CASE lease'[s] # i
      <4>1. lease[s] = lease'[s] /\ lease[s] \in Invocation
        BY <1>1, <2>2, <3>2, LeaseKept DEF Acquire, Release, Fail, Typing
      <4> QED BY <2>2, <3>2, <4>1 DEF LeaseInv, Turns, At, Op
    <3> QED BY <3>1, <3>2
  <2>3. ASSUME NEW j \in Invocation, clone'[j] # NoRepository
        PROVE  run'[j].stage \in Cloning \cup {"gone", "failing"}
    <3>1. CASE j # i
      <4>1. clone[j] # NoRepository
        BY <1>1, <2>3, <3>1, ClonesKept
        DEF CleanUp, StartClone, Clone, Publish, Fail, Typing
      <4> QED BY <3>1, <4>1 DEF LeaseInv, Turns
    <3>2. CASE j = i
      <4>1. CASE StartClone(i) \/ Clone(i)
        BY <3>2, <4>1 DEF StartClone, Clone, To, Typing, Local, Cloning
      <4>2. CASE ~StartClone(i) /\ ~Clone(i)
        <5>1. clone[i] # NoRepository /\ ~Publish(i) /\ ~Fail(i)
          BY <1>1, <2>3, <3>2, <4>2, ClonesKept DEF CleanUp, Publish, Fail, Typing
        <5>2. run[i].stage \in Cloning \cup {"failing"}
          BY <5>1 DEF LeaseInv, Turns
        <5>3. run'[i].stage \in Owning \cup {"gone"}
          BY <1>1, <5>1, <5>2, OwningReached DEF Release, Owning, Cloning
        <5> QED BY <3>2, <4>2, <5>1, <5>2, <5>3
            DEF Reaches, Acquire, StartStep, CleanUp, Find, Fetch, WriteReceipt, Verify, Finish,
                Owning, Cloning
      <4> QED BY <4>1, <4>2
    <3> QED BY <3>1, <3>2
  <2> QED BY <2>1, <2>2, <2>3 DEF LeaseInv
<1>2. CASE Others
  BY <1>2 DEF Others, OriginMoves, OriginLost, CacheRemoved, LeaseInv, registry, disk, Op, At
<1>3. CASE UNCHANGED vars
  BY <1>3 DEF vars, LeaseInv, Op, At
<1> QED BY <1>1, <1>2, <1>3, WhoSteps

-----------------------------------------------------------------------------
(* Where a step of an invocation writes: at the source whose lease it      *)
(* holds, so that two who hold leases do not disturb each other.           *)
LEMMA Alone ==
  ASSUME LeaseInv, NEW i \in Invocation, NEW j \in Invocation, i # j,
         run[i].stage \in Owning, run[j].stage \in Owning
  PROVE  At(i) # At(j)
BY DEF LeaseInv

LEMMA CacheElsewhere ==
  ASSUME Typing, NEW i \in Invocation, StepOf(i), NEW s \in Source, cache'[s] # cache[s]
  PROVE  s = At(i) /\ run[i].stage \in Owning
<1>1. Fetch(i) \/ WriteReceipt(i) \/ Publish(i) \/ GroupEnds(i)
  BY CacheKept
<1>2. run[i].stage \in Owning
  BY <1>1 DEF Fetch, WriteReceipt, Publish, GroupEnds, Owning, Cloning
<1> QED BY <1>1, <1>2 DEF Fetch, WriteReceipt, Publish, GroupEnds, Typing

LEMMA EntryElsewhere ==
  ASSUME Typing, NEW i \in Invocation, StepOf(i), NEW s \in Source, entry'[s] # entry[s]
  PROVE  s = At(i) /\ run[i].stage \in Owning /\ Finish(i)
BY EntryKept DEF Finish, Typing, Owning

LEMMA CloneElsewhere ==
  ASSUME Typing, NEW i \in Invocation, StepOf(i), NEW j \in Invocation \ {i},
         run[j].stage # "gone"
  PROVE  clone'[j] = clone[j]
BY ClonesKept DEF CleanUp, StartClone, Clone, Publish, Fail, Dead, Typing

LEMMA ServedElsewhere ==
  ASSUME Typing, NEW i \in Invocation, StepOf(i)
  PROVE  /\ served \subseteq served'
         /\ \A o \in served' \ served : o = Op(i) /\ run[i].stage \in Owning
BY ServedKept DEF WriteReceipt, Publish, Owning, Cloning

LEMMA StepElsewhere ==
  ASSUME Typing, NEW i \in Invocation, StepOf(i), NEW o \in Operation
  PROVE  /\ step[o] = "completed" => step'[o] = "completed"
         /\ step'[o] = "completed" /\ step[o] # "completed" => Finish(i) /\ o = Op(i)
<1>1. CASE Acquire(i)
  BY <1>1 DEF Acquire, Interrupted, Typing
<1>2. CASE StartStep(i) \/ Finish(i) \/ Fail(i)
  BY <1>2 DEF StartStep, Finish, Fail, Interrupted, Typing
<1> QED BY <1>1, <1>2, StepKept

-----------------------------------------------------------------------------
(* Generations and entries.                                                *)
LEMMA EntryInvStep == ASSUME Typing, LeaseInv, EntryInv, [Next]_vars PROVE EntryInv'
<1>1. ASSUME NEW i \in Invocation, StepOf(i) PROVE EntryInv'
  <2> Turns(i) /\ Reaches(i)
    BY <1>1, RunSteps
  <2>g. generations' \in Nat /\ generations \in Nat /\ generations <= generations'
    BY <1>1, GenerationsKept DEF Clone, Typing
  <2>1. ASSUME NEW s \in Source
        PROVE  /\ cache'[s] # NoRepository => cache'[s].generation # None
               /\ cache'[s].generation <= generations' /\ entry'[s] <= generations'
    <3>1. entry'[s] <= generations'
      <4>1. CASE entry'[s] = entry[s]
        BY <2>g, <4>1 DEF EntryInv, Typing
      <4>2. CASE entry'[s] # entry[s]
        <5>1. entry'[s] = run[i].entry /\ run[i].stage = "finishing"
          BY <1>1, <4>2, EntryElsewhere DEF Finish, Typing
        <5> QED BY <2>g, <5>1 DEF EntryInv, Typing, Local
      <4> QED BY <4>1, <4>2
    <3>2. CASE cache'[s] = cache[s]
      BY <2>g, <3>1, <3>2 DEF EntryInv, Typing, Bare
    <3>3. CASE cache'[s] # cache[s]
      <4>1. s = At(i)
        BY <1>1, <3>3, CacheElsewhere
      <4>2. CASE Publish(i)
        <5>1. cache'[s] = clone[i] /\ run[i].stage = "cloned"
          BY <4>1, <4>2 DEF Publish, Typing
        <5> QED BY <2>g, <3>1, <5>1 DEF EntryInv, Typing, Bare
      <4>3. CASE Fetch(i) \/ WriteReceipt(i) \/ GroupEnds(i)
        <5>1. cache[s] # NoRepository /\ cache'[s].generation = cache[s].generation
          BY <3>3, <4>1, <4>3 DEF Fetch, WriteReceipt, GroupEnds, Typing, Bare, Found
        <5> QED BY <2>g, <3>1, <5>1 DEF EntryInv, Typing, Bare
      <4> QED BY <1>1, <3>3, <4>2, <4>3, CacheKept
    <3> QED BY <3>1, <3>2, <3>3
  <2>2. ASSUME NEW j \in Invocation, run'[j].stage = "cloned"
        PROVE  clone'[j].generation # None /\ clone'[j].generation <= generations'
    <3>1. CASE j = i
      <4>1. clone'[i].generation = generations + 1 /\ generations' = generations + 1
        BY <2>2, <3>1 DEF Reaches, Clone, Repository, Typing
      <4> QED BY <2>g, <3>1, <4>1 DEF None
    <3>2. CASE j # i
      BY <1>1, <2>2, <2>g, <3>2, CloneElsewhere DEF Turns, EntryInv, Typing, Bare
    <3> QED BY <3>1, <3>2
  <2>3. ASSUME NEW j \in Invocation, run'[j].stage \in Reading
        PROVE  run'[j].entry = entry'[At(j)']
    <3>1. CASE j = i
      <4>1. CASE StartStep(i)
        <5>1. run'[i].entry = entry[At(i)] /\ run'[i].operation = run[i].operation
                /\ entry' = entry
          BY <4>1 DEF StartStep, Typing, Local
        <5> QED BY <3>1, <5>1 DEF At, Op
      <4>2. CASE ~StartStep(i)
        <5>1. run[i].stage \in Reading /\ ~Verify(i) /\ ~Finish(i)
          BY <2>3, <3>1, <4>2
          DEF Reaches, CleanUp, Find, Fetch, StartClone, Clone, WriteReceipt, Publish, Verify,
              Finish, Reading
        <5>2. run'[i].entry = run[i].entry /\ run'[i].operation = run[i].operation
          BY <2>3, <3>1, <4>2, <5>1 DEF Turns, Attempt, Reading, Owning, Cloning
        <5> QED BY <1>1, <3>1, <5>1, <5>2, EntryKept DEF EntryInv, At, Op
      <4> QED BY <4>1, <4>2
    <3>2. CASE j # i
      <4>1. run'[j] = run[j] /\ At(j)' = At(j) /\ run[j].stage \in Owning
        BY <2>3, <3>2 DEF Turns, At, Op, Reading, Owning, Cloning
      <4>2. At(j) \in Source
        BY <4>1, Places DEF Owning, Cloning
      <4> QED BY <1>1, <2>3, <3>2, <4>1, <4>2, EntryElsewhere, Alone DEF EntryInv
    <3> QED BY <3>1, <3>2
  <2>4. ASSUME NEW j \in Invocation, run'[j].stage = "finishing"
        PROVE  /\ run'[j].entry # None /\ run'[j].entry <= generations'
               /\ entry'[At(j)'] # None => run'[j].entry = entry'[At(j)']
    <3>1. CASE j = i
      <4>1. Verify(i) /\ Found(i) # NoRepository /\ run[i].stage = "verifying"
              /\ (run[i].entry # None => run[i].entry = Found(i).generation)
        BY <2>4, <3>1 DEF Reaches, Verify, Verified
      <4>2. At(i) \in Source /\ run[i].entry = entry[At(i)]
        BY <4>1, Places DEF EntryInv, Reading
      <4>3. run'[i].entry = Found(i).generation /\ run'[i].operation = run[i].operation
              /\ entry' = entry
        BY <4>1 DEF Verify, Typing, Local, registry
      <4>4. Found(i).generation \in Nat /\ Found(i).generation # None
              /\ Found(i).generation <= generations
        BY <4>1, <4>2 DEF EntryInv, Typing, Bare, Found
      <4> QED BY <2>g, <3>1, <4>1, <4>2, <4>3, <4>4 DEF At, Op
    <3>2. CASE j # i
      <4>1. run'[j] = run[j] /\ At(j)' = At(j) /\ run[j].stage \in Owning
        BY <2>4, <3>2 DEF Turns, At, Op, Owning
      <4>2. At(j) \in Source /\ run[j].entry \in Nat
        BY <4>1, Places DEF Owning, Cloning, Typing, Local
      <4>3. entry'[At(j)] = entry[At(j)]
        BY <1>1, <3>2, <4>1, <4>2, EntryElsewhere, Alone
      <4> QED BY <2>4, <2>g, <4>1, <4>2, <4>3 DEF EntryInv
    <3> QED BY <3>1, <3>2
  <2> QED BY <2>1, <2>2, <2>3, <2>4 DEF EntryInv
<1>2. CASE Others
  <2>1. generations' = generations /\ run' = run /\ clone' = clone /\ entry' = entry
    BY <1>2 DEF Others, OriginMoves, OriginLost, CacheRemoved, registry, disk
  <2>2. ASSUME NEW s \in Source PROVE cache'[s] = cache[s] \/ cache'[s] = NoRepository
    BY <1>2 DEF Others, OriginMoves, OriginLost, CacheRemoved, disk, Typing
  <2>3. NoRepository.generation = 0
    BY DEF NoRepository, Repository, None
  <2> QED BY <2>1, <2>2, <2>3 DEF EntryInv, Typing, Op, At
<1>3. CASE UNCHANGED vars
  BY <1>3 DEF vars, EntryInv, Op, At
<1> QED BY <1>1, <1>2, <1>3, WhoSteps

-----------------------------------------------------------------------------
(* Completed preparations.                                                 *)
LEMMA StepInvStep == ASSUME Typing, LeaseInv, EntryInv, StepInv, [Next]_vars PROVE StepInv'
<1>1. ASSUME NEW i \in Invocation, StepOf(i) PROVE StepInv'
  <2> Turns(i) /\ Reaches(i)
    BY <1>1, RunSteps
  <2>f. Finish(i) => run[i].stage = "finishing" /\ run[i].entry # None /\ At(i) \in Source
                       /\ entry'[At(i)] = run[i].entry /\ step'[Op(i)] = "completed"
    BY Places DEF Finish, EntryInv, Typing
  <2>1. ASSUME NEW o \in Operation, step'[o] = "completed" PROVE entry'[SourceOf[o]] # None
    <3>1. SourceOf[o] \in Source
      BY CacheAssumption
    <3> QED BY <1>1, <2>1, <2>f, <3>1, StepElsewhere, EntryElsewhere DEF StepInv, At
  <2>2. ASSUME NEW o \in Operation, sha'[o] # None PROVE step'[o] = "completed"
    <3>1. CASE sha'[o] = sha[o]
      BY <1>1, <2>2, <3>1, StepElsewhere DEF StepInv
    <3>2. CASE sha'[o] # sha[o]
      <4>1. Resolve(i) /\ o = Op(i) /\ run[i].stage = "prepared"
        BY <1>1, <3>2, ShaKept DEF Resolve, Typing
      <4> QED BY <1>1, <4>1, StepElsewhere DEF StepInv
    <3> QED BY <3>1, <3>2
  <2>3. ASSUME NEW j \in Invocation, run'[j].previous = "completed"
        PROVE  run'[j].operation \in Operation /\ step'[run'[j].operation] = "completed"
    <3>1. CASE run'[j].previous = run[j].previous /\ run'[j].operation = run[j].operation
      <4>1. step[Op(j)] = "completed" /\ Op(j) \in Operation
        BY <2>3, <3>1 DEF StepInv
      <4> QED BY <1>1, <3>1, <4>1, StepElsewhere DEF Op
    <3>2. CASE j = i /\ StartStep(i)
      <4>1. run'[i].previous = step[Op(i)] /\ run'[i].operation = Op(i) /\ Op(i) \in Operation
        BY <3>2, Places DEF StartStep, Typing, Local, Op
      <4> QED BY <1>1, <2>3, <3>2, <4>1, StepElsewhere
    <3> QED BY <2>3, <3>1, <3>2 DEF Turns
  <2>4. ASSUME NEW j \in Invocation,
               run'[j].stage \in {"releasing", "prepared", "resolved", "done"}
        PROVE  step'[run'[j].operation] = "completed"
    <3>1. CASE run'[j].operation = run[j].operation /\ step[Op(j)] = "completed"
      <4>1. Op(j) \in Operation
        BY <2>4, <3>1 DEF Turns, RunTyping, Op
      <4> QED BY <1>1, <3>1, <4>1, StepElsewhere DEF Op
    <3>2. CASE j # i
      BY <2>4, <3>1, <3>2 DEF Turns, StepInv, Op
    <3>3. CASE j = i
      <4>1. run'[i].operation = run[i].operation
        BY <2>4, <3>3 DEF Turns, Reaches, Attempt, Finish, Verify, Release, Resolve, Complete
      <4>2. CASE Finish(i)
        BY <2>f, <3>3, <4>1, <4>2 DEF Op
      <4>3. CASE ~Finish(i)
        <5>1. step[Op(i)] = "completed"
          BY <2>4, <3>3, <4>3
          DEF Reaches, Verify, MustExist, Release, Resolve, Complete, StepInv
        <5> QED BY <3>1, <3>3, <4>1, <5>1
      <4> QED BY <4>2, <4>3
    <3> QED BY <3>2, <3>3
  <2> QED BY <2>1, <2>2, <2>3, <2>4 DEF StepInv, Op
<1>2. CASE Others
  BY <1>2 DEF Others, OriginMoves, OriginLost, CacheRemoved, StepInv, registry, Op
<1>3. CASE UNCHANGED vars
  BY <1>3 DEF vars, StepInv, Op
<1> QED BY <1>1, <1>2, <1>3, WhoSteps

-----------------------------------------------------------------------------
(* Creates that were served.                                               *)
LEMMA ServedInvStep ==
  ASSUME Typing, LeaseInv, StepInv, ServedInv, [Next]_vars PROVE ServedInv'
<1>1. ASSUME NEW i \in Invocation, StepOf(i) PROVE ServedInv'
  <2> Turns(i) /\ Reaches(i)
    BY <1>1, RunSteps
  <2>1. ASSUME NEW o \in Operation, step'[o] = "completed" PROVE o \in served'
    BY <1>1, <2>1, StepElsewhere, ServedElsewhere DEF Finish, ServedInv, Past
  <2>2. ASSUME NEW s \in Source, NEW o \in Operation, o \in cache'[s].receipts
        PROVE  o \in served'
    <3>1. CASE cache'[s] = cache[s]
      BY <1>1, <2>2, <3>1, ServedElsewhere DEF ServedInv
    <3>2. CASE cache'[s] # cache[s]
      <4>1. s = At(i)
        BY <1>1, <3>2, CacheElsewhere
      <4>2. CASE Publish(i)
        <5>1. cache'[s].receipts = {Op(i)} /\ Op(i) \in served'
          BY <4>1, <4>2 DEF Publish, ServedInv, Typing
        <5> QED BY <2>2, <5>1
      <4>3. CASE WriteReceipt(i)
        <5>1. cache'[s].receipts = cache[s].receipts \cup {Op(i)}
                /\ served' = served \cup {Op(i)}
          BY <4>1, <4>3 DEF WriteReceipt, Typing, Bare
        <5> QED BY <2>2, <5>1 DEF ServedInv
      <4>4. CASE Fetch(i) \/ GroupEnds(i)
        <5>1. cache'[s].receipts = cache[s].receipts
          BY <3>2, <4>1, <4>4 DEF Fetch, GroupEnds, Typing, Bare
        <5> QED BY <1>1, <2>2, <5>1, ServedElsewhere DEF ServedInv
      <4> QED BY <1>1, <3>2, <4>2, <4>3, <4>4, CacheKept
    <3> QED BY <3>1, <3>2
  <2>3. ASSUME NEW j \in Invocation, run'[j].stage \in Past
        PROVE  run'[j].operation \in served'
    <3>1. CASE j # i
      BY <1>1, <2>3, <3>1, ServedElsewhere DEF Turns, ServedInv, Op
    <3>2. CASE j = i
      <4>1. run[i].stage # "idle" /\ (Op(i) \in served \/ WriteReceipt(i) \/ Publish(i))
        <5>1. CASE run'[i].stage = "verifying"
          <6>1. Find(i) /\ Prepared(i) => At(i) \in Source /\ Op(i) \in Operation
                                            /\ run[i].stage = "cleaned"
            BY Places DEF Find
          <6> QED BY <5>1, <6>1
              DEF Reaches, Prepared, Found, ServedInv, StepInv, WriteReceipt, Publish
        <5>2. CASE run'[i].stage # "verifying"
          BY <2>3, <3>2, <5>2
          DEF Reaches, Verify, Finish, Release, Resolve, Complete, ServedInv, Past
        <5> QED BY <5>1, <5>2
      <4>2. run'[i].operation = Op(i)
        BY <2>3, <3>2, <4>1 DEF Turns, Attempt, Past, Op
      <4> QED BY <1>1, <3>2, <4>1, <4>2, ServedElsewhere DEF WriteReceipt, Publish
    <3> QED BY <3>1, <3>2
  <2>4. ASSUME NEW j \in Invocation, run'[j].stage = "cloned"
        PROVE  clone'[j].receipts = {run'[j].operation}
    <3>1. CASE j # i
      BY <1>1, <2>4, <3>1, CloneElsewhere DEF Turns, ServedInv, Op
    <3>2. CASE j = i
      <4>1. Clone(i) /\ run'[i].operation = Op(i)
        BY <2>4, <3>2 DEF Turns, Reaches, Clone, Attempt, Op
      <4> QED BY <3>2, <4>1 DEF Clone, Receipts, Repository, Typing
    <3> QED BY <3>1, <3>2
  <2> QED BY <2>1, <2>2, <2>3, <2>4 DEF ServedInv, Op
<1>2. CASE Others
  <2>1. step' = step /\ served' = served /\ run' = run /\ clone' = clone
    BY <1>2 DEF Others, OriginMoves, OriginLost, CacheRemoved, registry, disk, history
  <2>2. ASSUME NEW s \in Source PROVE cache'[s] = cache[s] \/ cache'[s] = NoRepository
    BY <1>2 DEF Others, OriginMoves, OriginLost, CacheRemoved, disk, Typing
  <2>3. NoRepository.receipts = {}
    BY DEF NoRepository, Repository
  <2> QED BY <2>1, <2>2, <2>3 DEF ServedInv, Op
<1>3. CASE UNCHANGED vars
  BY <1>3 DEF vars, ServedInv, Op
<1> QED BY <1>1, <1>2, <1>3, WhoSteps

-----------------------------------------------------------------------------
(* Versions.  A version that was asked for is asked for ever.              *)
LEMMA AskedStays ==
  ASSUME Typing, NEW i \in Invocation, StepOf(i), NEW o \in Operation
  PROVE  /\ asked[o] # None => asked'[o] = asked[o]
         /\ asked'[o] # asked[o] => asked'[o] = origin[SourceOf[o]]
         /\ Attempt(i, o) => asked'[o] # None
<1>1. origin[SourceOf[o]] \in Nat /\ origin[SourceOf[o]] # None
  BY CacheAssumption DEF Typing, Version, None
<1>2. ASSUME NEW p \in Operation, Attempt(i, p)
      PROVE  /\ asked[o] # None => asked'[o] = asked[o]
             /\ asked'[o] # asked[o] => asked'[o] = origin[SourceOf[o]]
  BY <1>2 DEF Attempt, Typing
<1>3. Attempt(i, o) => asked'[o] # None
  BY <1>1 DEF Attempt, Typing
<1> QED BY <1>2, <1>3, AskedKept

LEMMA FreshInvStep ==
  ASSUME Typing, LeaseInv, EntryInv, FreshInv, [Next]_vars PROVE FreshInv'
<1>1. ASSUME NEW i \in Invocation, StepOf(i) PROVE FreshInv'
  <2> Turns(i) /\ Reaches(i)
    BY <1>1, RunSteps
  <2> DEFINE cached(s) == cache'[s].version
  <2>n. /\ origin' = origin
        /\ \A o \in Operation : asked[o] \in Nat /\ asked'[o] \in Nat
        /\ \A o \in Operation : SourceOf[o] \in Source /\ origin[SourceOf[o]] \in Nat
    BY <1>1, WorldKept, CacheAssumption, TypingStep DEF Typing, Version
  <2>1. ASSUME NEW o \in Operation PROVE asked'[o] <= origin'[SourceOf[o]]
    BY <1>1, <2>n, AskedStays DEF FreshInv
  <2>2. ASSUME NEW j \in Invocation, run'[j].stage # "idle"
        PROVE  run'[j].operation \in Operation /\ asked'[run'[j].operation] # None
    <3>1. run'[j].operation \in Operation
      BY <2>2 DEF Turns, RunTyping, Op
    <3>2. CASE run'[j].operation = run[j].operation /\ run[j].stage # "idle"
      BY <1>1, <3>1, <3>2, AskedStays DEF FreshInv, Op
    <3>3. CASE j = i /\ run[i].stage = "idle"
      <4>1. PICK o \in Operation : Attempt(i, o)
        BY <3>3 DEF Turns
      <4>2. run'[i].operation = o
        BY <4>1 DEF Attempt, Typing, Idle
      <4> QED BY <1>1, <3>1, <3>3, <4>1, <4>2, AskedStays
    <3> QED BY <2>2, <3>2, <3>3 DEF Turns, Attempt
  <2>3. ASSUME NEW o \in served'
        PROVE  /\ asked'[o] # None
               /\ cache'[SourceOf[o]] # NoRepository => cached(SourceOf[o]) >= asked'[o]
    <3> DEFINE s == SourceOf[o]
    <3>0. o \in Operation /\ s \in Source /\ cache[s].version \in Nat
      <4>1. o \in Operation
        BY <1>1, <2>3, TypingStep DEF Typing
      <4> QED BY <4>1, CacheAssumption DEF Typing, Bare
    <3>1. CASE o \in served
      <4>1. asked'[o] = asked[o] /\ asked[o] # None
        BY <1>1, <3>0, <3>1, AskedStays DEF FreshInv
      <4>2. CASE cache'[s] = cache[s]
        BY <3>1, <4>1, <4>2 DEF FreshInv
      <4>3. CASE cache'[s] # cache[s]
        <5>1. s = At(i)
          BY <1>1, <3>0, <4>3, CacheElsewhere
        <5>2. CASE Fetch(i) \/ GroupEnds(i)
          <6>1. cached(s) = origin[s]
            BY <3>0, <4>3, <5>1, <5>2 DEF Fetch, GroupEnds, Typing, Bare
          <6> QED BY <2>n, <3>0, <4>1, <6>1 DEF FreshInv
        <5>3. CASE WriteReceipt(i)
          <6>1. cached(s) = cache[s].version /\ cache[s] # NoRepository
            BY <3>0, <5>1, <5>3 DEF WriteReceipt, Typing, Bare, Found
          <6> QED BY <3>1, <4>1, <6>1 DEF FreshInv
        <5>4. CASE Publish(i)
          <6>1. cached(s) = clone[i].version /\ run[i].stage = "cloned"
            BY <3>0, <5>1, <5>4 DEF Publish, Typing
          <6> QED BY <3>1, <4>1, <5>1, <6>1 DEF FreshInv
        <5> QED BY <1>1, <4>3, <5>2, <5>3, <5>4, CacheKept
      <4> QED BY <4>1, <4>2, <4>3
    <3>2. CASE o \notin served
      <4>1. o = Op(i) /\ s = At(i) /\ run[i].stage # "idle" /\ (WriteReceipt(i) \/ Publish(i))
        BY <1>1, <2>3, <3>2, ServedElsewhere, ServedKept DEF At, Owning, Cloning
      <4>2. asked'[o] = asked[o] /\ asked[o] # None
        BY <1>1, <3>0, <4>1, AskedStays DEF FreshInv
      <4>3. CASE WriteReceipt(i)
        <5>1. cached(s) = Found(i).version /\ Found(i) # NoRepository
                /\ run[i].stage = "fetched"
          BY <3>0, <4>1, <4>3 DEF WriteReceipt, Typing, Bare, Found
        <5> QED BY <4>1, <4>2, <5>1 DEF FreshInv
      <4>4. CASE Publish(i)
        <5>1. cached(s) = clone[i].version /\ run[i].stage = "cloned"
          BY <3>0, <4>1, <4>4 DEF Publish, Typing
        <5> QED BY <4>1, <4>2, <5>1 DEF FreshInv
      <4> QED BY <4>1, <4>3, <4>4
    <3> QED BY <3>1, <3>2
  <2>4. ASSUME NEW j \in Invocation, run'[j].stage = "fetched",
               cache'[SourceOf[run'[j].operation]] # NoRepository
        PROVE  cached(SourceOf[run'[j].operation]) >= asked'[run'[j].operation]
    <3>1. CASE j = i
      <4>1. Fetch(i) /\ run'[i].operation = Op(i)
        BY <2>4, <3>1 DEF Turns, Reaches, Fetch, Attempt, Op
      <4>2. Op(i) \in Operation /\ At(i) \in Source
        BY <4>1, Places DEF Fetch
      <4>3. cached(At(i)) = origin[At(i)]
        BY <4>1, <4>2 DEF Fetch, Typing, Bare
      <4> QED BY <2>1, <2>n, <3>1, <4>1, <4>2, <4>3 DEF At
    <3>2. CASE j # i
      <4>1. run'[j] = run[j] /\ run[j].stage \in Owning /\ run[j].stage # "idle"
        BY <2>4, <3>2 DEF Turns, Owning
      <4>2. Op(j) \in Operation /\ At(j) \in Source
        BY <4>1, Places
      <4>3. cache'[At(j)] = cache[At(j)]
        BY <1>1, <3>2, <4>1, <4>2, CacheElsewhere, Alone
      <4>4. asked'[Op(j)] = asked[Op(j)]
        BY <1>1, <4>1, <4>2, AskedStays DEF FreshInv
      <4> QED BY <2>4, <4>1, <4>3, <4>4 DEF FreshInv, Found, At, Op
    <3> QED BY <3>1, <3>2
  <2>5. ASSUME NEW j \in Invocation, run'[j].stage = "cloned",
               NEW o \in served' \cup {run'[j].operation},
               SourceOf[o] = SourceOf[run'[j].operation]
        PROVE  clone'[j].version >= asked'[o]
    <3>0. o \in Operation
      BY <1>1, <2>2, <2>5, TypingStep DEF Typing
    <3>1. CASE j = i
      <4>1. Clone(i) /\ run'[i].operation = Op(i)
        BY <2>5, <3>1 DEF Turns, Reaches, Clone, Attempt, Op
      <4>2. clone'[i].version = origin[At(i)]
        BY <4>1 DEF Clone, Repository, Typing
      <4> QED BY <2>1, <2>5, <2>n, <3>0, <3>1, <4>1, <4>2 DEF At
    <3>2. CASE j # i
      <4>1. run'[j] = run[j] /\ run[j].stage \in Owning /\ run[j].stage \notin {"idle", "gone"}
        BY <2>5, <3>2 DEF Turns, Owning, Cloning
      <4>2. clone'[j] = clone[j]
        BY <1>1, <3>2, <4>1, CloneElsewhere
      <4>3. o \in served \cup {Op(j)}
        BY <1>1, <2>5, <3>2, <4>1, ServedElsewhere, Alone DEF At, Op
      <4>4. asked'[o] = asked[o]
        BY <1>1, <3>0, <4>1, <4>3, AskedStays DEF FreshInv
      <4> QED BY <2>5, <4>1, <4>2, <4>3, <4>4 DEF FreshInv, At, Op
    <3> QED BY <3>1, <3>2
  <2> QED BY <2>1, <2>2, <2>3, <2>4, <2>5 DEF FreshInv, Op, At, Found
<1>2. CASE Others
  <2>1. asked' = asked /\ served' = served /\ run' = run /\ clone' = clone
    BY <1>2 DEF Others, OriginMoves, OriginLost, CacheRemoved, registry, disk, history
  <2>2. ASSUME NEW s \in Source PROVE cache'[s] = cache[s] \/ cache'[s] = NoRepository
    BY <1>2 DEF Others, OriginMoves, OriginLost, CacheRemoved, disk, Typing
  <2>3. ASSUME NEW s \in Source
        PROVE  origin[s] \in Nat /\ origin'[s] \in Nat /\ origin[s] <= origin'[s]
    BY <1>2, CacheAssumption
    DEF Others, OriginMoves, OriginLost, CacheRemoved, Typing, Version
  <2>4. \A o \in Operation : asked[o] \in Nat /\ SourceOf[o] \in Source
    BY CacheAssumption DEF Typing
  <2>5. ASSUME NEW o \in Operation PROVE asked'[o] <= origin'[SourceOf[o]]
    <3>1. asked[o] <= origin[SourceOf[o]]
      BY DEF FreshInv
    <3> QED BY <2>1, <2>3, <2>4, <3>1
  <2>6. \A i \in Invocation : run[i].stage = "fetched" => Op(i) \in Operation /\ At(i) \in Source
    BY Places
  <2>7. served \subseteq Operation
    BY DEF Typing
  <2> QED BY <2>1, <2>2, <2>4, <2>5, <2>6, <2>7 DEF FreshInv, Op, At, Found
<1>3. CASE UNCHANGED vars
  BY <1>3 DEF vars, FreshInv, Op, At, Found
<1> QED BY <1>1, <1>2, <1>3, WhoSteps

-----------------------------------------------------------------------------
(* Receipts.                                                               *)
LEMMA ReceiptInvStep ==
  ASSUME Typing, LeaseInv, EntryInv, StepInv, ServedInv, ReceiptInv, [Next]_vars
  PROVE  ReceiptInv'
<1>1. ASSUME NEW i \in Invocation, StepOf(i) PROVE ReceiptInv'
  <2> Turns(i) /\ Reaches(i)
    BY <1>1, RunSteps
  <2> lost' = lost
    BY <1>1, WorldKept
  <2>1. ASSUME NEW o \in served', SourceOf[o] \notin lost
        PROVE  o \in cache'[SourceOf[o]].receipts
    <3> DEFINE s == SourceOf[o]
    <3>0. o \in Operation /\ s \in Source
      <4>1. o \in Operation
        BY <1>1, <2>1, TypingStep DEF Typing
      <4> QED BY <4>1, CacheAssumption
    <3>1. CASE WriteReceipt(i) /\ s = At(i)
      <4>1. cache'[s].receipts = cache[s].receipts \cup {Op(i)}
        BY <3>0, <3>1 DEF WriteReceipt, Typing, Bare
      <4> QED BY <2>1, <3>1, <4>1 DEF WriteReceipt, ReceiptInv
    <3>2. CASE Publish(i) /\ s = At(i)
      <4>1. cache'[s].receipts = {Op(i)} /\ cache[s].receipts = {}
        BY <3>0, <3>2 DEF Publish, ServedInv, Typing, NoRepository, Repository, Found
      <4> QED BY <2>1, <3>2, <4>1 DEF Publish, ReceiptInv
    <3>3. CASE ~(WriteReceipt(i) /\ s = At(i)) /\ ~(Publish(i) /\ s = At(i))
      <4>1. o \in served
        BY <1>1, <2>1, <3>3, ServedKept DEF WriteReceipt, Publish, At
      <4>2. cache'[s].receipts = cache[s].receipts
        <5>1. CASE cache'[s] = cache[s]
          BY <5>1
        <5>2. CASE cache'[s] # cache[s]
          BY <1>1, <3>0, <3>3, <5>2, CacheElsewhere, CacheKept
          DEF Fetch, GroupEnds, Typing, Bare
        <5> QED BY <5>1, <5>2
      <4> QED BY <2>1, <4>1, <4>2 DEF ReceiptInv
    <3> QED BY <3>1, <3>2, <3>3
  <2>2. ASSUME NEW s \in Source, entry'[s] # None, s \notin lost
        PROVE  cache'[s] # NoRepository /\ cache'[s].generation = entry'[s]
    <3>1. CASE entry'[s] # entry[s]
      <4>1. s = At(i) /\ Finish(i)
        BY <1>1, <3>1, EntryElsewhere
      <4> QED BY <2>2, <4>1 DEF Finish, ReceiptInv, Typing, Found, disk
    <3>2. CASE entry'[s] = entry[s]
      <4>1. cache[s] # NoRepository /\ cache[s].generation = entry[s]
        BY <2>2, <3>2 DEF ReceiptInv
      <4>2. CASE cache'[s] = cache[s]
        BY <3>2, <4>1, <4>2
      <4>3. CASE cache'[s] # cache[s]
        <5>1. s = At(i)
          BY <1>1, <4>3, CacheElsewhere
        <5>2. cache'[s].generation = cache[s].generation
          BY <1>1, <4>1, <4>3, <5>1, CacheKept
          DEF Fetch, WriteReceipt, Publish, GroupEnds, Typing, Bare, Found
        <5>3. NoRepository.generation = None
          BY DEF NoRepository, Repository
        <5> QED BY <2>2, <3>2, <4>1, <5>2, <5>3
      <4> QED BY <4>2, <4>3
    <3> QED BY <3>1, <3>2
  <2>3. ASSUME NEW j \in Invocation, run'[j].stage \in Refreshing,
               SourceOf[run'[j].operation] \notin lost
        PROVE  run'[j].operation \notin served'
    <3>1. CASE j = i
      <4>1. /\ run'[i].operation = Op(i) /\ run[i].stage # "idle"
            /\ ~WriteReceipt(i) /\ ~Publish(i)
        BY <2>3, <3>1
        DEF Turns, Reaches, Find, Fetch, StartClone, Clone, WriteReceipt, Publish, Attempt,
            Refreshing, Op
      <4>2. Op(i) \in Operation /\ At(i) \in Source /\ served' = served /\ At(i) \notin lost
        BY <1>1, <2>3, <3>1, <4>1, Places, ServedKept DEF At
      <4>3. Op(i) \notin served
        <5>1. CASE run'[i].stage \in {"fetched", "cloned"}
          BY <4>2, <5>1 DEF Reaches, Fetch, Clone, ReceiptInv, Refreshing
        <5>2. CASE run'[i].stage = "fetching"
          BY <4>2, <5>2 DEF Reaches, Prepared, Found, ReceiptInv, At
        <5>3. CASE run'[i].stage = "cloning"
          BY <4>2, <5>3
          DEF Reaches, StartClone, Found, NoRepository, Repository, ReceiptInv, At
        <5> QED BY <2>3, <3>1, <5>1, <5>2, <5>3 DEF Refreshing
      <4> QED BY <3>1, <4>1, <4>2, <4>3
    <3>2. CASE j # i
      <4>1. run'[j] = run[j] /\ run[j].stage \in Owning
        BY <2>3, <3>2 DEF Turns, Refreshing, Owning, Cloning
      <4> QED BY <1>1, <2>3, <3>2, <4>1, ServedElsewhere, Alone DEF ReceiptInv, At, Op
    <3> QED BY <3>1, <3>2
  <2>4. ASSUME NEW j \in Invocation, run'[j].stage = "finishing",
               SourceOf[run'[j].operation] \notin lost
        PROVE  /\ cache'[SourceOf[run'[j].operation]] # NoRepository
               /\ cache'[SourceOf[run'[j].operation]].generation = run'[j].entry
    <3>1. CASE j = i
      <4>1. Verify(i)
        BY <2>4, <3>1 DEF Reaches
      <4>2. /\ Found(i) # NoRepository /\ cache' = cache
            /\ run'[i].entry = Found(i).generation /\ run'[i].operation = Op(i)
        BY <4>1 DEF Verify, Verified, Typing, Local, disk, Op
      <4> QED BY <3>1, <4>2 DEF Found, At
    <3>2. CASE j # i
      <4>1. run'[j] = run[j] /\ run[j].stage \in Owning /\ run[j].stage # "idle"
        BY <2>4, <3>2 DEF Turns, Owning
      <4>2. cache'[At(j)] = cache[At(j)]
        BY <1>1, <3>2, <4>1, Places, CacheElsewhere, Alone
      <4> QED BY <2>4, <4>1, <4>2 DEF ReceiptInv, Found, At, Op
    <3> QED BY <3>1, <3>2
  <2> QED BY <2>1, <2>2, <2>3, <2>4 DEF ReceiptInv, Op, At, Found
<1>2. CASE Others
  <2>1. entry' = entry /\ served' = served /\ run' = run /\ lost \subseteq lost'
    BY <1>2 DEF Others, OriginMoves, OriginLost, CacheRemoved, registry, disk, history
  <2>2. ASSUME NEW s \in Source, s \notin lost' PROVE cache'[s] = cache[s]
    BY <1>2, <2>2 DEF Others, OriginMoves, OriginLost, CacheRemoved, disk, Typing
  <2>3. \A o \in served : SourceOf[o] \in Source
    BY CacheAssumption DEF Typing
  <2>4. \A i \in Invocation : run[i].stage = "finishing" => At(i) \in Source
    BY Places
  <2> QED BY <2>1, <2>2, <2>3, <2>4 DEF ReceiptInv, Op, At, Found
<1>3. CASE UNCHANGED vars
  BY <1>3 DEF vars, ReceiptInv, Op, At, Found
<1> QED BY <1>1, <1>2, <1>3, WhoSteps

-----------------------------------------------------------------------------
LEMMA Initially == Init => CacheInv
<1> SUFFICES ASSUME Init PROVE CacheInv
  OBVIOUS
<1> USE CacheAssumption DEF Init
<1>1. Idle.stage = "idle" /\ Idle.previous = "none" /\ Idle \in Local
  BY IdleIsLocal DEF Idle
<1>2. NoRepository \in Bare /\ NoRepository.generation = None /\ NoRepository.receipts = {}
  BY NoRepositoryIsBare DEF NoRepository, Repository
<1>3. Typing
  BY <1>1, <1>2 DEF Typing, Status, Version, None
<1>4. LeaseInv /\ EntryInv /\ StepInv
  BY <1>1, <1>2 DEF LeaseInv, EntryInv, StepInv, Reading, Owning, Cloning, None
<1>5. ServedInv /\ FreshInv /\ ReceiptInv
  BY <1>1, <1>2 DEF ServedInv, FreshInv, ReceiptInv, Past, Refreshing, None
<1> QED BY <1>3, <1>4, <1>5 DEF CacheInv

LEMMA Inductive == CacheInv /\ [Next]_vars => CacheInv'
BY TypingStep, LeaseInvStep, EntryInvStep, StepInvStep, ServedInvStep, FreshInvStep,
   ReceiptInvStep DEF CacheInv

(* The inductive invariant of the cache.                                   *)
THEOREM CacheInvariant == Spec => []CacheInv
BY Initially, Inductive, PTL DEF Spec

(* The invariant of the module's own typing: entries and caches hold       *)
(* generations that were made, a lease is held by whoever is preparing     *)
(* under it or died there, and a completed preparation has an entry.       *)
THEOREM TypeCorrect == Spec => []TypeOK
<1>1. CacheInv => TypeOK
  BY CacheAssumption
  DEF CacheInv, Typing, LeaseInv, EntryInv, StepInv, TypeOK, Status, Local, Bare, Op, At, None
<1> QED BY <1>1, CacheInvariant, PTL

(* A create resolves its base in a cache that is no older than its         *)
(* request, for any number of invocations, creates and sources.            *)
THEOREM Fresh == Spec => []ResolvesFresh
<1>1. Init => ResolvesFresh
  BY DEF Init, ResolvesFresh
<1>2. CacheInv /\ CacheInv' /\ ResolvesFresh /\ [Next]_vars => ResolvesFresh'
  <2> SUFFICES ASSUME CacheInv, CacheInv', ResolvesFresh, [Next]_vars,
                      NEW o \in Operation, sha'[o] # None
               PROVE  sha'[o] >= asked'[o]
    BY DEF ResolvesFresh
  <2> USE DEF CacheInv
  <2>1. ASSUME NEW i \in Invocation, StepOf(i) PROVE sha'[o] >= asked'[o]
    <3>1. CASE sha'[o] = sha[o]
      <4>1. asked[o] # None
        BY <3>1 DEF StepInv, ServedInv, FreshInv
      <4> QED BY <2>1, <3>1, <4>1, AskedStays DEF ResolvesFresh
    <3>2. CASE sha'[o] # sha[o]
      <4>1. Resolve(i) /\ o = Op(i) /\ sha'[o] = Found(i).version
        BY <2>1, <3>2, ShaKept DEF Resolve, Typing
      <4>2. /\ o \in served /\ SourceOf[o] = At(i) /\ Found(i) # NoRepository
        BY <4>1 DEF Resolve, ServedInv, Past, At
      <4>3. asked[o] # None /\ Found(i).version >= asked[o]
        BY <4>2 DEF FreshInv, Found
      <4> QED BY <2>1, <4>1, <4>3, AskedStays
    <3> QED BY <3>1, <3>2
  <2>2. CASE Others
    BY <2>2 DEF Others, OriginMoves, OriginLost, CacheRemoved, registry, history, ResolvesFresh
  <2>3. CASE UNCHANGED vars
    BY <2>3 DEF vars, ResolvesFresh
  <2> QED BY <2>1, <2>2, <2>3, WhoSteps
<1> QED BY <1>1, <1>2, CacheInvariant, PTL DEF Spec

(* Once a source has an entry, no step gives it another identity.          *)
THEOREM EntriesStay == Spec => EntryStays
<1>1. CacheInv /\ [Next]_vars =>
        \A s \in Source : entry[s] # None => entry'[s] = entry[s]
  <2> SUFFICES ASSUME CacheInv, [Next]_vars, NEW s \in Source, entry[s] # None
               PROVE  entry'[s] = entry[s]
    OBVIOUS
  <2>1. ASSUME NEW i \in Invocation, StepOf(i) PROVE entry'[s] = entry[s]
    BY <2>1, EntryElsewhere DEF CacheInv, Finish, EntryInv, Typing
  <2>2. CASE Others \/ UNCHANGED vars
    BY <2>2 DEF Others, OriginMoves, OriginLost, CacheRemoved, registry, vars
  <2> QED BY <2>1, <2>2, WhoSteps
<1> QED BY <1>1, CacheInvariant, PTL DEF Spec, EntryStays

(* A clone is removed by its own invocation, or when its process and its   *)
(* Git group are gone: never under the Git that writes it.                 *)
THEOREM ClonesKeptFromCleaners == Spec => CloneKept
<1>1. CacheInv /\ [Next]_vars =>
        \A i \in Invocation : clone[i] # NoRepository /\ clone'[i] = NoRepository =>
          run[i].stage \in {"cloned", "failing", "gone"}
  <2> SUFFICES ASSUME CacheInv, [Next]_vars, NEW j \in Invocation,
                      clone[j] # NoRepository, clone'[j] = NoRepository
               PROVE  run[j].stage \in {"cloned", "failing", "gone"}
    OBVIOUS
  <2>1. ASSUME NEW i \in Invocation, StepOf(i)
        PROVE  run[j].stage \in {"cloned", "failing", "gone"}
    <3>1. CASE j # i
      BY <2>1, <3>1, CloneElsewhere DEF CacheInv
    <3>2. CASE j = i
      <4>1. ~StartClone(i) /\ ~Clone(i)
        BY <3>2 DEF StartClone, Clone, LeaseInv, CacheInv, Typing, Partial, Repository,
                    NoRepository, None, Cloning
      <4> QED BY <2>1, <3>2, <4>1, ClonesKept DEF CleanUp, Publish, Fail, Dead, CacheInv, Typing
    <3> QED BY <3>1, <3>2
  <2>2. CASE Others \/ UNCHANGED vars
    BY <2>2 DEF Others, OriginMoves, OriginLost, CacheRemoved, disk, vars
  <2> QED BY <2>1, <2>2, WhoSteps
<1> QED BY <1>1, CacheInvariant, PTL DEF Spec, CloneKept

(* An attempt of a create that has its receipt is refused only at a source *)
(* whose cache somebody removed: origins that move or go offline, and      *)
(* whatever happened to earlier attempts, do not stand in its way.         *)
THEOREM OriginNotNeeded == Spec => NeedsNoOrigin
<1>1. CacheInv /\ [Next]_vars =>
        \A i \in Invocation : Refuse(i) /\ Op(i) \in served => At(i) \in lost
  <2> SUFFICES ASSUME CacheInv, NEW i \in Invocation, Refused(i), Op(i) \in served,
                      At(i) \notin lost
               PROVE  FALSE
    BY DEF Refuse
  <2> USE DEF CacheInv
  <2>1. Op(i) \in Operation /\ At(i) \in Source /\ Op(i) \in Found(i).receipts
    BY CacheAssumption DEF Typing, ReceiptInv, At, Found
  <2>2. Found(i) # NoRepository
    BY <2>1 DEF NoRepository, Repository
  <2>3. run[i].stage \notin Refreshing
    BY DEF ReceiptInv
  <2>4. run[i].stage = "verifying" => Verified(i)
    BY <2>1, <2>2 DEF Verified, EntryInv, Reading, ReceiptInv, Found
  <2> QED BY <2>2, <2>3, <2>4 DEF Refused, Refreshing
<1> QED BY <1>1, CacheInvariant, PTL DEF Spec, NeedsNoOrigin
=============================================================================
