--------------------------- MODULE RepositoryCache --------------------------
(***************************************************************************)
(* The shared cache of the repositories that Workspaces are created from   *)
(* by URL: Workspaces._prepare_repository (src/fangorn/workspaces.py) over *)
(* _materialize_remote_cache (src/fangorn/git_worktree.py) and the         *)
(* Registry's cache entries.                                               *)
(*                                                                         *)
(* Creates of one source share one bare repository.  Under the lease of    *)
(* the source, an attempt clones it in a directory of its own and moves it *)
(* into place, or fetches into the one that is there, and leaves a receipt *)
(* in it, so that later attempts of the same create need no origin; after  *)
(* releasing the lease it resolves its base in a cache that others may     *)
(* refresh at any time.  Attempts fail, are killed, and leave Git running; *)
(* origins move and go offline; the clones of the dead are cleaned up by   *)
(* whoever comes next, whichever the source.                               *)
(*                                                                         *)
(* The lease of a source is what MutationLease and InvocationFence show a  *)
(* lease to be; that of the Workspace lets one attempt of a create run at  *)
(* a time.                                                                 *)
(***************************************************************************)
EXTENDS Naturals, FiniteSets

CONSTANTS Invocation,     \* the processes that run create commands
          Operation,      \* creates from a URL
          Source,         \* the normalized sources, whose caches share a directory
          SourceOf,       \* the source of each create
          NoOne, NoOperation,
          MaxVersion,     \* bound: how far origins move
          MaxFaults       \* bound: failures, kills, lost origins and caches

ASSUME CacheAssumption ==
    /\ SourceOf \in [Operation -> Source]
    /\ NoOne \notin Invocation
    /\ NoOperation \notin Operation
    /\ MaxVersion \in Nat \ {0}
    /\ MaxFaults \in Nat
    /\ IsFiniteSet(Invocation)

VARIABLES step,         \* the status of each create's cache preparation
          entry,        \* repository_cache_entries: a generation per source
          sha,          \* what each create resolved its base to: a version
          lease,        \* the owner of the active lease of each source
          run,          \* the local state of each invocation
          cache,        \* the bare repository at each source's cache path
          clone,        \* the private clone directory of each invocation
          origin,       \* the version that each origin is at
          offline,      \* origins that cannot be reached
          generations,  \* generation markers made so far
          faults,
          asked,        \* observability: the version when each create began
          served,       \* observability: creates whose preparation is on disk
          lost          \* observability: sources whose cache somebody removed

registry == <<step, entry, sha, lease>>
disk == <<cache, clone, generations>>
others == <<origin, offline, faults>>
history == <<asked, served, lost>>
vars == <<step, entry, sha, lease, run, cache, clone, origin, offline, generations,
          faults, asked, served, lost>>

(* Generations and versions count from 1.                                  *)
None == 0
Version == 1 .. MaxVersion

(* A bare repository: its generation marker, the version it was fetched    *)
(* at, and the creates whose preparation receipt it holds.                 *)
Repository(generation, version, receipts) ==
    [generation |-> generation, version |-> version, receipts |-> receipts]
NoRepository == Repository(None, None, {})
Partial == Repository(None, None, {NoOperation})

(* Stages; "lingering": the process is gone, but not its Git group.        *)
Cloning == {"cloning", "lingering", "cloned"}
Owning == {"leased", "started", "cleaned", "fetching", "fetched", "verifying",
           "finishing", "releasing", "failing"} \cup Cloning
Stage == {"idle", "asking", "prepared", "resolved", "done", "gone"} \cup Owning

Idle == [stage |-> "idle", operation |-> NoOperation, previous |-> "none", entry |-> None]

TypeOK ==
    /\ step \in [Operation -> {"pending", "running", "unknown", "completed"}]
    /\ \A o \in Operation :
          /\ sha[o] # None => step[o] = "completed"
          /\ step[o] = "completed" => entry[SourceOf[o]] # None
    /\ \A s \in Source :
          /\ entry[s] \in 0 .. generations
          /\ cache[s].generation \in 0 .. generations
          /\ lease[s] # NoOne =>
                /\ run[lease[s]].stage \in Owning \cup {"gone"}
                /\ SourceOf[run[lease[s]].operation] = s
    /\ \A i \in Invocation :
          /\ run[i].stage \in Stage
          /\ run[i].stage \in Owning => lease[SourceOf[run[i].operation]] = i
          /\ clone[i] # NoRepository => run[i].stage \in Cloning \cup {"gone", "failing"}
    /\ faults \in 0 .. MaxFaults

-----------------------------------------------------------------------------
Op(i) == run[i].operation
At(i) == SourceOf[Op(i)]
Found(i) == cache[At(i)]
To(i, stage) == run' = [run EXCEPT ![i].stage = stage]

Init ==
    /\ step = [o \in Operation |-> "pending"]
    /\ entry = [s \in Source |-> None]
    /\ sha = [o \in Operation |-> None]
    /\ lease = [s \in Source |-> NoOne]
    /\ run = [i \in Invocation |-> Idle]
    /\ cache = [s \in Source |-> NoRepository]
    /\ clone = [i \in Invocation |-> NoRepository]
    /\ origin = [s \in Source |-> 1]
    /\ offline = {}
    /\ generations = 0
    /\ faults = 0
    /\ asked = [o \in Operation |-> None]
    /\ served = {}
    /\ lost = {}

(* What owner_status calls dead: the process is gone and its Git group is. *)
DeadProcess(i) == run[i].stage \in {"gone", "lingering"}

Dead(i) == run[i].stage = "gone"

AvailableToAll(s) == TRUE

Available(s) == lease[s] # NoOne => Dead(lease[s])

(* An attempt of a create; the Workspace lease admits one at a time.       *)
Attempt(i, o) ==
    /\ run[i].stage = "idle"
    /\ \A j \in Invocation : Op(j) = o => run[j].stage = "gone"
    /\ run' = [run EXCEPT ![i] = [Idle EXCEPT !.stage = "asking", !.operation = o]]
    /\ asked' = [asked EXCEPT ![o] = IF @ = None THEN origin[SourceOf[o]] ELSE @]
    /\ UNCHANGED <<registry, disk, others, served, lost>>

(* acquire_lease of the source.  Taken over from the dead, a running step  *)
(* becomes unknown.                                                        *)
Interrupted(o) == IF step[o] = "running" THEN "unknown" ELSE step[o]

Acquire(i) ==
    LET owner == lease[At(i)] IN
    /\ run[i].stage = "asking"
    /\ Available(At(i))
    /\ lease' = [lease EXCEPT ![At(i)] = i]
    /\ step' = IF owner = NoOne THEN step
               ELSE [step EXCEPT ![Op(owner)] = Interrupted(Op(owner))]
    /\ To(i, "leased")
    /\ UNCHANGED <<entry, sha, disk, others, history>>

Busy(i) ==
    /\ run[i].stage = "asking"
    /\ ~Available(At(i))
    /\ run' = [run EXCEPT ![i] = Idle]
    /\ UNCHANGED <<registry, disk, others, history>>

(* start_operation_step, and the entry as it is read after it.             *)
StartStep(i) ==
    /\ run[i].stage = "leased"
    /\ step' = [step EXCEPT ![Op(i)] = IF @ = "completed" THEN @ ELSE "running"]
    /\ run' = [run EXCEPT ![i].stage = "started", ![i].previous = step[Op(i)],
                          ![i].entry = entry[At(i)]]
    /\ UNCHANGED <<entry, sha, lease, disk, others, history>>

(* _cleanup_abandoned_clones: of the directory, not only of the source.    *)
CleanUp(i) ==
    /\ run[i].stage = "started"
    /\ clone' = [j \in Invocation |-> IF Dead(j) THEN NoRepository ELSE clone[j]]
    /\ To(i, "cleaned")
    /\ UNCHANGED <<registry, cache, generations, others, history>>

-----------------------------------------------------------------------------
(* _materialize_remote_cache.  A preparation that is completed, or whose   *)
(* receipt is there, needs no refresh.                                     *)
PreparedForAny(i) == run[i].previous = "completed" \/ Found(i).receipts # {}

Prepared(i) == run[i].previous = "completed" \/ Op(i) \in Found(i).receipts

Find(i) ==
    /\ run[i].stage = "cleaned"
    /\ Found(i) # NoRepository
    /\ To(i, IF Prepared(i) THEN "verifying" ELSE "fetching")
    /\ UNCHANGED <<registry, disk, others, history>>

MustExist(i) == run[i].previous = "completed" /\ run[i].entry # None

StartClone(i) ==
    /\ run[i].stage = "cleaned"
    /\ Found(i) = NoRepository
    /\ ~MustExist(i)
    /\ clone' = [clone EXCEPT ![i] = Partial]
    /\ To(i, "cloning")
    /\ UNCHANGED <<registry, cache, generations, others, history>>

(* _refresh_bare_repository, _write_preparation_receipt.                   *)
Fetch(i) ==
    /\ run[i].stage = "fetching"
    /\ Found(i) # NoRepository
    /\ At(i) \notin offline
    /\ cache' = [cache EXCEPT ![At(i)].version = origin[At(i)]]
    /\ To(i, "fetched")
    /\ UNCHANGED <<registry, clone, generations, others, history>>

WriteReceipt(i) ==
    /\ run[i].stage = "fetched"
    /\ Found(i) # NoRepository
    /\ cache' = [cache EXCEPT ![At(i)].receipts = @ \cup {Op(i)}]
    /\ served' = served \cup {Op(i)}
    /\ To(i, "verifying")
    /\ UNCHANGED <<registry, clone, generations, others, asked, lost>>

(* The clone gets its marker and its receipt before it is published.       *)
ReceiptsLater(i) == {}

Receipts(i) == {Op(i)}

Clone(i) ==
    /\ run[i].stage = "cloning"
    /\ At(i) \notin offline
    /\ generations' = generations + 1
    /\ clone' = [clone EXCEPT
                    ![i] = Repository(generations', origin[At(i)], Receipts(i))]
    /\ To(i, "cloned")
    /\ UNCHANGED <<registry, cache, others, history>>

(* os.replace.  Only the holder of the lease publishes at the cache path,  *)
(* and it found nothing there; on a collision it would fail (Fails).       *)
Publish(i) ==
    /\ run[i].stage = "cloned"
    /\ Found(i) = NoRepository
    /\ cache' = [cache EXCEPT ![At(i)] = clone[i]]
    /\ clone' = [clone EXCEPT ![i] = NoRepository]
    /\ served' = served \cup {Op(i)}
    /\ To(i, "verifying")
    /\ UNCHANGED <<registry, generations, others, asked, lost>>

(* The rest of _prepare_repository.  The generation is that of the entry,  *)
(* which only the holder of the lease writes.                              *)
Verified(i) ==
    /\ Found(i) # NoRepository
    /\ run[i].entry # None => run[i].entry = Found(i).generation

Verify(i) ==
    /\ run[i].stage = "verifying"
    /\ Verified(i)
    /\ run' = [run EXCEPT ![i].stage = IF MustExist(i) THEN "releasing" ELSE "finishing",
                          ![i].entry = Found(i).generation]
    /\ UNCHANGED <<registry, disk, others, history>>

(* finish_cache_preparation: the entry and the step in one transaction.    *)
Finish(i) ==
    /\ run[i].stage = "finishing"
    /\ entry' = [entry EXCEPT ![At(i)] = run[i].entry]
    /\ step' = [step EXCEPT ![Op(i)] = "completed"]
    /\ To(i, "releasing")
    /\ UNCHANGED <<sha, lease, disk, others, history>>

Release(i) ==
    /\ run[i].stage = "releasing"
    /\ lease' = [lease EXCEPT ![At(i)] = NoOne]
    /\ run' = [run EXCEPT ![i] = [Idle EXCEPT !.stage = "prepared", !.operation = Op(i)]]
    /\ UNCHANGED <<step, entry, sha, disk, others, history>>

(* resolve_commit in the shared cache, and persist_resolved_sha.           *)
Resolve(i) ==
    /\ run[i].stage = "prepared"
    /\ Found(i) # NoRepository
    /\ sha' = [sha EXCEPT ![Op(i)] = IF @ = None THEN Found(i).version ELSE @]
    /\ To(i, "resolved")
    /\ UNCHANGED <<step, entry, lease, disk, others, history>>

(* The rest of the create (see WorkspaceCreate).                           *)
Complete(i) ==
    /\ run[i].stage = "resolved"
    /\ To(i, "done")
    /\ UNCHANGED <<registry, disk, others, history>>

-----------------------------------------------------------------------------
(* What an attempt cannot accept, or cannot do without an origin.          *)
Refused(i) ==
    CASE run[i].stage = "cleaned" -> Found(i) = NoRepository /\ MustExist(i)
      [] run[i].stage = "verifying" -> ~Verified(i)
      [] run[i].stage \in {"fetching", "fetched", "prepared"} ->
            \/ Found(i) = NoRepository
            \/ run[i].stage = "fetching" /\ At(i) \in offline
      [] run[i].stage = "cloning" -> At(i) \in offline
      [] OTHER -> FALSE

(* The lease of the source, unless it was released, is released next.      *)
Abort(i) ==
    run' = [run EXCEPT ![i] = IF @.stage \in {"prepared", "resolved"} THEN Idle
                             ELSE [@ EXCEPT !.stage = "failing"]]

Refuse(i) ==
    /\ Refused(i)
    /\ Abort(i)
    /\ UNCHANGED <<registry, disk, others, history>>

Faulty ==
    /\ faults < MaxFaults
    /\ faults' = faults + 1
    /\ UNCHANGED <<registry, disk, origin, offline, history>>

Fails(i) ==
    /\ run[i].stage \in (Owning \ {"failing", "lingering"}) \cup {"prepared", "resolved"}
    /\ Abort(i)
    /\ Faulty

(* rmtree of the clone, release_lease, and the create may be repeated.     *)
Fail(i) ==
    /\ run[i].stage = "failing"
    /\ clone' = [clone EXCEPT ![i] = NoRepository]
    /\ step' = [step EXCEPT ![Op(i)] = Interrupted(Op(i))]
    /\ lease' = [lease EXCEPT ![At(i)] = NoOne]
    /\ run' = [run EXCEPT ![i] = Idle]
    /\ UNCHANGED <<entry, sha, cache, generations, others, history>>

(* Killed, or unable to prove that Git stopped: lease and clone are kept.  *)
(* (Bound: somebody is left to retry.)                                     *)
Vanish(i) ==
    /\ run[i].stage \in (Owning \ {"lingering"}) \cup {"prepared", "resolved"}
    /\ \E j \in Invocation \ {i} : ~DeadProcess(j)
    /\ To(i, IF run[i].stage \in {"cloning", "fetching"} THEN "lingering" ELSE "gone")
    /\ Faulty

(* What is left of it may still complete a fetch.                          *)
GroupEnds(i) ==
    /\ run[i].stage = "lingering"
    /\ To(i, "gone")
    /\ \/ UNCHANGED cache
       \/ /\ clone[i] = NoRepository
          /\ Found(i) # NoRepository
          /\ At(i) \notin offline
          /\ cache' = [cache EXCEPT ![At(i)].version = origin[At(i)]]
    /\ UNCHANGED <<registry, clone, generations, others, history>>

-----------------------------------------------------------------------------
(* Others.                                                                 *)
OriginMoves(s) ==
    /\ origin[s] < MaxVersion
    /\ origin' = [origin EXCEPT ![s] = @ + 1]
    /\ UNCHANGED <<registry, run, disk, offline, faults, history>>

OriginLost(s) ==
    /\ s \notin offline
    /\ faults < MaxFaults
    /\ faults' = faults + 1
    /\ offline' = offline \cup {s}
    /\ UNCHANGED <<registry, run, disk, origin, history>>

CacheRemoved(s) ==
    /\ cache[s] # NoRepository
    /\ faults < MaxFaults
    /\ faults' = faults + 1
    /\ cache' = [cache EXCEPT ![s] = NoRepository]
    /\ lost' = lost \cup {s}
    /\ UNCHANGED <<registry, run, clone, generations, origin, offline, asked, served>>

Prepare(i) ==
    \/ \E o \in Operation : Attempt(i, o)
    \/ Acquire(i) \/ Busy(i) \/ StartStep(i) \/ CleanUp(i) \/ Find(i) \/ Fetch(i)
    \/ WriteReceipt(i) \/ StartClone(i) \/ Clone(i) \/ Publish(i) \/ Verify(i)
    \/ Finish(i) \/ Release(i) \/ Resolve(i) \/ Complete(i) \/ Refuse(i) \/ Fail(i)
    \/ GroupEnds(i)

Next ==
    \/ \E i \in Invocation : Prepare(i) \/ Fails(i) \/ Vanish(i)
    \/ \E s \in Source : OriginMoves(s) \/ OriginLost(s) \/ CacheRemoved(s)

Spec == Init /\ [][Next]_vars

-----------------------------------------------------------------------------
(* Properties.                                                             *)

(* Every create resolves its base in a cache that is no older than its     *)
(* request, however old the cache was and whoever refreshed it.            *)
ResolvesFresh == \A o \in Operation : sha[o] # None => sha[o] >= asked[o]

(* "Repository cache identity changed": once creates have resolved in a    *)
(* cache, its source never stands for another one, be it that two          *)
(* invocations prepare it at once or that it disappears from disk.         *)
EntryStays == [][ \A s \in Source : entry[s] # None => entry'[s] = entry[s] ]_vars

(* Nobody removes a clone under the Git group that writes it: only its own *)
(* invocation, or a cleaner when the owner is dead together with it.       *)
CloneKept ==
    [][ \A i \in Invocation :
            clone[i] # NoRepository /\ clone'[i] = NoRepository =>
                run[i].stage \in {"cloned", "failing", "gone"} ]_vars

(* Whatever happens to its attempts, a create whose clone or fetch has got  *)
(* to its receipt does not need its origin any more: only the loss of the  *)
(* cache stands in its way.                                                *)
NeedsNoOrigin == [][ \A i \in Invocation : Refuse(i) /\ Op(i) \in served => At(i) \in lost ]_vars
=============================================================================
